-------------------------------- MODULE Gf256 --------------------------------
(***************************************************************************)
(* Arithmetic in GF(2^8): gf256.h and gf256.cpp.  The tables are built as  *)
(* gf256_init_ builds them.  The bulk operators on whole blocks apply to   *)
(* every byte what they do to one; Kernels says how a buffer is cut up.    *)
(***************************************************************************)
EXTENDS Loops

Byte == 0..255

-----------------------------------------------------------------------------
(* gf256_add: exclusive or *)

Bit(x, i) == (x \div 2^i) % 2
XorTable ==
  LET nibble == [a \in 0..15 |-> [b \in 0..15 |->
        ForEach(LAMBDA s, i : s + ((Bit(a, i) + Bit(b, i)) % 2) * 2^i, 0, <<0, 1, 2, 3>>)]]
  IN [a \in Byte |-> [b \in Byte |->
        16 * nibble[a \div 16][b \div 16] + nibble[a % 16][b % 16]]]
gf256_add(x, y) == XorTable[x][y]

-----------------------------------------------------------------------------
(* Tables *)

GF256_GEN_POLY == <<142, 149, 150, 166, 175, 177, 178, 180,
                    184, 195, 198, 212, 225, 231, 243, 250>>
kDefaultPolynomialIndex == 3

(* The ninth bit of the polynomial cancels the carry, so eight bits are kept. *)
PolynomialLowByte == (2 * GF256_GEN_POLY[kDefaultPolynomialIndex + 1] + 1) % 256
Doubled(x) == IF 2 * x >= 256 THEN gf256_add(2 * x - 256, PolynomialLowByte) ELSE 2 * x

(* gf256_explog_init: the powers of 2 by doubling, twice over, a 1 and zeros.  *)
(* log(0) points past every sum of two logarithms; log(1) is written last, 255.*)
ExpTable ==
  LET power == ForEach(LAMBDA s, j : Append(s, Doubled(s[j])), <<1>>, Upto(1, 254))
  IN [j \in 0..1019 |-> CASE j < 510 -> power[(j % 255) + 1] [] j = 510 -> 1 [] OTHER -> 0]
LogTable(exp) ==
  [x \in Byte |-> CASE x = 0 -> 512
                    [] x = 1 -> 255
                    [] OTHER -> CHOOSE j \in 1..254 : exp[j] = x]

(* gf256_muldiv_init, gf256_inv_init, gf256_sqr_init *)
MulTable(exp, log) ==
  [y \in Byte |-> [x \in Byte |-> IF x = 0 \/ y = 0 THEN 0 ELSE exp[log[x] + log[y]]]]
DivTable(exp, log) ==
  [y \in Byte |-> [x \in Byte |-> IF x = 0 \/ y = 0 THEN 0 ELSE exp[log[x] + 255 - log[y]]]]
InvOfQuotient(div) == [x \in Byte |-> div[1][x]]
InvTable(div) == [x \in Byte |-> div[x][1]]
SqrTable(mul) == [x \in Byte |-> mul[x][x]]

(* gf256_mul_mem_init: the products of the low and of the high four bits. *)
LowTable(mul)  == [y \in Byte |-> [x \in 0..15 |-> mul[y][x]]]
HighTable(mul) == [y \in Byte |-> [x \in 0..15 |-> mul[y][16 * x]]]

(* GF256Ctx, filled in the order of gf256_init_. *)
WithLog(exp)    == [exp |-> exp, log |-> LogTable(exp)]
WithMulDiv(t)   == [exp |-> t.exp, log |-> t.log,
                    mul |-> MulTable(t.exp, t.log), div |-> DivTable(t.exp, t.log)]
WithProducts(t) == [exp |-> t.exp, log |-> t.log, mul |-> t.mul, div |-> t.div,
                    inv |-> InvTable(t.div), sqr |-> SqrTable(t.mul),
                    low |-> LowTable(t.mul), high |-> HighTable(t.mul)]
GF256Ctx == WithProducts(WithMulDiv(WithLog(ExpTable)))

gf256_mul(x, y) == GF256Ctx.mul[y][x]
gf256_div(x, y) == GF256Ctx.div[y][x]
gf256_inv(x)    == GF256Ctx.inv[x]
gf256_sqr(x)    == GF256Ctx.sqr[x]

(* What the shuffle instructions compute for a byte, and what the table does. *)
ShuffleProduct(x, y) == gf256_add(GF256Ctx.low[y][x % 16], GF256Ctx.high[y][x \div 16])

-----------------------------------------------------------------------------
(* The operations on whole blocks, sequences of bytes *)

Zeros(n) == [i \in 1..n |-> 0]

gf256_add_mem(x, y) == [i \in 1..Len(x) |-> XorTable[x[i]][y[i]]] \o <<>>
gf256_mul_mem(x, y) == [i \in 1..Len(x) |-> GF256Ctx.mul[y][x[i]]] \o <<>>
gf256_muladd_mem(z, y, x) == gf256_add_mem(z, gf256_mul_mem(x, y))
gf256_div_mem(x, y) == gf256_mul_mem(x, IF y = 1 THEN 1 ELSE GF256Ctx.inv[y])

-----------------------------------------------------------------------------
(* The product by shifting and adding, from the definition of the field. *)
PolynomialProduct(x, y) ==
  LET shifted[i \in 0..7] == IF i = 0 THEN x ELSE Doubled(shifted[i - 1])
  IN ForEach(LAMBDA s, i : IF Bit(y, i) = 1 THEN gf256_add(s, shifted[i]) ELSE s,
             0, Upto(0, 7))
=============================================================================
