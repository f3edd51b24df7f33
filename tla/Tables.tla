-------------------------------- MODULE Tables --------------------------------
(***************************************************************************)
(* The tables of GF(256) as the ready callers of Startup find them: a      *)
(* request names a factor.                                                 *)
(***************************************************************************)
EXTENDS Helpers, Gf256

-----------------------------------------------------------------------------
(* gf256_self_test *)

kTestBufferBytes == 32 + 16 + 8 + 4 + 2 + 1

SelfTestPasses(cpu) ==
  /\ \A i, j \in Byte :
       LET prod == gf256_mul(i, j)
       IN IF i # 0 /\ j # 0 THEN gf256_div(prod, i) = j /\ gf256_div(prod, j) = i
                            ELSE prod = 0
  /\ \A i \in Byte : gf256_mul(i, 1) = i
  /\ \A pieces \in SelfTested(cpu, kTestBufferBytes) : Covers(pieces, 0, kTestBufferBytes)
  /\ ShuffleProduct(170, 108) = gf256_mul(170, 108)
  /\ ShuffleProduct(85, 162) = gf256_mul(85, 162)

gf256_self_test == [cpu \in Variants |-> SelfTestPasses(cpu)]

-----------------------------------------------------------------------------
(* The tables are the field's arithmetic: the product is that of polynomials,   *)
(* the nibble tables of the shuffle instructions give the same one, and         *)
(* division, inverse and square agree with it.  A wrong entry garbles blocks;   *)
(* the self-test, which passes, tries no inverse, no square and two factors of   *)
(* the nibble tables.                                                            *)
TablesAreTheField ==
  request.kind = "field" =>
    LET a == request.size
    IN /\ gf256_self_test[platform.cpu]
       /\ \A b \in Byte :
            LET prod == gf256_mul(a, b)
            IN /\ prod = PolynomialProduct(a, b)
               /\ ShuffleProduct(a, b) = prod
               /\ a # 0 /\ b # 0 => /\ gf256_div(prod, a) = b
                                    /\ gf256_mul(gf256_inv(a), a) = 1
               /\ gf256_sqr(a) = gf256_mul(a, a)
=============================================================================
