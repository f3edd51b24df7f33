-------------------------------- MODULE Codec --------------------------------
(***************************************************************************)
(* The Wirehair codec as its callers see it: wirehair.cpp over the class   *)
(* Codec.  One encoder holds a message; blocks it makes arrive at one      *)
(* decoder in any order, any number of times or never.  A call of the C    *)
(* API is one step: the Rust wrapper holds the codec exclusively for it.   *)
(*                                                                         *)
(* A result is a record [result, c]; the C API's null pointer is NoCodec.  *)
(***************************************************************************)
EXTENDS SolverValues

CONSTANTS
  Scenarios,     \* [messageBytes, blockBytes, plan]: plan[k] is the set of block
                 \* ids the k-th call of wirehair_decode may bring (a bound)
  MaxExtraRows   \* CAT_MAX_EXTRA_ROWS

ASSUME CodecAssumption == MaxExtraRows \in Nat \ {0}

NoCodec == [kind |-> "null"]

-----------------------------------------------------------------------------
(* Setting up *)

(* ChooseMatrix: the block count is cut to 16 bits before it is checked. *)
BlockCount(message_bytes, block_bytes) ==
  ((message_bytes + block_bytes - 1) \div block_bytes) % 65536

ChooseMatrix(message_bytes, block_bytes) ==
  CASE message_bytes < 1 \/ block_bytes < 1 -> "InvalidInput"
    [] OTHER -> LET n == BlockCount(message_bytes, block_bytes)
                IN CASE n < CAT_WIREHAIR_MIN_N -> "BadInput_SmallN"
                     [] n > CAT_WIREHAIR_MAX_N -> "BadInput_LargeN"
                     [] OTHER -> "Success"

FinalBytes(message_bytes, block_bytes) ==
  IF message_bytes % block_bytes = 0 THEN block_bytes ELSE message_bytes % block_bytes

(* The members Allocate* and ChooseMatrix set, whichever way the codec goes. *)
Blank(n, block_bytes) ==
  [kind |-> "codec", N |-> n, D |-> DenseRows[n], mix |-> MixCount(n), extra |-> 0,
   bytes |-> block_bytes, inFinal |-> block_bytes, outFinal |-> block_bytes,
   ids |-> <<>>, input |-> <<>>, peel |-> NewPeel(n), copied |-> {},
   defer |-> 0, fhc |-> 0, heavyCols |-> 0,
   compress |-> <<>>, ge |-> <<>>, heavy |-> <<>>,
   pivots |-> <<>>, next |-> 0, count |-> 0, fhp |-> 0,
   rowMap |-> <<>>, colMap |-> <<>>,
   recovery |-> Table(0..(n + MixCount(n)), LAMBDA r : <<>>),
   allOriginal |-> FALSE, outOfOrder |-> FALSE]

InitializeEncoder(message_bytes, block_bytes) ==
  [Blank(BlockCount(message_bytes, block_bytes), block_bytes)
     EXCEPT !.inFinal = FinalBytes(message_bytes, block_bytes)]

InitializeDecoder(message_bytes, block_bytes) ==
  [Blank(BlockCount(message_bytes, block_bytes), block_bytes)
     EXCEPT !.outFinal = FinalBytes(message_bytes, block_bytes),
            !.extra = MaxExtraRows, !.allOriginal = TRUE, !.outOfOrder = TRUE]

(* OpportunisticPeeling of the row for block id: [ok, c] *)
FeedRow(c, id, block) ==
  LET r == OpportunisticPeeling(c.peel, RowColumns[c.N][id].peel)
  IN IF r.ok
     THEN [ok |-> TRUE, c |-> [c EXCEPT !.peel = PeelAvalanche(r.peel),
                                        !.ids = Append(@, id), !.input = Append(@, block)]]
     ELSE [ok |-> FALSE, c |-> [c EXCEPT !.peel = r.peel]]

WithValues(s) == IF s.result = "Success" THEN [s EXCEPT !.c = GenerateRecoveryBlocks(@)] ELSE s

(* A matrix the encoder cannot solve means a bad table of seeds. *)
BadSeed(s) == IF s.result = "NeedMore" THEN [s EXCEPT !.result = "BadPeelSeed"] ELSE s

SolveEncoder(c) == BadSeed(WithValues(SolveMatrix(c)))
SolveFed(s) == IF s.ok THEN SolveEncoder(s.c) ELSE [result |-> "BadPeelSeed", c |-> s.c]

EncodeFeed(c, message) ==
  SolveFed(ForEach(LAMBDA s, id : IF s.ok THEN FeedRow(s.c, id, message[At(id)]) ELSE s,
                   [ok |-> TRUE, c |-> c], Upto(0, c.N - 1)))

-----------------------------------------------------------------------------
(* Blocks out of a solved codec *)

(* The columns of a block id, summed over the recovery blocks. *)
Mixture(c, id) ==
  LET cols == RowColumns[c.N][id]
  IN Combine(c, Zeros(c.bytes), Plain(cols.peel \o [k \in 1..kMixColumnCount |-> c.N + cols.mix[k]]))

Encode(c, id) ==
  LET copyBytes == IF id % 65536 = c.N - 1 THEN c.inFinal ELSE c.bytes
      whole == IF id < c.N /\ ~c.outOfOrder THEN c.input[At(id)] ELSE Mixture(c, id)
  IN SubSeq(whole, 1, copyBytes)

OutBytes(c, id) == IF id = c.N - 1 THEN c.outFinal ELSE c.bytes

(* Rows that hold an original block, by its id. *)
RowsOf(c, id) == {r \in 0..(RowCount(c) - 1) : c.ids[At(r)] = id}
LastOf(S) == CHOOSE x \in S : \A y \in S : x >= y

ReconstructBlock(c, id) ==
  IF c.allOriginal
  THEN SubSeq(c.input[At(MinOf(RowsOf(c, id)))], 1, OutBytes(c, id))
  ELSE SubSeq(Mixture(c, id), 1, OutBytes(c, id))

(* A stored original is copied, the last copy of it wins. *)
OutputBlock(c, id) ==
  IF RowsOf(c, id) # {}
  THEN SubSeq(c.input[At(LastOf(RowsOf(c, id)))], 1, OutBytes(c, id))
  ELSE SubSeq(Mixture(c, id), 1, OutBytes(c, id))

ReconstructOutput(c, message_bytes) ==
  IF message_bytes # c.bytes * (c.N - 1) + c.outFinal
  THEN [result |-> "InvalidInput", out |-> <<>>]
  ELSE [result |-> "Success", out |-> [k \in 1..c.N |-> OutputBlock(c, k - 1)]]

-----------------------------------------------------------------------------
(* Blocks into a decoder *)

IsAllOriginalData(c) == \A id \in 0..(c.N - 1) : RowsOf(c, id) # {}

WrongSize(c, id, block) ==
  IF id + 1 = c.N THEN c.outFinal > Len(block) ELSE Len(block) # c.bytes

(* The N-th row: a message of originals needs no matrix. *)
LastRow(c) ==
  CASE Len(c.ids) # c.N -> [result |-> "NeedMore", c |-> c]
    [] Len(c.ids) = c.N /\ c.allOriginal ->
         IF IsAllOriginalData(c) THEN [result |-> "Success", c |-> c]
         ELSE [result |-> "InvalidInput", c |-> [c EXCEPT !.allOriginal = FALSE]]
    [] OTHER -> WithValues(SolveMatrix(c))

AfterFeed(s) == IF s.ok THEN LastRow(s.c) ELSE [result |-> "NeedMore", c |-> s.c]
StoreBlock(c, id, block) ==
  IF RowCount(c) >= c.N THEN WithValues(ResumeSolveMatrix(c, id, block))
  ELSE AfterFeed(FeedRow(c, id, Received(c, id, block)))

DecodeFeed(c, id, block) ==
  IF WrongSize(c, id, block) THEN [result |-> "InvalidInput", c |-> c]
  ELSE StoreBlock([c EXCEPT !.allOriginal = @ /\ id < c.N], id, block)

EncoderKeepsBlockSize(c) ==
  IF c.allOriginal THEN SolveEncoder(c) ELSE [result |-> "Success", c |-> c]

(* Originals alone were never solved: the matrix is solved now. *)
InitializeEncoderFromDecoder(c) ==
  LET turned(s) == IF s.result = "Success" THEN [s EXCEPT !.c.inFinal = s.c.outFinal] ELSE s
  IN turned(IF c.allOriginal THEN SolveEncoder(c) ELSE [result |-> "Success", c |-> c])

-----------------------------------------------------------------------------
(* wirehair.cpp *)

(* Block i of the message has a single 1, at byte i modulo the block size: *)
(* the code is linear, so such messages stand for all of them.             *)
Message(messageBytes, blockBytes) ==
  LET n == BlockCount(messageBytes, blockBytes)
      size(i) == IF i = n - 1 THEN FinalBytes(messageBytes, blockBytes) ELSE blockBytes
  IN [k \in 1..n |-> [b \in 1..size(k - 1) |-> IF b - 1 = (k - 1) % blockBytes THEN 1 ELSE 0]]

(* A codec that could not be set up is deleted. *)
Created(r) == IF r.result = "Success" THEN r.c ELSE NoCodec

wirehair_encoder_create(messageBytes, blockBytes) ==
  LET chosen == ChooseMatrix(messageBytes, blockBytes)
  IN IF chosen # "Success" THEN NoCodec
     ELSE Created(EncodeFeed(InitializeEncoder(messageBytes, blockBytes),
                             Message(messageBytes, blockBytes)))

wirehair_decoder_create(messageBytes, blockBytes) ==
  IF ChooseMatrix(messageBytes, blockBytes) # "Success" THEN NoCodec
  ELSE InitializeDecoder(messageBytes, blockBytes)

wirehair_decode(c, id, block) ==
  IF Len(block) < 1 THEN [result |-> "InvalidInput", c |-> c] ELSE DecodeFeed(c, id, block)

-----------------------------------------------------------------------------
(* The calls of one transfer *)

VARIABLES
  scenario,    \* what is sent, and what may arrive
  encoder,     \* the sender's WirehairEncoder
  decoder,     \* the receiver's WirehairDecoder
  outcome,     \* result of the last call on the decoder; "none" before the first
  deliveries,  \* calls of wirehair_decode so far
  output       \* the blocks wirehair_recover wrote

vars == <<scenario, encoder, decoder, outcome, deliveries, output>>

Init ==
  /\ scenario \in Scenarios
  /\ encoder = NoCodec
  /\ decoder = NoCodec
  /\ outcome = "none"
  /\ deliveries = 0
  /\ output = <<>>

CreateEncoder ==
  /\ encoder = NoCodec /\ outcome = "none"
  /\ encoder' = wirehair_encoder_create(scenario.messageBytes, scenario.blockBytes)
  /\ outcome' = IF encoder' = NoCodec THEN "refused" ELSE outcome
  /\ UNCHANGED <<scenario, decoder, deliveries, output>>

CreateDecoder ==
  /\ decoder = NoCodec /\ outcome = "none"
  /\ decoder' = wirehair_decoder_create(scenario.messageBytes, scenario.blockBytes)
  /\ outcome' = IF decoder' = NoCodec THEN "refused" ELSE outcome
  /\ UNCHANGED <<scenario, encoder, deliveries, output>>

(* A block arrives: any block of the plan, whatever arrived before.  The      *)
(* receiver stops feeding a decoder that answered anything but NeedMore.      *)
Deliver(id) ==
  /\ encoder # NoCodec /\ decoder # NoCodec
  /\ outcome \in {"none", "NeedMore"}
  /\ \E r \in {wirehair_decode(decoder, id, Encode(encoder, id))} :
        decoder' = r.c /\ outcome' = r.result
  /\ deliveries' = deliveries + 1
  /\ UNCHANGED <<scenario, encoder, output>>

DeliverPlanned ==
  /\ deliveries < Len(scenario.plan)
  /\ \E id \in scenario.plan[deliveries + 1] : Deliver(id)

Recover ==
  /\ decoder # NoCodec /\ outcome = "Success" /\ output = <<>>
  /\ output' = ReconstructOutput(decoder, scenario.messageBytes).out
  /\ UNCHANGED <<scenario, encoder, decoder, outcome, deliveries>>

(* wirehair_decoder_becomes_encoder: a relay goes on with what it decoded. *)
BecomeEncoder ==
  /\ decoder # NoCodec /\ outcome = "Success" /\ output # <<>>
  /\ \E r \in {InitializeEncoderFromDecoder(decoder)} :
        /\ decoder' = r.c
        /\ outcome' = IF r.result = "Success" THEN "encoder" ELSE r.result
  /\ UNCHANGED <<scenario, encoder, deliveries, output>>

(* wirehair_free, when the wrapper is dropped: after the message is out or   *)
(* after an error.                                                           *)
Free ==
  /\ decoder # NoCodec
  /\ outcome \notin {"none", "NeedMore"} /\ (outcome = "Success" => output # <<>>)
  /\ decoder' = NoCodec
  /\ UNCHANGED <<scenario, encoder, outcome, deliveries, output>>

Next == CreateEncoder \/ CreateDecoder \/ DeliverPlanned \/ Recover \/ BecomeEncoder \/ Free

Spec == Init /\ [][Next]_vars

-----------------------------------------------------------------------------
(* Properties *)

Errors == {"InvalidInput", "ExtraInsufficient", "BadPeelSeed", "refused"}

Sent == Message(scenario.messageBytes, scenario.blockBytes)

(* wirehair_recover writes exactly the message, and wirehair_recover_block  *)
(* gives each of its blocks, whichever blocks arrived in whichever order:   *)
(* peeling, both eliminations, the windows and the resumption all agree     *)
(* with the encoder.                                                        *)
MessageRecovered ==
  output # <<>> =>
    /\ output = Sent
    /\ (decoder # NoCodec => \A k \in DOMAIN Sent : ReconstructBlock(decoder, k - 1) = Sent[k])

(* The recovery blocks satisfy the row of every original block, so that     *)
(* block id i < N could be computed instead of copied (CAT_COPY_FIRST_N).   *)
EncoderIsSystematic ==
  encoder # NoCodec =>
    \A k \in DOMAIN Sent :
       Encode(encoder, k - 1) = SubSeq(Mixture(encoder, k - 1), 1, Len(Sent[k]))

(* Reference: the rank over GF(256) of a set of vectors. *)
RECURSIVE Rank(_, _, _)
Rank(rows, col, width) ==
  LET lead == {v \in rows : v[col] # 0}
      p == CHOOSE v \in lead : TRUE
      clear(v) == gf256_muladd_mem(v, gf256_div(v[col], p[col]), p)
  IN CASE col > width -> 0
       [] col <= width /\ lead = {} -> Rank(rows, col + 1, width)
       [] OTHER -> 1 + Rank({clear(v) : v \in rows \ {p}}, col + 1, width)

(* With N blocks or more the decoder succeeds exactly when the blocks it    *)
(* holds determine the message: it never asks for more than it needs, and   *)
(* never answers from too little.  Checked where the message is a basis of  *)
(* unit vectors, whose encoded blocks are their own coefficients.           *)
IsBasis == FinalBytes(scenario.messageBytes, scenario.blockBytes) >= Len(Sent)
DecodesWhenDetermined ==
  decoder # NoCodec /\ outcome \in {"NeedMore", "Success"} /\ IsBasis
    /\ Len(decoder.ids) >= decoder.N =>
    LET n == decoder.N
        stored == {SubSeq(Encode(encoder, decoder.ids[r]), 1, n) : r \in DOMAIN decoder.ids}
    IN outcome = "Success" <=> Rank(stored, 1, n) = n

(* A decoder turned encoder makes the same blocks as the first encoder, the *)
(* length of the last one included.                                         *)
ReencodedBlocksAgree ==
  decoder # NoCodec /\ outcome = "encoder" =>
    \A id \in UNION {scenario.plan[k] : k \in DOMAIN scenario.plan} :
       Encode(decoder, id) = Encode(encoder, id)

(* Type invariant, and the assertions of Triangle and InsertHeavyRows about *)
(* the pivot list that a decoder keeps between two blocks: it has one id and *)
(* one full block for every row and no more rows than its workspace, no row *)
(* is a pivot twice, and once the heavy rows are in, the open pivots are     *)
(* first binary rows, then rows with bytes.                                  *)
HeavyInserted == decoder.next >= decoder.fhc
RowsFit ==
  /\ Len(decoder.ids) = Len(decoder.input)
  /\ Len(decoder.ids) <= decoder.N + decoder.extra
  /\ \A r \in DOMAIN decoder.input : Len(decoder.input[r]) = decoder.bytes
PivotsInOrder ==
  /\ Cardinality({Pivot(decoder, i) : i \in 0..(decoder.count - 1)}) = decoder.count
  /\ HeavyInserted => \A i \in decoder.next..(decoder.count - 1) :
                        IF i < decoder.fhp THEN Pivot(decoder, i) < FirstHeavyRow(decoder)
                        ELSE Pivot(decoder, i) - FirstHeavyRow(decoder) \in DOMAIN decoder.heavy
DecoderWellFormed ==
  /\ outcome \in Errors \cup {"none", "NeedMore", "Success", "encoder"}
  /\ deliveries \in 0..Len(scenario.plan)
  /\ decoder # NoCodec => RowsFit
  /\ decoder # NoCodec /\ outcome = "NeedMore" /\ decoder.count > 0 => PivotsInOrder

(* ResumeSolveMatrix only adds: pivots that were found stay where they are, *)
(* and the elimination never goes back.                                     *)
PivotsStay ==
  [][decoder # NoCodec /\ decoder' # NoCodec /\ outcome = "NeedMore" /\ decoder.count > 0 =>
       /\ decoder'.next >= decoder.next
       /\ \A i \in 0..(decoder.next - 1) : Pivot(decoder', i) = Pivot(decoder, i)]_vars
=============================================================================
