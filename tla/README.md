# Sankaku/RT: a TLA+ model of the media session and its erasure code

Sankaku/RT sends video frames over QUIC. A frame is wrapped, cut into Wirehair
droplets (an erasure code), sent as unreliable datagrams, put together again by the
receiver and handed to the application through a bounded channel. Feedback
travels back on reliable streams and tunes the redundancy and the bitrate. This
directory models that path, down to the solver inside the erasure code, checks
it with TLC and proves with TLAPS the safety of the session, of the control
tasks, of the peeling solver, of the library's start-up and of its helpers.

In sections on the session, line numbers refer to
`src/sankaku-core/src/session.rs`; in those on the code, to
`WirehairCodec.cpp`, unless another file is named. `PROJECT.json` maps every
definition to its lines and lists every hazard with the properties about it.

## 1. Inventory

| Part | State | Operations | Hard behaviour |
| --- | --- | --- | --- |
| `SankakuSender` (676-1306) | `next_stream_id`, registry of `next_frame_index` and redundancy per stream, target bitrate and its pending update | `open_stream`, `send_frame`, `send_audio_frame`, `send_stream_fin`, `apply_network_telemetry`, `take_bitrate_update_bps` | `send_frame` awaits between droplets: it may fail half-way or its future may be dropped; the path MTU moves under it; feedback is drained in the middle of it |
| `SankakuReceiver` (1309-1990) | per session and stream: `next_frame_index`, decoder, loss window, type | `run_media_loop` with one handler per packet type | packets lost, reordered, late; a handler waits on a full channel and holds up everything; an `Err` ends the loop for all streams |
| Stream registry (66-148) | type and context per id | `insert`, `ensure_with`, `remove` | the two ends keep separate registries that must agree |
| FEC (`fec.rs`) | blocks stored by a decoder | `encode`, `decode`, `recover` | short last block, minimum of two blocks, repair blocks that may not solve the matrix |
| Wirehair codec (`WirehairCodec.cpp`, `wirehair.cpp`) | peeling graph, three matrices, pivot list, recovery blocks | create, feed a block, resume, encode, recover, become an encoder | mutual recursion over shared lists, an elimination interrupted and resumed row by row, values kept in blocks that double as scratch space |
| GF(256) (`gf256.cpp`) | the tables, built once | element and bulk arithmetic | a flag raised before the tables exist; loops that cut a buffer differently on each processor |
| Wirehair helpers (`WirehairTools.cpp`) | constant tables | primes, random numbers, shuffled deck, column iterators, dense counts, seeds, aligned memory | truncating arithmetic, 16-bit limits, table lookups at the edge |
| Library entry (`lib.rs`) | the `OnceLock` around `wirehair_init_` | `init` | threads that arrive together; a machine on which it fails |
| Rate control (544-620) | none (functions of redundancy and bitrate) | FEC feedback, telemetry, AIMD | limits, feedback that is late or about another stream |
| Transport (`transport.rs`) | one QUIC connection | datagrams, one bidirectional stream per control packet | loss, reordering, size limits that differ at the two ends and move |
| Control tasks (888-931, 1520-1563) | two queues at each end | forward control packets | a `SankakuStream` has two readers on one connection |
| Pacer (622-672) | tokens, last refill | `pace` | wall-clock time |
| Pipeline, OpenZL (`pipeline.rs`, `openzl.rs`) | compression graph | `protect_frame`, `restore_frame` | ignores stream and index |
| Handshake (`handshake.rs`) | keys, tickets | deprecated, not called by sessions | key agreement, ticket expiry |
| HEVC helpers (`hevc.rs`) | none | parsers | boundaries of bit strings |
| C API (`ffi.rs`), WebRTC (`webrtc.rs`), manifest, CLI | handles; peer connection | glue | handle life cycle, timeouts |

How they interact: the application calls the sender (`&mut self`, so one call at
a time) and reads the receiver's channels. Sender and receiver share only the
connection. A `send_frame` in progress, the receive loop, the application and the
network interleave freely. Each frame has its own Wirehair encoder and decoder,
used by one thread at a time; all of them read the same tables without a lock.

What makes it correct: an emitted frame is one that was submitted, under the
index it was submitted with; indices of a stream come out in order; nothing the
peer does ends the receive loop; accepted frames arrive as long as the network
allows it; feedback keeps its parameters in range. Below that, the code gives
back exactly the message as soon as the blocks determine it, whatever their
order, and no thread reads a table that is not finished.

## 2. Modules

    Fec  <-  RateControl  <-  Sender  \
      ^                         |      >  Session  <-  MCSession   (TLC)
      |       Transport  <------+     /      |    <-  SessionProofs  <-  StreamProofs (TLAPS)
      +---------------------  Receiver       |
                                             +-- refines --> FrameStream

    ControlPlane  (TLC; on its own)  <-  ControlProofs (TLAPS)
         +-- refines --> ControlLink

    Kernels, WirehairTools, Startup  <-  Helpers  \
                       Loops  <-  Gf256  ----------  Tables <- MCTables  (TLC)

    Kernels <- KernelProofs,  WirehairTools <- ToolsProofs,  Startup <- StartupProofs
    Helpers, and these three  <-  HelperProofs                     (TLAPS)

    PeelMatrix  <-  Peeling  <-  MCPeeling                         (TLC)
        ^              ^
        |              +-- PeelingProofs                           (TLAPS)
        |
        +-- SolverMatrix <- SolverValues <- Codec <- MCCodec       (TLC)
              (with WirehairTools and Gf256)

### The session

* **Fec**: `send_chunk`'s geometry (packet size, needed and total packets) and what
  the Wirehair decoder may answer. Bytes are abstracted to rows `[call, seq]`:
  which `send_frame` call made the droplet and its block id. N distinct
  original blocks always decode; N or more others decode or not, since that
  depends on the code's random matrix (`IdealCode = TRUE` says they always do).
  Redundancy is in hundredths (`Unit = 100` is 1.0).
* **RateControl**: `adjust_redundancy`, `adjust_redundancy_with_telemetry`,
  `apply_aimd_bitrate`, with the code's thresholds.
* **Transport**: the datagrams in flight (a set: QUIC never duplicates one), the two
  directions of control packets (FIFO: `accept_bi` yields streams in the order
  they were opened and `recv_control` reads one to its end before the next), and
  each end's datagram limit, which path MTU discovery changes.
* **Sender**: one action per public method. `send_frame` is StartFrame (or
  RefuseFrame), then per droplet DrainControl and SendDroplet, then FinishFrame;
  FailFrame is the `?` after `send_datagram`, CancelFrame a dropped future.
  DrainControl takes one packet: `toSend` holds packets still in flight as well
  as delivered ones, so which of them a drain finds is open.
* **Receiver**: `handle_data_packet` as one action per way out of it (DiscardData,
  RejectStreamType, SkipOutOfTurn, KeepRow, DropDecoder, EmitFrame,
  DieDecoding, DiscardMixed); the part after `frame_tx.send().await` is
  FrameQueued or FrameUnwanted. The audio and stream-finish handlers and the
  application's reads are the other actions.
* **FrameStream**: the abstract promise. Frames are submitted; each stream emits
  consecutive indices, each with the content of a frame submitted under it;
  a stream can be restarted.
* **Session**: composition, fairness, properties and the refinement mapping.
* **ControlPlane**: the tasks under the two control queues that Transport takes
  for granted. Each sender and receiver (an owner) has a writer task, which opens
  a QUIC stream per packet and writes it, and a reader task, which accepts a stream and
  then reads it. With one owner per end ("one_way") this gives Transport's FIFO
  queues (4.3); on a SankakuStream ("stream") two readers compete for each stream.
  EndLoop is `run_media_loop` returning: its thread's runtime is dropped, tasks and
  half-written streams with it. A sender that is dropped leaves its writer to
  finish and its reader to take one more packet. `kind = "F"` stands for the three
  kinds of feedback.
* **ControlLink**: the abstract promise of the control tasks. A packet that was
  enqueued is delivered to one reader of the other end, once and in its writer's
  order; a reader that is alone at its end gets the packets without a gap.

### The library's start-up and its tables

* **Startup**: `sankaku_core::init` (a OnceLock), `wirehair_init_`, `gf256_init_`
  with its early flag and its seven stages, the self-test, and the check of
  `m_init` at every creation, for any number of threads. `onceCell` is the
  OnceLock's state, `built` counts stages, `caller` is where each thread is.
  A machine is a processor variant, its byte order and the self-test's verdict.
* **Gf256**: the tables, as `gf256_init_` computes them, and the arithmetic on
  elements and blocks.
* **Kernels**: for each bulk operation the list of pieces its loops and its tail cut a
  buffer into on AVX2, SSSE3, SSE2, NEON and plain C.
* **WirehairTools**: `FloorSquareRoot16`, `NextPrime16`, `PCGRandom` (64-bit words as
  eight bytes), `ShuffleDeck16` (the deck is a sequence: position k is `deck[k+1]`), `AddInvertibleGF2Matrix`, the row weight and row
  parameters, the column iterators, dense counts and the lookup of seeds,
  aligned memory. Tables are copied where a checked instance reads them; for the
  long seed tables, which slot is read is modelled for every block count, the
  values for up to 64 blocks.
* **Helpers**: what the callers that Startup let in ask of Kernels and WirehairTools,
  with one property for each helper. All of it is proved about.
* **Tables**: the same for Gf256, and `gf256_self_test`.
* **Loops**: counting loops as a fold. It is RECURSIVE, so nothing is proved about
  the modules that use it (Gf256, Tables and those of the codec).

### The codec

* **PeelMatrix**: stage 1 as operators on a record that holds the members of
  `Codec` for peeling. The mutual recursion of `PeelAvalancheOnSolve` and
  `SolveWithPeel` is a stack of frames in `walk`; AvalancheStep is one turn of
  the innermost loop or a return.
* **Peeling**: the same operators as a state machine, for rows of any shape: one
  action per row fed, per turn of the avalanche and per turn of the greedy loop.
* **SolverMatrix**: stages 2 and 3. The dense matrix over the deferred and mixing
  columns, Shuffle-2 dense rows, heavy rows over GF(256), `Triangle` in its light and
  heavy part, and `ResumeSolveMatrix`. A binary row is the set of its columns, a
  heavy row its bytes; reading a heavy row nobody wrote is an error of the model.
* **SolverValues**: stage 4, the same eliminations on block values:
  `InitializeColumnValues`, `MultiplyDenseValues`, `AddSubdiagonalValues` and
  `BackSubstituteAboveDiagonal` with and without windows, `Substitute`.
* **Codec**: the C API. One encoder and one decoder; CreateEncoder, CreateDecoder,
  Deliver (encode a block and `wirehair_decode` it), Recover, BecomeEncoder and
  Free are its actions: a call is one step, as the Rust wrapper owns the codec
  exclusively. The record `c` has the fields listed at the head of SolverMatrix.

Fec's decoder is the abstract view of Codec's: the run `codec` says when the
answer Fec leaves open (`IdealCode = FALSE`) is a success, namely exactly when
the blocks determine the message.

Variables named `calls`, `accepted`, `emitted` and `lost` are histories for the
properties; no action's guard reads them except the bound on loss. `nCalls`,
`nFins` and `nFlushes` count towards the bounds MaxCalls, MaxFins and MaxFlushes,
`deliveries` towards the length of a scenario's plan. Each property is guarded
by a deliberate fault: a second version of a definition, placed before it and
used nowhere, which must break the property when it takes the place of the
definition (`mutants` in `PROJECT.json`).

## 3. Runs

| Run | Module | Checks | Shows |
| --- | --- | --- | --- |
| unordered | MCSession | RegistriesAgree, DecoderIsCurrent, FramesAreSubmitted, ReceiverSurvives, IndexNamesOneFrame, FeedbackNotFromFuture, RefinesFrameStream | two opened streams, video and audio, with reordering and a stream finish: a sender used as documented gets only its own frames out, in order, both registries agree, and the loop survives |
| chaos | MCSession | SessionInv | failed and dropped sends, both MTUs moving, implicit streams overwritten by `open_stream`, audio and video on one id, refused sizes |
| fifo | MCSession | AcceptedFramesArrive, LoopIsReleased | liveness over a path that keeps order and loses up to the repair share of each frame, channels of capacity one |
| rates | MCSession | RedundancyInRange, PendingIsTarget | any order of feedback, telemetry and loss reports; readers that go away |
| control | ControlPlane | ControlInv, DeliveredInOrder, TasksLast, RefinesControlLink | the control tasks of both deployments, owners that go away, a connection that closes: every packet reaches at most one inbox, in order and without a gap before it where one reader is alone, and no task ends early |
| tables | MCTables | StartupInv, TablesReadyWhenUsed, CallersAgree, InitReturns; KernelsCoverBuffer, TablesAreTheField, NextPrimeIsLeast, SeedsInTables, RowColumnsDistinct, DeckIsPermutation, MemoryIsGivenBack | three threads reach the library at once on seven machines; then each helper agrees with its reference |
| peel | MCPeeling | PeelInv, RowLinkedOnce, UnmarkedFits, PeelOrderTriangular, SquareRemainder, RefusedRowLeavesNoTrace, GreedyCompletes | rows of any shape in any order, with reference lists that overflow: the recursion leaves an order in which forward substitution reads only solved blocks, and a square remainder |
| codec | MCCodec | MessageRecovered, EncoderIsSystematic, DecodesWhenDetermined, ReencodedBlocksAgree, DecoderWellFormed, PivotsStay | originals, repair blocks and duplicates in any order: the decoder answers as soon as the blocks determine the message and never before, and gives back the message |

Four runs end in a counterexample: they state what `SPEC.md` says and show
what the code does instead (`findings` in `PROJECT.json` quotes both).

| Run | Property | What happens |
| --- | --- | --- |
| reorder_stall | AcceptedFramesArrive | nothing is lost, but droplets that arrive early are thrown away (1873) and the stream waits for them for ever; a lost frame has the same effect |
| receiver_mtu | AcceptedFramesArrive | the receiver measures droplets by its own limit (1836) |
| reused_index | NothingGarbled | the path MTU shrinks during `send_frame`, which fails and leaves its index to the next frame: the two meet in one decoder |
| shared_readers | ControlArrives | on a SankakuStream the sender's reader accepts a stream-finish packet and drops it; feedback is lost to the receiver's reader in the same way |

Two further behaviours are in the model and contradict no written claim. A
stream-finish packet travels on its own QUIC stream and may overtake droplets;
those that come after it start the stream again at index 0 (FrameStream's restart
allows it, and `unordered` explores it). And a loss window that ends inside a frame
reports the droplets not yet arrived as lost, which lowers the bitrate
(`rates` explores such reports).

**Bounds of the session runs.** Two frames are the smallest number at which indices,
reuse and overtaking matter; frames of three units in packets of two give N = 2
blocks and one or two repair droplets, so all kinds of droplets occur (first,
short last, repair). fifo has redundancy 1.5 and `LossModel = "fec"`, with an
ideal code: otherwise a lost droplet may rightly leave a frame undecodable. Limits
{2,3} with a frame of four give frames that are cut differently before and
after an MTU change. rates lowers MaxRedundancy to 1.30, so that the upper limit is
reached within the bounds. chaos has no repair droplets (redundancy 1.0), which
unordered has. Two control packets are the smallest number that can change order;
shared_readers needs one. Deadlock is not checked: when the bounded calls are used
up the system rightly stops.

**Bounds of tables.** Three callers: one that runs the closure and two that arrive
before and after. Buffers of 0 to 260 bytes take every loop of every kernel, the
longest of which is 128 bytes wide, twice. All 65,536 products. All block counts
from 2 to 64000 for primes and seeds: these two, and the products, are checked for every
input there is. Rows over 2 to 24 columns with every first
column and every step: both ways of skipping the gap below the prime occur. Decks
of 1 to 40 cards and of 254 to 260 take every way out of the switch on both
sides of 256. Addresses 64 to 95 have every remainder modulo 32.

**Bounds of peel.** Four columns, rows of one to four of them, reference lists of
three instead of 32, so that they fill up. An avalanche gets three calls deep
there and meets rows it has already counted down.

**Bounds of codec.** Messages of 2, 3 and 4 blocks with a choice of ids per
delivery, among them all originals, duplicates and ids beyond N; one extra row
(MaxExtraRows = 1 instead of 32), so that ResumeSolveMatrix appends a row, then re-uses
one, then has none left. With so few blocks all columns are heavy or peeled, so
two deliveries of 38 blocks, found by search, stop once in a light column and once in a
heavy one; there the thresholds for windows are lowered so that 38 blocks take
windows of 5 and 4 columns in both directions. WindowAssumption keeps what the
source says of the thresholds. Block i of a message has a single 1 at byte i
modulo the block size: every operation of the codec on block values is linear
and acts byte by byte in the same way, so such messages stand for all.
DecodesWhenDetermined compares with the rank of the received rows, computed
separately.

**Fairness.** In Session, weak fairness of SenderStep (the runtime polls a
`send_frame` that was started), ReceiverStep (the loop is a task of its own) and the
application's two reads. Nothing obliges the application to call again or the
network to drop or change anything. The `fifo` results rest on the
application reading both channels; without it a full channel stops the loop
by design. In ControlPlane each task is weakly fair, and so are the two arms of
the receiver's `select!`, which starts from a random one; the application's
calls, faults and the end of the connection are not. In Startup a thread that is
inside `init` and not blocked goes on (weak fairness per caller); nobody has to
call. In Peeling the loops are sequential code that runs on: weak fairness of
Avalanche or Greedy, none of the arrival of rows. Codec states safety only.

## 4. Proofs

Every safety invariant and action property that the runs check is proved for all
values of the constants, except three closed facts about tables, which a run checks for
every input, and the properties of Codec (4.7). Four need a hypothesis
on how the session is used or configured (4.2), one such a closed fact (4.6).

### 4.1 The session: SessionProofs

For any number of streams, calls, droplets, sizes, limits and losses:

* `SessionInvariant`: `Spec => []SessionInv`
* `TypeCorrect`, `DecoderCurrent`, `EmittedSubmitted`: `TypeOK`, `DecoderIsCurrent`,
  `FramesAreSubmitted`
* `SessionRefinesFrameStream`: `Spec => Frames!Spec`

The argument: FramesAreSubmitted alone is not inductive, since an emitted frame's
content comes out of a decoder, the decoder's rows out of datagrams, and those out of
a `send_frame` in progress. SessionInv follows that chain (DropletsAreSubmitted),
adds that a decoder is always the one of the index its stream waits for
(DecoderIsCurrent, without which rows of another frame could be emitted under
this index), and three technical facts: a stored decoder has a positive packet
size, the loss windows are finite, and a wait on the video channel names a
stream. `PlainStep` covers every step that leaves decoders and emissions
alone; KeepRow and EmitFrame are proved by hand. `EmittedContent` is shared by
the invariant and the refinement.

### 4.2 Streams used as intended: StreamProofs

Some properties hold only for a sender that uses its streams in a certain way.
Two hypotheses about the constants say how:

* `StreamsOpened`: every stream is opened before it is used.
* `SendsFinish`: no `send_frame` that was started stops half-way, because its future is
  never dropped and the sender's path MTU does not change.

| Theorem | Under | Property |
| --- | --- | --- |
| RegistriesAlwaysAgree | StreamsOpened | RegistriesAgree (inductive) |
| FeedbackIsTimely | StreamsOpened | FeedbackNotFromFuture |
| SendsAlwaysInTurn | both | SendsInTurn (inductive) |
| IndicesNameFrames, LoopSurvives, NothingIsGarbled | both | IndexNamesOneFrame, ReceiverSurvives, NothingGarbled |
| RedundancyStaysInRange | PolicyInRange | RedundancyInRange |
| PendingStaysTarget | | PendingIsTarget |

The hypotheses are needed. The run reused_index keeps StreamsOpened, gives up SendsFinish
and shows NothingGarbled violated. Without StreamsOpened a stream that was used
implicitly can be replaced by `open_stream`, which starts its indices again (chaos
explores it): feedback about the old stream is then ahead of the new one.

RegistriesAgree follows each stream's type and index over the connection: from
the sender's registry to its calls, the datagrams, the receiver's registry, its wait on
the video channel, and the feedback on its way back. FeedbackNotFromFuture is its
last link and not inductive without the others. SendsInTurn adds that only the
call in progress can have the index its stream is at, so a new call takes an
index no other has, and that a droplet's geometry is the one both ends compute
from the same limit, which is what a decoder's creation needs to succeed. The `?`
that would end the receive loop is then never taken.

PolicyInRange says that an adaptive policy's range lies within 1.0 and
MAX_REDUNDANCY, as the default policy's does. It is needed: `FecPolicy` is
public, and its limits are used as they are (562). RedundancyInRange and PendingIsTarget are
inductive by themselves once `Clamp` is known to answer a value of its range.

### 4.3 The control tasks: ControlProofs

For any number of packets, both deployments and any schedule of tasks, faults and
owners that go away:

* `ControlInvariant`: `Spec => []ControlInv`
* `ControlDeliversInOrder`, `ControlTasksLast`, `ControlTypeCorrect`:
  `DeliveredInOrder`, `TasksLast`, `TypeOK`
* `ControlRefinesLink`: `Spec => Link!Spec`

DeliveredInOrder only speaks of what has been delivered. PipelineInOrder carries the
order through every place a packet can be on the way there: the owner's queue, the
stream being written, the streams not yet accepted, the one being read. It also says
that two readers never have the same packet, which is what makes a delivery
happen at most once when two of them race. TasksLast says that no task
ends before a fault; a reader ends when the stream it reads is cut short, so the invariant
needs StreamsAreWritten: before a fault every stream that exists is either written
or has a writer at work on it. TasksMatch ties a task's packet to its state.

For the refinement a delivery must be one that ControlLink allows: of a packet that
was enqueued (PacketsAreSent follows it there) and, in the deployment "one_way", with
all its predecessors delivered. That a queue keeps its order does not give the
latter: packets disappear when a writer fails with a queue behind it, when a receiver's
runtime goes, when a reader finds a stream cut short. NoneSkipped says why no reader ever
sees the hole: the writer that loses a packet has ended and opens no stream after it, and
the reader that loses one has ended too. A reader is one packet ahead of its inbox, so
NoGapBefore speaks of the stream being read, those on the wire and the queue. This is
what entitles Transport to take a control direction for a queue of which at most the
tail is lost. On a SankakuStream the second half fails, since the two readers divide
the packets, and ControlLink does not claim it.

### 4.4 The peeling: PeelingProofs

For any number of blocks from 2 to 64000, rows of any shape and any limit on
the list of references:

* `PeelInvariant`: `Spec => []PeelInv`
* `RowsLinkedOnce`, `UnmarkedAlwaysFits`, `OrderIsTriangular`, `RemainderIsSquare`:
  `RowLinkedOnce`, `UnmarkedFits`, `PeelOrderTriangular`, `SquareRemainder`
* `RefusalsLeaveNoTrace`: the action property `RefusedRowLeavesNoTrace`
* `PeelTypeCorrect`: `TypeOK`

None of these is inductive, because in the middle of the recursion the record is not
what its fields' names say: a column is marked at once, but its rows are counted
down one by one, with other columns solved in between. PeelInv says what a count means then:

* CountsMatch. For a row that is not linked yet, `UnmarkedCount` is the number of its columns
  that are unmarked *or* whose walk has not reached the row (Uncounted). With two
  left, they are the two the row remembers. This is why the array of two in
  `PeelAvalancheOnSolve` is large enough: of the three a count of 3 stands for, one is
  the column just solved.
* DoneCount, for a row that is linked. The count of a row that is linked when it
  reaches two is set to 0, with up to two walks still to come that count it down:
  it wraps around to 65535 and 65534. Neither is 1 or 2, so the row is not
  taken a second time. A row linked at one goes to 0. The comment at 265 ("won't be
  processed further during this recursion") rests on exactly this.
* RefsMatch: a column's list names the stored rows that contain it, each once.
* WalkMatches: the calls under way are for different columns, each already marked,
  and what a call has left is part of the column's list.
* ListsMatch: the two lists are disjoint, and as long as the columns they solve and
  wait for; the square remainder is this at the end of the greedy loop.
* SolverMatches: `PeelColumn::PeelRow` is set when the walk is over, so a solved
  column either has a call under way or names its row.
* PeelOrderTriangular itself.

The proof is in three layers. Lemmas on sequences and cardinalities come first. Then
each thing the operators do to the record is described by a predicate on the two
records (CountDown, RowUpdate, Solve, Defer, DeferColumn, Return, Enter), with one
lemma that the operator does that (SolveFields, DeferFields, ...) and one that
doing it keeps the invariant. PeelGood(p, open) is the invariant with the counts of
the rows in `open` left out: between the count-down of a row and its being
solved, deferred or updated, that row is open. Last, AvalancheStep, StoreRow,
OpportunisticPeeling and GreedyDefer are put together from these.

### 4.5 The start-up: StartupProofs

For any number of threads and any set of machines:

* `StartupInvariant`: `Spec => []StartupInv`
* `StartupTypeCorrect`, `TablesReady`, `CallersAlwaysAgree`: `TypeOK`,
  `TablesReadyWhenUsed`, `CallersAgree`

TablesReadyWhenUsed alone says nothing of a thread that is still building.
StartupInv adds that at most one thread is inside the closure (OneRunner), that
the cell and the flags tell how far it is, in particular that a thread about to
enter `gf256_init_` finds its flag unset (CellMatches), and that `m_init` is set
only over complete, tested tables and decides every creation
(InitMeansTested). `ReturnKeepsInv` is shared by the three ways `gf256_init_` ends.

### 4.6 The helpers: KernelProofs, ToolsProofs, HelperProofs

For any number of threads, machines and requests, so for buffers of any length, decks of
any size, any address, and every block count that the codec accepts:

| Theorem | Under | Property |
| --- | --- | --- |
| KernelsAlwaysCover | | KernelsCoverBuffer |
| DeckAlwaysPermutation | | DeckIsPermutation |
| MemoryAlwaysGivenBack | | MemoryIsGivenBack |
| RowColumnsAlwaysDistinct | PrimesFound | RowColumnsDistinct |
| RowsNameDifferentColumns | PrimesFound | the shape of a row, whatever its seeds |

A request is answered on one of the machines (StartupInv), so each of these comes down to
a fact about operators.

*Kernels.* A cut state is adjacent when its pieces cover exactly the bytes up to the
next one and the bytes left are the rest. A turn, a loop and a conditional cut keep that,
and after the loops fewer than 16 or 8 bytes are left, which is what the tail of each
operation can take: `bytes & 8`, `bytes & 4` and the switch then say all that is left.

*Decks.* Dealing a card to a deck that holds 0..k-1 gives one that holds 0..k: the card
at the random position moves to the end and the new one takes its place. A turn deals as
many cards as it has picks, and the last turn as many as are left (LastPicksAreLeft), so
the deck comes out at its full size. That the picks are numbers needs the types
of the generator: a state is eight bytes (MulAdd64 carries), an output four.

*Rows.* `IterateNextColumn` walks x, x + a, x + 2a, ... modulo a prime p at or above the
column count b and skips what falls in the gap [b, p). LandingFacts shows that its
shortcut lands where the walk re-enters [0, b). A set of columns closed under the step is
all of them, since a prime has no factor in common with a (ClosedIsAll); an iterator
that came back to a column before it had been through all b would be such a set
(ColumnsDistinct). `PrimesFound` says that NextPrime16 answers a prime for each of the
63,999 block counts. It has no parameters, and NextPrimeIsLeast checks it in `tables` for
each of them (requests "counts", 0 to 640). SmallPrimes is defined by trial
division with numbers up to 253, and PrimeHasNoFactor derives from it that p has no
divisor at all. RowsNameDifferentColumns goes on to the rows that a seed gives: at least one
peel column, none twice, and three different mixing columns. This is the assumption
RowShapesAssumption of Peeling, so the theorems of 4.4 hold of the rows that the codec
feeds.

Recursive functions (the walk, the deck, the sums of the multiplication) are
brought into reach by StepByStep, which proves once that the function a definition
`f[i \in 0..n]` asks for exists and satisfies it.

### 4.7 Assumptions, and what is only model-checked

Assumptions are the named ASSUMEs of the modules: positive packet sizes and
limits, 1.0 <= MAX_REDUNDANCY, a policy with min <= max (`f32::clamp` panics
otherwise), the shape of machines and requests, processors that the build knows, rows over
block counts that the codec accepts, decks of a card at least, 2 to 64000 blocks, rows of
distinct columns (4.6 shows it of real rows), and a reference list with room for one row
or more.

SessionInv, RegistriesAgree, StartupInv, ControlInv and PeelInv are the inductive
invariants, and TLC checks them as well (chaos, unordered, tables, control, peel).
SendsInTurn is proved only; it contains properties that unordered checks.

Only model-checked:

* the liveness properties (AcceptedFramesArrive, LoopIsReleased, ControlArrives,
  InitReturns, GreedyCompletes): the prover does not do fairness and ENABLED;
* TablesAreTheField, NextPrimeIsLeast and SeedsInTables: facts about given tables with
  65,536 or 63,999 cases, all of which `tables` computes. No argument is shorter than
  the computation;
* the properties of Codec, whose recursive eliminations would need induction over
  data and reach the RECURSIVE Loops.

## 5. What is left out

* Bytes of frames, encryption and wire encoding; packets too short to parse;
  unsupported codecs (they are returned from without effect).
* More than one session id per connection: a connection has one sender.
* The pacer's durations, jitter arithmetic (any value of Jitters), the statistics
  counters.
* The end of a connection in Session (ControlPlane has it); receivers that run on the
  application's own runtime (`run_media_loop` awaited directly), whose control tasks
  outlive the loop; QUIC's limit on concurrent streams.
* u64 frame indices do not wrap within any reachable run (they saturate at 2^64-1).
* In the codec: a codec object handed in to be re-used (no caller does it), failed
  allocations, seeds set by hand, and the dump and print functions. Block ids
  from 65536 on and block counts beyond 16 bits: the truncations are in Encode
  and BlockCount, but a session's frames are far smaller and no scenario
  gets there.
* The values of the long seed tables beyond 64 blocks, which only matter for how
  likely a matrix is to be solvable.
* `wirehair/tables/*` (about 4,000 lines of C++) are offline programs that searched
  for the constants in those tables, and `test/*` are tests and
  benchmarks: they keep no state that the library reads.
* The pacer, OpenZL (a stub that copies), the handshake (no longer called),
  the HEVC parsers (not called by the sessions), the C API, the WebRTC glue,
  the manifest and the command line.

## 6. Plan

1. Session, ControlPlane, Startup, Peeling, Helpers (done: checked and proved). Tables and
   Codec (done: checked).
2. ControlArrives for one owner per end; the end of the receive loop after a close.
3. Transport's control directions replaced by ControlLink in Session, so that
   the session is composed with what the tasks were proved to do.
4. A refinement of Fec's decoder by Codec's.
5. Pacer in discrete time: tokens never negative, the rate over any interval bounded by
   burst plus rate.
6. Pipeline and OpenZL buffer growth as pure operators; Hevc parsers against
   reference definitions (TLC only, recursive).
7. Handshake: keys and tickets symbolically; FfiHandle: the C handle's life cycle.
