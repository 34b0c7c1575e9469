# Verification of the sinter decode megakernel

TLA+ models, TLC runs and TLAPS proofs for the persistent decode kernel of this
repository: one cooperative launch per GPU interprets a flat instruction array,
pass after pass, on 72 blocks that synchronise through one counter, drives a
second GPU over NVLink and is itself driven by a host thread over mapped memory.

Run from this directory:

    tlc -workers 2 -config MCGridBoundary.cfg MCGridBoundary
    tlapm GridBoundaryProofs.tla

`PROJECT.json` lists the components, the runs, a mutant for every property, the
source lines of every definition, the findings, the hazards and the theorems.

## 1. The system

### Components

| component | code | state it keeps | operations | talks to |
|---|---|---|---|---|
| Y02 grid boundary | `core/sync.cuh` | one u32 counter in device memory, a u32 epoch register per block | `cross`: release-add, spin on the signed difference | every block of a grid |
| Interpreter spine | `core/interp.cu`, `interp.cuh`, `isa.cuh`, `k0/ops/registry.cuh` | per block: pass number, instruction index, epoch; device cells `doorbell_dev`, `err_dev`; host-mapped `done`, `err_code`, `err_aux`; pass-cycle ring | doorbell wait, instruction loop, dispatch, error raise, epilogue | host runtime (mapped cells), macro-ops |
| Host runtime library | `core/host.cpp`, `host.h` | `HostState`: pass number, launched flag, mailbox, device buffers | init, upload, launch, run_pass, read-back of cycles, shutdown, destroy | interpreter |
| Y06 exchange | `k0/ops/xchg.cuh` | per site and GPU: a payload of 5120 floats and a seqno, in the peer's VRAM | `op_xchg_push`, `op_xchg_reduce` | the peer GPU over NVLink |
| Dual-GPU driver | `k0/harness.cpp` 1350-2100 | two `GpuCtx`: weights (halves), buffers, mailboxes, patch offsets | weight split, upload, wiring, `dual_run_pass`, `dual_shutdown`, dual parity and bench | two interpreters, exchange |
| Single-GPU harness | `k0/harness.cpp` 1-1350 | weights, caches, packed program, dump tree | load, pack, `parity_run`, `bench_run` | host runtime |
| Schedule compiler | `k0/compile_schedule.py` | PROG, WINDOWS, COVERED/DROPPED | emitters, coalescing, block ranges, lifetime check, accounting | graph dump in, `program.json` out |
| Graph parser | `k0/parse.py` | node and leaf tables | classify, export | dump in, csv out |
| Macro-ops | `k0/ops/{glue,gemv,gdn,attn}.cuh` | activations, KV cache, conv and SSM state | 23 ops | buffers only |
| Readers | `k0/gguf.h`, JSON in `harness.cpp` | file views | parse | files |
| Tests, oracle, tools | `tests/`, `tools/` | - | litmus tests with negatives, unit tests, compare | all |

### Where it is hard

* **Blocks against blocks.** 72 blocks cross about 964 boundaries per token on a
  counter that is never reset: counter and epoch wrap in a long run, a fast block
  arrives again before a slow one has looked, and a store must be visible past
  the boundary though the L1 of an SM is coherent with nothing.
* **Grid against host.** Doorbell, done cell and error cells are single words
  without an acknowledgement. Block 0 forwards the doorbell; the others may see a
  later value than the one of their pass, or HALT. An error must take the whole
  grid out of the kernel: a block that waits at a boundary for one that has
  returned is there until the process dies, because the kernel cannot be killed.
* **GPU against GPU.** Peer stores are unordered until `membar.sys`; one thread
  publishes the seqno for the stores of all blocks; mailboxes are reused every
  pass without an acknowledgement; each GPU spins for the other.
* **Host against DMA.** The seqno and the token ride asynchronous copies into
  memory the kernel reads.
* **Pass against pass.** Nothing is reset between passes: one scratch buffer serves
  64 layers, cells are rewritten in part, and two kinds of recurrent state are
  committed in different windows of a pass.
* **Compiler against hardware.** The schedule decides which instructions run
  concurrently: an unnoticed hazard after coalescing is a silent wrong answer, a
  share of zero blocks a silently skipped instruction.

### What makes each component correct

* Boundary: nobody passes before everybody has arrived at that crossing,
  everybody passes eventually, on any number of crossings; no load of a mutable
  datum returns a value older than program order says.
* Interpreter and host: RUN_OK means that the pass with this token ran completely
  on every block; an error is reported with its own code and place, never
  together with a done pass, and takes every block out; `run_pass` and shutdown
  return; buffers are freed only under an exited kernel; the cycle ring holds the
  last passes.
* Exchange and driver: both GPUs end every site with the bitwise same sum of this
  pass's partials; a seqno never runs ahead of its payload; a payload is never
  overwritten unread; every dual pass and the dual shutdown return.
* Decode loop and macro-ops: every logits row is that of exactly the tokens fed
  so far, though caches, states, scratch and input cells all carry over from pass
  to pass; the chunks of the attention window partition it; a pass writes its own
  cache row; conv history and recurrent state advance together.
* Schedule compiler: dependent instructions keep a boundary between them, an
  exchange keeps its own, every block has exactly one instruction per window,
  and the compiler ends.

## 2. Modules

| module | models | |
|---|---|---|
| `Barrier` | what a boundary promises: `Enter`, and `Leave` when all have entered | abstract |
| `GridBoundary` | `GridBoundary::cross` over store buffers, L2 and L1 | implements `Barrier` |
| `GridBoundaryProofs` | theorems about it | TLAPS |
| `PassService` | what `host_run_pass` promises: requests are answered in order with the result for their own token | abstract |
| `PassProtocol` | `mk_interp` and `host.cpp` | uses `Barrier`, implements `PassService` |
| `PassProtocolProofs` | theorems about its safety, its error reports and the refinement | TLAPS |
| `AllReduce` | what an exchange site promises: both sides take the same sum | abstract |
| `Exchange` | `xchg.cuh`, the windows around it, `dual_run_pass`, `dual_shutdown` | implements `AllReduce` |
| `ExchangeProofs` | theorems about it | TLAPS |
| `Schedule` | coalescing, block ranges and lifetime check of `compile_schedule.py` | |
| `ScheduleProofs` | theorems about it | TLAPS |
| `Sums` | lemmas: sums over finite sets do not depend on the order of adding | TLAPS |
| `Decoder` | what the decode loop promises: greedy decoding with a causal model | abstract |
| `AttnChunks` | the split of the KV window among blocks in `op_fattn_decode` | pure operators |
| `Decode` | `parity_run`, `set_pass_inputs` and what the macro-ops of a pass do to the data that outlives it | uses `AttnChunks`, implements `Decoder` |
| `DecodeProofs` | theorems about both | TLAPS |
| `DecodeRefinement` | theorems: every step of `Decode` is one of `Decoder` or none | TLAPS |
| `WeightSplit` | `dn_stride`, `weight_axis`, `weight_slice`: what of a weight each GPU uploads | pure operators |
| `SplitProgram` | the emitters of `compile_schedule.py`, with and without `--split` | pure operators |
| `MacroOps` | the ops of `k0/ops` by the cells they read and write | pure operators |
| `Packer` | the buffers of a device, `set_pass_inputs`, and the pack functions | pure operators |
| `WholeModel` | upload, packing and passes of the single-GPU harness | the reference of `TensorParallel` |
| `TensorParallel` | inventory, `dual_setup`, `dual_run_pass` over two packed programs | equals `WholeModel` in what both compute |
| `TensorParallelProofs` | theorems about it and `WeightSplit` | TLAPS |
| `MC...` | instances for TLC | |

They compose along what one part relies on: `PassProtocol` takes its boundary
from `Barrier` by INSTANCE, which `GridBoundary` is proved to implement;
`Exchange` has the same rule in its `Enter`/`Leave`, and takes from
`GridBoundary` that a local store is in L2 after a crossing and a stale L1 line
is what a plain load may return. `GridBoundary` assumes that each window is an
antichain (`ProgramAssumption`); that the windows `Schedule` lets through are
antichains is its `DependentStayApart` and `ChecksTheEmitters`. `Decode` has the
boundary as a guard (`Ready`: no block is a window behind), which is `LockStep`,
and strong loads, which is `FreshLoads`; its `RunPass` to `EndPass` is a request
and an answer of `PassService`.
`WeightSplit`, `SplitProgram`, `MacroOps`, `Packer`, `WholeModel` and
`TensorParallel` extend each other in this order. `TensorParallel` runs the
emitted program an instruction at a time on each GPU: that blocks may share a
window without harm is `Schedule`'s and `GridBoundary`'s, that a fold finds the
payload behind the seqno is `Exchange`'s `SeqnoMeansPayload`, that patching is
safe its `PatchIsSafe`, and what an expired wait or a failing stream sync does to a
dual pass is modelled there. What a device error does to a grid is `PassProtocol`'s,
for one GPU.

### How state and actions correspond to the code

**GridBoundary.** `counter` is `pb.counter`, `epoch[b]` the register of the
`GridBoundary` object; both are kept modulo `W` (2^32 in the code) and compared
as in sync.cuh:97: `(counter - target) % W < W \div 2` is `(int)(c - target) >= 0`.
A block is one process, since `__syncthreads` holds its threads together.
`Arrive` is the increment of the epoch and the release-add, which waits for the
block's store buffer (`Released`); `Pass` is the end of the spin. `Store`,
`Drain`, `PlainLoad` are the ops of the window. `mem` is L2, `sbuf` the stores
that have not reached it, `l1` the lines of the block's SM. Values are the number
of the window that stored them. `crossings` and `expect` are history: the code
has no such variables, and no guard reads them except the bound and the window
the block is in.

**PassProtocol.** One variable per mapped or device cell; `bpc`, `bpass`, `ip`
are the block's place in `mk_interp`. `PollDoorbell`/`ForwardDoorbell` are block
0's two accesses, `SpinDoorbell` the others' acquire loop; `EnterBoundary` and
`LeaveBoundary` serve OP_BOUNDARY and the epilogue boundary alike;
`RaiseAux`, `RaiseCode`, `RaiseDev` are the three stores of `raise_error` in
their order; `Epilogue` the sample, the ring, the done cell and the return or the
next pass. On the host each access to a shared cell is its own action: `PollErr`
reads the code, `ReadAux` the aux of the message. The host may call `host_run_pass`
and `host_shutdown` in any order its callers use; after RUN_TIMEOUT no caller runs
another pass, and neither does the model. Op bodies are reduced to what reaches the
protocol: EMBED_LOOKUP reads the token, a flagged LOGITS_EMIT over several blocks
raises.

**Exchange.** `inFlight[g][b]` holds the block's peer stores, which `Land` in any
order; `Membar` waits for them, a boundary does not. `payload` and `seqno` are
the mailboxes of a GPU, in its own memory, written by its peer. `ReadArgs` is the
`memcpy` of the instruction payload with the patched `$seqno`; `Publish`, `Poll`
and `Fold` the three parts of `op_xchg_reduce`. A float is the sequence of the
partials that were added in it, so that fold order and staleness show. The three
windows of a site have each its own partition of the elements among blocks.
`QueuePatches`, `DmaLands`, `Ring`, `Return`, `Timeout`, `Halt`, `Close` are
the host. `StaleLines` says of which of `proj_out` and `d_program` a plain load may be
served an L1 line of an earlier site or pass. No block raises an error here: the
polls of `h_err` in `dual_run_pass` would take the host where `Timeout` takes it.

**Schedule.** `prog`, `given`, `windows` are PROG, WINDOWS as emitted, and
`merged`. `Coalesce` is a turn of the merging loop, `NoCoalesce` the
MK_NO_COALESCE path, `BeginSplit`, `Adjust`, `EndSplit` are `split_grid` and the
range assignment, `TooWide` the assertion of `split_grid`, which ends the compiler
when a merged window has more instructions than the grid has blocks: light
instructions are merged without a limit. `CheckLifetimes` is the check. An
instruction is its estimate, its reads and writes, and whether it is an exchange op.
Emission order within a window and the order of PROG are free; that every
instruction is in one window, once, is assumed of the emitters (each calls `W` right
after its `I`s).

**Decode.** `phase` and `pos` are the loop of `parity_run`; `Start` its context
check, `SetPassInputs` the choice of the token and `set_pass_inputs` with its
exception, `RunPass` and `EndPass` the two ends of `Launcher::run_pass`.
`rows`, `residuals`, `states` are the dump tree. `cell` holds what the host
writes between passes, `buf` the scratch of the compiler's BUFFERS that a later
window reads, as one slice per block, `lout` is `dbg_lout`, `hist`, `ssm` and
`kv` are the caches. Each block executes its share of a window as one action,
named after the op. A value is not a number but what it was computed from: the
value of a layer is the sequence of its inputs at all positions so far, and a
computation from inputs that do not belong together (slices of different vectors,
a state and a window of different lengths, a key rotated by another position, an
output folded into another residual) is `Bad`. So two values are equal only if
every step on the way was given the right data. Quantisation, gates, l2norm and
the middle of the FFN map a vector to a vector and are part of the window that
follows; K and V rows are one. The windows are those the emitters make: that
merging preserves their order is `Schedule`'s. The bench loop is the loop with a
constant token and nothing read. The sentinel of OP_FATTN_REDUCE is left out:
nothing in the repository seeds it, a zero-filled or stale record never has it,
and nothing reads `fattn_error`. An empty prompt, for which the loop would read
logits of no pass, is excluded (`DecodeAssumption`).

**WeightSplit.** A tensor is a name, a type and its two dimensions, in units: the
least run of elements that is never parted (a quantisation block in a column
split). A slice is the function from a GPU's local offsets to those of the file
that the `memcpy`s of `weight_slice` amount to. DeltaNet weights are cut in
periods of the number of k heads, because v head h uses k head h modulo that
number; everything else in contiguous halves.

**SplitProgram, MacroOps.** `Program(gpus)` is the sequence of instructions the
emitters produce; an instruction has its operands by name and offset, and its
numbers. An op is a function from memory to the set of its writes. A float is a
term: what was computed, of which weights and tokens. A dot product is the set of
its products, so two partial sums add to the whole one if their columns are
disjoint and complete. Left out of the terms: the order of sums (`Exchange` and
the oracle have it), which warp computes which row, the values of a quantisation
block's scale (an activation is quantised element by element, so the model says
nothing of a split in the middle of a block), debug copies and strides
that are constants. A cell of a DeltaNet state is a column of a head.

**Packer, WholeModel.** A resolver maps names to pointers. `Emitted` is the
expansion of a JSON instruction into one or two packed ones, `Packable` the
errors of `pack_program`, `Bound` the operands as pointers. `WholeModel` first
runs the unsplit program for all tokens and keeps in `expected` what the device
has after each pass. To keep terms small it gives each a name when a cell first
holds it; the split run looks its terms up in `names`, and one that has no name
is something the whole model never computes. The tensors of the model file are
external.

**TensorParallel.** `hpc`, `gpu` and `item` are the place of the host in
`enumerate_and_validate`, `gpu_upload_weights`, `gpu_alloc_mailboxes`,
`gpu_wire_mailboxes`, `gpu_alloc_buffers`, `pack_program` and `dual_run_pass`;
`resolver`, `mtab`, `prog`, `xchgIdx` the members of `GpuCtx`; `mem` the arena and
the buffers. Each CUDA call in a `CUDA_CHECK` may fail and end the process
(`CudaError`); an exception ends the run (`"threw"`), a store outside a buffer
is `"faulted"`, which `StaysInBuffers` says never happens. `at[g]` is the instruction of GPU `g`, whose pace is free;
`Publish` and `Fold` are the two halves of XCHG_REDUCE. The file is the model file
or a wrong one: the inventory compares counts and totals of types, so a
renamed or doubled tensor reaches the packer or the resolver. The duplicate is
found by `Resolver::add` only after its copy was made, as in the code.

## 3. Runs

| run | instance | shows |
|---|---|---|
| `grid_boundary` | 4 blocks, W = 8, 9 crossings | `FreshLoads`, `LockStep`, refinement of `Barrier`, every crossing completes |
| `pass_protocol` | 3 blocks, 3 programs, 2 tokens, u32 of modulus 8, ring of 2, 3 passes, timeouts and copy errors | RUN_OK means complete, nobody stranded, errors reported as raised, ring contents, no free under a live kernel, refinement of `PassService`, run_pass and shutdown return |
| `exchange` | 2 GPUs x 2 blocks, 2 sites, 2 passes, timeouts | seqno implies payload, no overrun, patching is safe, refinement of `AllReduce` |
| `exchange_liveness` | the same with one site, without timeouts | dual passes return, both kernels exit |
| `schedule` | all programs of up to 4 instructions out of 6, and readers of one buffer by the number of blocks and one more, cut in all ways, grid of 5 | clashing instructions stay apart, the check blames the emitters only, exchanges and heavy ops keep their windows, ranges partition the grid, the compiler ends |
| `decode` | 4 blocks, 4 layers (two of each kind), window unit 4, tile 2, context 8, prompts of 1 and 5, up to 4 steps | refinement of `Decoder` with its liveness, chunks partition the window, folded partials are fresh, own row only, conv and recurrent state agree |
| `context_not_padded` | the same with a context of 6; violation | see findings |
| `tensor_parallel` | 4 k and 8 v heads of 2, 4 q and 2 kv heads of 4, a DeltaNet and an attention layer, 3 tokens, the model file and 4 wrong ones | slices, buffers and packed programs of both GPUs compute what the whole model does; names lead to the right slice or the setup ends; patches hit the reduces only; no instruction stores outside its buffer |
| `xchg_push_unwired` | violation | see findings |
| `copy_error_status` | violation | see findings |
| `stale_seqno` | violation | see findings |
| `stale_partial` | violation | see findings |

### Bounds and why they are enough

* `grid_boundary`: `W = 2N` is the smallest modulus for which the signed compare
  can work at all, so the run is at the edge the code never gets near (72 blocks,
  2^32). Nine crossings of four blocks are 36 arrivals: counter and epoch target
  both wrap several times. The program has mutable cells written by one block and
  read by others, and a weight read by plain loads.
* `pass_protocol`: `PU = 8` makes pass numbers wrap-sensitive in the doorbell
  compare (HALT is 7 and less than every pass as a signed number). Three passes
  overrun the ring of two. Three blocks are a forwarding block and two others,
  which may be at different steps; the flagged op covers two of the three. The
  three programs are those the tests run: normal, refused kind, op error.
* `exchange`: with two blocks and the rotated partition an element is computed,
  pushed and folded by different blocks, so that the publisher speaks for another
  block's stores. Two sites are needed to see a mailbox mixed up, two passes to
  see reuse; the liveness run uses one site, where reuse is closest.
* `schedule`: a hazard with a window merged earlier needs three windows; four
  instructions allow two such. A grid of five makes shares round to zero, sum
  below and above the grid. The alphabet has RAW, WAR, WAW, in-place chains, two
  heavy ops and an exchange op that declares no write. Five and six light readers of one
  buffer merge into a window as wide as the grid and into one that is too wide.

* `decode`: in a window of one unit the four chunks of whole tiles cover two units,
  so two are empty; at position 4 the window grows and all are used, and records
  that were empty become live. Two layers of each kind show a buffer left by the
  other layer; five prompt tokens are more than the four conv taps. Prompt and
  steps together fit the context, fill it to the last row, or exceed it by one.
  A boundary gives a pass few interleavings, but all within each window are there.

* `tensor_parallel`: two periods of k heads among the v heads, so that the strided
  cut differs from a contiguous one; two q heads per kv head; head dimensions that
  differ, with the outputs of both mixers as wide as each other, as in the code; three
  tokens make the attention window grow once and leave history in the conv ring, whose
  window is three; the padded window is longer than the context. An alignment of
  four is more than the shortest slices. One layer of each kind is enough for a
  wrong slice, offset or buffer; that buffers carry nothing from layer to layer
  is `decode`'s.

`MaxCross` and `MaxPass` are the only bounds on counters; each is in the guard of
the action that would exceed it.

### Deadlock and fairness

Deadlock checking is off for `Decode`, where a run ends with its last step
or is refused, and `IsGreedyDecoding` says how far it must get, and for
`TensorParallel`, which ends when the process does. Elsewhere a state
in which the system has ended satisfies `Terminated`, which stutters; in
`GridBoundary` the block at the bound does.

* Weak fairness per block: the launch is cooperative, so all 72 blocks are
  resident together and the hardware schedules every resident warp.
* Weak fairness of `Drain` and `Land`: a store reaches memory in finite time.
* Weak fairness of `DmaLands`: a copy that was queued is made.
* Weak fairness of the host's steps inside a call (`HostWaits`,
  `HostFinishes`): the host thread runs. It need not make another call.
* `Compile` of `Schedule`: the script runs.
* `HostStep` and each block's `Execute` of `Decode`: the same two reasons; the
  fair steps of one block end its share of a window.

A watchdog expiry is never forced: `CanTimeout` lets it happen at any poll, so
that safety holds under it and `RunPassReturns` must come from the done and error
cells where it can. The exchange liveness run excludes it, because a deadline
would let every wait end.

## 4. Findings

* `xchg_push_unwired`: `tests/test_interp.cu:309-311` runs OP_XCHG_PUSH to get
  ERR_UNWIRED_KIND; the registry wires it, the pass returns RUN_OK. The header of
  `xchg.cuh` also still says that the ops are not wired.
* `copy_error_status`: `host_run_pass` returns RUN_TIMEOUT for a failed token copy,
  a status `host.h:34` reserves for a fired watchdog with a report.
* `stale_seqno` and `stale_partial`: `op_xchg_reduce` reads `$seqno`, and PUSH and
  the fold read `local_partial`, with plain loads, although both are mutable data
  read across a boundary, for which `core/sync.cuh:8-14` requires a strong load.
  The runs admit the stale line that comment warns of; `docs/SYNC-FINDINGS.md`
  reports that the silicon measured did not show one and that this licenses
  nothing. In `stale_partial` a block pushes the partial of the pass before, from
  the line its own push left; the fold reads the same way. All other properties of
  the exchange are checked without such lines.

* `context_not_padded`: `n_kv` is rounded up to 256, the mask too, the caches are
  not. `k0/harness.cpp:497-498` takes padded rows to be zero; with an `--n-ctx`
  such as 1000 the last windows load rows past the cache. The default is 8192.

Met on the way, without a run: the bench's minimum and maximum cycles start from
ring entry 0, which may be a warm-up pass (`k0/harness.cpp:1321`); the sentinel
of `k0/ops/attn.cuh:70` is never seeded and its count never read.

## 5. Proofs

`GridBoundaryProofs` (for every number of blocks, modulus, set of cells, program
and number of crossings):

* `Invariance`: `Spec => []IInv`. `LockStep` is not inductive: the counter is
  truncated, so what it says about the blocks has to be stated through history.
  `IInv` names a round `r`. `RoundInv`: every block has arrived `r` or `r + 1`
  times, those ahead spin, not all are ahead, and the counter is `r * N` plus their
  number, modulo `W`. `MemoryInv`: L2 holds of a cell what program order said
  before window `r`, until its one store of that window has drained.
  `LocalInv`: an epoch is the truncated arrivals times N, pending stores are those
  of the block's window, no L1 line of a weight differs from memory.
* `TypeCorrect`, `LockStepHolds`, `FreshLoadsHold` follow from it;
  `BarrierRefinement` maps arrivals and passes to `Enter` and `Leave`.
* Assumptions: `GridAssumption` (`N` positive, `2 * N <= W`: the difference of
  counter and target lies in the signed range) and `ProgramAssumption` (windows
  are antichains).

`PassProtocolProofs` (for every set of programs with their errors, grid, ring and
number of passes, timeouts or not):

* The invariant is `IInv`, whose parts are named for what they
  tie together. `Lockstep` compares the places of two blocks without numbers: they
  are level, or one is a boundary beyond the other and the other has arrived.
  `Errors` says that what is behind a block had no error or `err_dev` tells of it, and
  that no block begins another pass of a program with an error in it. `Bell` bounds the doorbell cells by the
  pass of the blocks, `Host` and `Life` tie the host's place to the kernel's, and
  `Ring` is the content of the cycle ring.
* `OkIsComplete`, `NoneStranded`, `FreedAfterExit`, `NoErroredPassDone`, `RingIsLastPasses`
  and `TypesHold` follow. `NoStrandedBlock` is not inductive: that nobody waits for a
  block that has left rests on every block reading the error at the same boundary,
  hence on `Lockstep` and `Errors`. `OkMeansPassComplete` rests on `Bell`: no block can
  begin another pass before the next request.
* Assumption: `ProtocolAssumption` (well-formed programs; the passes stay below
  HALT).
* `ErrorsReported`: what is reported is an error the program raises, under
  `OneFault` (a program goes wrong at one instruction at most). The hypothesis is
  needed: code and aux are two cells, and two failing instructions of a window may
  leave the code of the one with the place of the other.
* `ServiceImplemented`: the refinement of `PassService`, under `ReadsToken` (every
  error-free program has a block that reads its token). `Requested` says which
  requests are open, by the place of the host; `Answered` that whatever a block has
  read in this pass is the token of the open request.

`ExchangeProofs` (for every grid, vector, its three partitions among the blocks,
number of sites and of passes, timeouts or not; all under `StaleLines = {}`, because the
runs `stale_seqno` and `stale_partial` refute the properties otherwise):

* `Invariant`: `Spec => []IInv`. `Places` and `LockStep` turn the boundary's
  counters into places: what a block has left is its round and window
  (`LockCases` gives the four ways two blocks may stand). `Driver` and `Current` tie
  the host's pass, doorbells, patches and done cells to the pass of the blocks.
  `Seqnos`, `Payloads` and `Flights` say that a mailbox is a function of the
  places of the peer's blocks: the seqno of block 0, every element of the block that
  pushes it, but for the stores in flight. `Seen`, `Vectors` and `Taken` say the same
  of polls, `proj_out` and the sums taken.
* `SeqnoMeansPayload` is not inductive: a seqno is one block's, the payload is all
  blocks'. It follows from `PublishedIsSent`, where the boundary between PUSH and
  REDUCE, and the fence before it, are used. `MailboxNotOverrun` follows from
  `SentIsRung`: without an acknowledgement it is the host that keeps the peer from
  sending more. `PatchIsSafe` and `PushedIsCurrent` are parts of the invariant.
* `MirroredHolds`: the refinement of `AllReduce`. `given` is the least round all
  blocks of a GPU have computed (`GivenLeast`: it exists and is at most one more than
  it has taken); a fold finds it reached on both GPUs (`GivenAtFold`), and the last
  fold takes the sum (`FoldTakesSum`).
* Assumption: `ExchangeAssumption` (the passes fit the signed compare of the seqno);
  `Elem # {}` for the refinement.

`ScheduleProofs` (for every program, buffer set, threshold and grid):

* `Invariance`: `Spec => []IInv`. That two given instructions keep their distance
  is not inductive: a merge joins windows that were themselves merged. `IInv`
  says that the merged windows are made of the given windows the loop is past
  (`FreshInv`, none twice; `WholeInv`, each whole), in order and without a clash
  inside (`ApartInv`), and that one with an exchange or two heavy ops is a given
  one (`AsGivenInv`); `CheckInv` ties the outcome to the windows.
* `DependentStayApartHolds`, `XchgKeepsItsBoundaryHolds`, `HeavyKeepTheirGridHolds`
  and `ChecksTheEmittersHolds` follow.
* `RangesInvariance`: `Spec => []GInv`, and from it `RangesPartitionTheGridHolds`
  and `TypesHold`. `SplitInv` says that inside `split_grid` every instruction keeps
  between one block and the grid, whatever the rounding gave and the correction loop
  took back; the loop ends when the shares add up to the grid, so that the running
  sums (`Climbs`) cut the grid into ranges that meet. `RangeInv` says that windows
  the loop is past have such ranges; that a later window does not write them again
  is `OnceInv` with `FreshInv`, no instruction twice.
* Assumption: `ScheduleAssumption` (a grid of at least one block, instructions with a
  positive estimate and reads and writes among the buffers, every instruction in one
  window, once). The length of the program is not bounded, and neither is that of a
  window: one that is wider than the grid ends the compiler (`TooWide`), so `SplitInv`
  has that the window being split is not.

`Sums`: `MapThenSumSet` adds the elements of a set in an order that CHOOSE fixes.
`SumStep`, `SumSplit`, `SumBounds` and `SumSame` say that the order does not matter.
The library's induction theorems have an operator parameter that no prover here
instantiates; `SetOfNaturals` and `SetOfSubsets` have a set in its place, the set of
those for which the claim holds, and follow from the least element of its complement.

`DecodeProofs` (for every grid, unit, tile, context, layer pattern, prompt and
number of steps):

* `ChunksOfAnyWindow` is the arithmetic of `op_fattn_decode`: the lengths cover
  the window (`CeilDivCovers`, `ChunkLenCovers`), an earlier chunk ends before a
  later one starts (`EarlierChunkEndsBefore`), and the chunk of a row is its
  quotient by the length (`EveryRowHasAChunk`). `ChunksPartitionHolds` follows
  from `n_kv` being a natural number.
* `DecodeInvariance`: `Spec => []DecodeInv`. That a pass writes its own row only is
  not inductive: KV_APPEND takes the row from a cell. `DecodeInv` says that from
  `SetPassInputs` to the end of the pass the cell is the position, and that the
  caches keep their shape; `OnlyOwnRowWrittenHolds` follows.
* `FlowInvariance`: `Spec => []FlowInv`, what the blocks of a pass leave in the
  buffers that all layers reuse. `Lockstep` (no block is two windows ahead) and
  `StagesOfLayer` (the windows of a layer follow each other) say who may be where; a
  block writes only its own slices but for the row of a norm (`BlockKeepsOthers`,
  `BlockKeepsStates`). `DnFlow` gives each "dn" layer the state `s` before the pass
  and the input `x`, and says from the window a block is at how much of
  `Append(s, x)` its conv window, its working state and its two committed states
  hold; `WindowOfNext` is the shift of the conv history. `AttnFlow` says the same
  of the query and of the records that decode leaves for the reduce.
* `ReduceFoldsFreshPartialsHolds` and `ConvAndSsmAgreeHolds` follow. Neither is
  inductive: a state is committed from scratch buffers, by blocks of which some are
  already a window further, and the state is right only if the slices of all blocks
  agreed three windows before. The hypotheses, `ZeroIsNoRecord` and
  `MarkersAreNoSequences`, say that the markers for zero-filled memory, wrong values
  and NaN are no data; for TLC they are model values.
* `TypesHold`: `LoopInv` counts the greedy tokens by the passes whose token is
  chosen (`Chosen`), so a run emits no more than it was asked for.
* Assumption: `DecodeAssumption`.

`DecodeRefinement` (for every grid, unit, tile, layer pattern, prompt, number of
steps and interleaving of the blocks): `DecodesGreedily`, `Spec => Greedy!SafeSpec`.
What the loop reads, emits and dumps is what `Decoder` gives for the tokens fed.

* `Value(l, n)` is the value after layer l for the n-th token. It is a function of the
  tokens up to it (`PrefixHasItsValues`) and of the layer below
  (`ValueOfLayer`), so a token chosen later changes no value in a cache or a
  state (`PrefixKept`).
* `ModelInvariance`: `Spec => []ModelInv`. That the logits are right is not
  inductive: they come out of scratch buffers that every layer reuses. `ModelInv` says
  where the values are. `CellsHold`: the mask is true up to the position, inside a
  window that fits the context. `CachesHold` and `StatesHold`: a cache row is the one
  of its token, a state the inputs of all tokens so far; in a pass, by the window the
  block is at. `PassHolds`: stream, queries, records and mixer outputs hold the
  value of their layer from the window that writes them to the last one that reads
  them; for the stream, which block 0 alone writes, by the window of block 0.
* Attention is the sum of this: a chunk attends its rows up to the position
  (`ChunkAttends`), the chunks end where the next begin (`ChunksAreAdjacent`), so the
  reduce merges every row once and in order (`MergedRows`), which is what a layer of
  `Decoder` sees (`AttentionOverInputs`).
* Only `EndPass` is a step of `Decoder` (`GreedyStep`), a `Prefill` or a `Generate` by
  `GreedyLoop`: the token of a step is the choice of the row read last.
* Hypotheses: `MarkersAreNoData` (as above, and no row or record), and `ContextIsPadded`:
  `--n-ctx` is a multiple of the padding unit. `PaddedWindow` uses it: without it a
  window may reach past the caches, which is the finding `context_not_padded`.

`TensorParallelProofs`, on `WeightSplit` (for every number of heads, head dimension
and tensor):

* `SlicesPartitionWeights`: for a tensor whose split dimension the period (or two)
  divides, the two slices are injective, disjoint and cover it. The argument is
  the uniqueness of digits: an index is a period and a place in it
  (`DivUnique`), `HalfOfBlocks` keeps the period and moves the place by a half
  (`HalfOfBlocksInjective`, `HalfOfBlocksOnto`), and a row-major offset is a row and
  a column (`DigitsUnique`), so a partition of rows, of columns or of a vector is
  one of units (`RowsPartition`, `ColumnsPartition`).
* `HeadsStayPaired`: the modulo rule applied to local head numbers picks the
  head that the global rule picks.
* Assumption: `WeightSplitAssumption` (an even number of k heads).

`TensorParallelProofs`, on `TensorParallel` (for every model shape, set of files and
tokens):

* `PatchesAreReducesHolds`: `Spec => []PatchesAreReduces`. Not inductive: that the
  places stay right depends on what packing has appended, and that the mailboxes
  of two sites differ on how they were wired. `PatchInv` adds that each XCHG
  instruction has its site's pointers (`Packed`) and that the tables are as wired;
  `EmittedKinds` says that expansion neither makes nor loses an XCHG instruction,
  `PatchedKeeps` that a patch changes nothing but a seqno.
* `HarnessInvariance`, `TypesHold`, `ResolvesToOwnSliceHolds`, `StaysInBuffersHolds`:
  `Spec => []TypeOK`, `[]ResolvesToOwnSlice` and `[]StaysInBuffers`, from the inductive
  `HarnessInv`: `PatchInv`; `ControlInv` (the places of the host and the kernels);
  `ProgInv` (what each packed instruction may store to); `MemInv` (the arenas and the
  buffers); `MailInv` (the mailboxes); `RowInv` (the row cell); `StaysInBuffers`.
  * Why the arena is large enough: `Filling` says that the cursor plus the strides of
    the tensors that are left is the length the first loop computed. `ArenaIsSum` turns
    that loop (`MapThenSumSet`) into a sum that does not depend on the order (`Sums`),
    and `RestNext` takes one tensor out of it. So the copy never passes the end, and
    the cursor stays aligned (`StrideHolds`, `AlignedSum`).
  * Why a slice stays what it was: `Loaded` says that what has been uploaded is in the
    arena and ends before the cursor, so a later copy does not reach it
    (`CopiedSlice`). What the setup allocates afterwards are other buffers
    (`AllocatedMem`, `BuffersApart`).
  * Why no instruction stores outside its buffer: `BufferTable` is a list of sizes and the
    emitters a list of ranges, so each store of each instruction of the split program
    is compared with the table (`Lands`), by cases on the layers and their instructions
    (`DnToBuffers`, `AttnToBuffers`, `FfnToBuffers`, `EachToBuffers`); `SizesHold` has the
    arithmetic, products and halves of the dimensions. Expansion and binding keep it
    (`EmittedToBuffers`, `BoundAside`), a push takes one payload of its site (`PayloadsFit`),
    so `ProgInv` says of every packed instruction how far it reaches, and
    `ExecuteLands` that what it stores is within that (`Contained`). The row of an append
    is not in the program but in a cell the host writes: `RowInv` says that in a pass
    the cell holds the position, below `NCtx`, as no kernel stores over it
    (`ContainedApart`, `StoredLeaves`). That the buffers are there, as long as the table
    says, is `BuffersThere` and `MailInv`.
  * Why no kernel writes into an arena: what it may store to is a buffer or a mailbox,
    and both are apart from it (`KernelStores`). `StoredKeeps` is the frame: such writes
    change neither the arena nor the length of a buffer.
  * Why the types need it: a name leads into the arena or to a whole buffer
    (`Resolved`), whose lengths are in `Shapes`.
* Assumptions: those of the modules it extends. `FilesAssumption` says that a file is a
  finite sequence of tensors with a name, a type and two dimensions, as the reader
  returns it; it does not say that the names are those of the model, that they are
  distinct, or that the sizes fit. `ScratchAssumption` says of the dimensions that the
  hidden size and the heads of a DeltaNet layer are no wider than the FFN, of which
  `Q8_ELEMS` is the half, and that attention's heads are no wider than DeltaNet's, as both
  mixers share `attn_out`. It holds of the constants of `compile_schedule.py` (5120,
  48 heads of 128, 24 heads of 256 and 17408) and is needed: with an FFN of 8 or a hidden
  size of 10 in `MCTensorParallel.cfg` an instruction stores past the end of `q8_act`, with
  attention heads of 8 past the end of `attn_out`.

Only model-checked: liveness and fairness, among them that `Decoder`'s and
`PassService`'s steps are taken (ENABLED is out of the prover's reach); and
`SplitIsExact` of `TensorParallel`, which compares the sums that two whole programs
compute: an induction over data, of programs whose length is a parameter. All other
invariants of the runs are theorems. That a load stays in its buffer is not stated:
one that does not has the value `Wild`, and where that matters the run shows it as a
wrong sum (`SplitIsExact`).

## 6. Not modelled

* Float arithmetic of the macro-ops: data, judged by the parity oracle.
* Readers, JSON, file output, timing, `nvidia-smi` probing: pure I/O.
* `parse.py`: it turns one fixed graph dump into tables. The node accounting of
  the compiler (COVERED, DROPPED) and its output format are left out too.
* The 10 GB guard of the dual mode before the upload: a constant, though what is
  allocated grows with `--n-ctx`; the failing `cudaMalloc` it does not prevent is
  `CudaError`.
* `host_init`'s allocation failures, cycle read-back, MK_PROFILE counters: copies
  without protocol.
* What the driver does with a resident kernel when the process ends: `CUDA_CHECK`
  exits, and so do several paths of `main` without a shutdown.
* Device errors of a dual pass: `Exchange` has no ops that raise, and the `h_err` polls of
  `dual_run_pass` (`k0/harness.cpp:1615`, `1637-1642`) with them. The host leaves the
  process on one, as on a timeout; an error of one grid would leave the other
  polling for a seqno until then.
* Residency and register budget: a build-time check (`tools/check-residency.sh`).

## 7. Plan

Every module of the plan is written, and what is left to prove is out of the
prover's reach (section 5). What would come next is in the code that is only partly
modelled: the dump tree and the accounting of the single-GPU harness, and the
compiler's node coverage.
