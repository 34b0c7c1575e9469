---------------------------- MODULE TensorParallel ----------------------------
(***************************************************************************)
(* The tensor-parallel harness: dual_setup of k0/harness.cpp, the two      *)
(* packed programs and the passes of dual_run_pass, compared with what the *)
(* whole model on one device computes for the same tokens.                 *)
(*                                                                         *)
(* The host validates the file, uploads each GPU's slices, allocates and   *)
(* wires the mailboxes, and per GPU initialises it, allocates its buffers, *)
(* packs the split program and launches it.  Then per pass it writes the   *)
(* inputs and the seqnos of both GPUs and rings both doorbells.  The GPUs  *)
(* run at their own speed, an instruction at a time: what its blocks do    *)
(* between two boundaries is GridBoundary's, and what crosses NVLink in    *)
(* which order Exchange's.                                                 *)
(***************************************************************************)
EXTENDS WholeModel, FiniteSetsExt

CONSTANTS Align,    \* 256: where a weight may begin in the arena
          Files     \* the files the harness may be given

ASSUME TensorParallelAssumption == Align \in Nat \ {0}

\* gguf.h: a tensor has a name, of a layer or of none (0), a type and its dimensions.
ASSUME FilesAssumption ==
  Files \subseteq Seq([name : Nat \X STRING, type : STRING, ne : Nat \X Nat])

VARIABLES
  hpc, gpu, item,   \* the host: where it is, the GPU and the item it is at
  file,             \* the tensors of the file, in its order
  resolver,         \* Resolver of each GPU
  cursor,           \* the first cell of the arena not filled yet
  mem,              \* memory of each GPU
  mtab,             \* mailbox table of each GPU
  prog,             \* packed program of each GPU
  xchgIdx,          \* the instructions of each GPU whose seqno is patched
  at,               \* the instruction each kernel is at, 0 between passes
  published,        \* whether it has published the seqno of this instruction
  pass              \* passes run

hvars == <<hpc, gpu, item>>
dvars == <<file, resolver, cursor, mtab, prog, xchgIdx>>
kvars == <<at, published>>
vars == <<wvars, hvars, dvars, mem, kvars, pass>>

Peer(g) == 1 - g
Arena == <<0, "warena">>
Payload == <<0, "mbox_payload">>
Seqno == <<0, "mbox_seqno">>

SplitInstrs == Program(2)
MailboxSites == 0 .. Cardinality({k \in DOMAIN SplitInstrs :
                                    SplitInstrs[k].kind = "XCHG_REDUCE"}) - 1

Init ==
  /\ WInit
  /\ hpc = "whole" /\ gpu = 0 /\ item = 1
  /\ file = << >>
  /\ resolver = [g \in GPU |-> << >>] /\ cursor = 0
  /\ mem = [g \in GPU |-> << >>] /\ mtab = [g \in GPU |-> << >>]
  /\ prog = [g \in GPU |-> << >>] /\ xchgIdx = [g \in GPU |-> {}]
  /\ at = [g \in GPU |-> 0] /\ published = [g \in GPU |-> FALSE]
  /\ pass = 0

RunWhole ==
  /\ hpc = "whole" /\ WNext
  /\ UNCHANGED <<hvars, dvars, mem, kvars, pass>>

\* The first item of stage at on GPU 0; its device's memory is freed with the process.
Goto(stage) == hpc' = stage /\ gpu' = 0 /\ item' = 1

Open(f) ==
  /\ hpc = "whole" /\ WDone
  /\ whole' = << >> /\ UNCHANGED <<wat, names, expected>>
  /\ file' = f
  /\ Goto("validate")
  /\ UNCHANGED <<resolver, cursor, mtab, prog, xchgIdx, mem, kvars, pass>>

(***************************************************************************)
(* enumerate_and_validate: token_embd is there, each type has its expected *)
(* total and the number of tensors is that expected.  No other name is     *)
(* looked at.                                                              *)
(***************************************************************************)
TotalOf(f, type) ==
  MapThenSumSet(LAMBDA k : Units(f[k]), {k \in DOMAIN f : f[k].type = type})

Inventory(f) ==
  /\ \E k \in DOMAIN f : f[k].name = <<0, "token_embd">>
  /\ \A k \in DOMAIN f : TotalOf(f, f[k].type) = TotalOf(ModelFile, f[k].type)
  /\ Len(f) = Len(ModelFile)

Validate ==
  /\ hpc = "validate"
  /\ IF Inventory(file) THEN Goto("peer")
     ELSE hpc' = "refused" /\ UNCHANGED <<gpu, item>>
  /\ UNCHANGED <<wvars, dvars, mem, kvars, pass>>

EnablePeerAccess ==
  /\ hpc = "peer"
  /\ Goto("arena")
  /\ UNCHANGED <<wvars, dvars, mem, kvars, pass>>

(***************************************************************************)
(* gpu_upload_weights: the arena is as long as its padded slices, then     *)
(* each is copied to the cursor and its name added to the resolver.  The   *)
(* tensors of the MTP block are skipped.                                   *)
(***************************************************************************)
Skipped(t) == t.name[1] = MtpBlock
SliceLen(t, g) == Cardinality(DOMAIN WeightSlice(t, g))

\* Mutant of Stride: the slices follow each other.
StrideUnpadded(n) == n
Stride(n) == PadUp(n, Align)

ArenaLen(f, g) ==
  MapThenSumSet(LAMBDA k : Stride(SliceLen(f[k], g)), {k \in DOMAIN f : ~ Skipped(f[k])})

AllocArena ==
  /\ hpc = "arena"
  /\ mem' = [mem EXCEPT ![gpu] =
               [b \in {Arena} |-> [i \in 0 .. ArenaLen(file, gpu) - 1 |-> Wild]]]
  /\ cursor' = 0 /\ item' = 1 /\ hpc' = "upload"
  /\ UNCHANGED <<wvars, gpu, file, resolver, mtab, prog, xchgIdx, kvars, pass>>

\* The copy of slice s of t to arena cells from c on.
Copied(arena, c, t, s) ==
  [i \in DOMAIN arena |-> IF i - c \in DOMAIN s THEN Element(t, s[i - c]) ELSE arena[i]]

Added(r, name, ptr, n) == r ++ [b \in {name} |-> [ptr |-> ptr, n |-> n]]

UploadTensor ==
  /\ hpc = "upload" /\ item \in DOMAIN file
  /\ LET t == file[item]  s == WeightSlice(t, gpu)  n == SliceLen(t, gpu) IN
     IF Skipped(t)
     THEN item' = item + 1 /\ UNCHANGED <<hpc, gpu, resolver, cursor, mem>>
     ELSE IF cursor + n > Cardinality(DOMAIN mem[gpu][Arena])
     THEN hpc' = "exited" /\ UNCHANGED <<gpu, item, resolver, cursor, mem>>
     ELSE /\ mem' = [mem EXCEPT ![gpu][Arena] = Copied(@, cursor, t, s)]
          /\ IF t.name \in DOMAIN resolver[gpu]
             THEN hpc' = "threw" /\ UNCHANGED <<gpu, item, resolver, cursor>>
             ELSE /\ resolver' = [resolver EXCEPT ![gpu] =
                                    Added(@, t.name, Pointer(gpu, Arena, cursor), n)]
                  /\ cursor' = cursor + Stride(n)
                  /\ item' = item + 1
                  /\ UNCHANGED <<hpc, gpu>>
  /\ UNCHANGED <<wvars, file, mtab, prog, xchgIdx, kvars, pass>>

\* A stage is done on GPU 0, then on GPU 1.
Next2(stage, next) ==
  IF gpu = 0 THEN hpc' = stage /\ gpu' = 1 /\ item' = 1 ELSE Goto(next)

UploadDone ==
  /\ hpc = "upload" /\ item = Len(file) + 1
  /\ Next2("arena", "mailbox")
  /\ UNCHANGED <<wvars, dvars, mem, kvars, pass>>

(***************************************************************************)
(* gpu_alloc_mailboxes and gpu_wire_mailboxes: a payload of N_EMBD and a   *)
(* seqno per site, in the memory of the GPU that reads them.               *)
(***************************************************************************)
Wired(g) ==
  [s \in MailboxSites |-> [my_payload   |-> Pointer(g, Payload, s * Embd),
                           my_seqno     |-> Pointer(g, Seqno, s),
                           peer_payload |-> Pointer(Peer(g), Payload, s * Embd),
                           peer_seqno   |-> Pointer(Peer(g), Seqno, s)]]

AllocMailboxes ==
  /\ hpc = "mailbox"
  /\ mem' = [g \in GPU |->
               mem[g] ++ [b \in {Payload} |-> ZeroFilled(Cardinality(MailboxSites) * Embd)]
                      ++ [b \in {Seqno} |-> [s \in MailboxSites |-> 0]]]
  /\ mtab' = [g \in GPU |-> Wired(g)]
  /\ Goto("init")
  /\ UNCHANGED <<wvars, file, resolver, cursor, prog, xchgIdx, kvars, pass>>

(***************************************************************************)
(* Per GPU: host_init with the token cell, gpu_alloc_buffers,              *)
(* pack_program, host_upload and host_launch.                              *)
(***************************************************************************)
AllocBuffers ==
  /\ hpc = "init"
  /\ LET bufs == RuntimeBuffers(2) \cup {<<0, "token">>}
         cells(b) == IF b = <<0, "token">> THEN 1 ELSE CellsOf(b, 2)
     IN IF bufs \cap DOMAIN resolver[gpu] = {}
        THEN /\ mem' = [mem EXCEPT ![gpu] = @ ++ [b \in bufs |-> ZeroFilled(cells(b))]]
             /\ resolver' = [resolver EXCEPT ![gpu] = @ ++
                  [b \in bufs |-> [ptr |-> Pointer(gpu, b, 0), n |-> cells(b)]]]
             /\ hpc' = "pack" /\ item' = 1
        ELSE hpc' = "threw" /\ UNCHANGED <<item, mem, resolver>>
  /\ UNCHANGED <<wvars, gpu, file, cursor, mtab, prog, xchgIdx, kvars, pass>>

\* pack_XCHG_PUSH and pack_XCHG_REDUCE also bind the mailboxes of the site.
BoundOn(g, ins) ==
  LET b == Bound(ins, resolver[g]) IN
    CASE ins.kind = "XCHG_PUSH" ->
           Instr(b.kind, [peer_payload |-> mtab[g][ins.n.site].peer_payload] ++ b.p, b.n)
      [] ins.kind = "XCHG_REDUCE" ->
           Instr(b.kind, mtab[g][ins.n.site] ++ b.p, [seqno |-> 0] ++ b.n)
      [] OTHER -> b

PackableOn(g, ins) ==
  /\ Packable(ins, resolver[g])
  /\ ins.kind \in {"XCHG_PUSH", "XCHG_REDUCE"} =>
       "site" \in DOMAIN ins.n /\ ins.n.site \in DOMAIN mtab[g]

\* Mutant of PatchIndex: the place of the instruction in program.json.
JsonIndex(packed) == item
\* The place the instruction gets in the packed program.
PatchIndex(packed) == Len(packed) + 1

Pack ==
  /\ hpc = "pack" /\ item \in DOMAIN SplitInstrs
  /\ LET ins == SplitInstrs[item]  out == Emitted(ins) IN
     IF PackableOn(gpu, ins)
     THEN /\ prog' = [prog EXCEPT ![gpu] = @ \o [k \in DOMAIN out |-> BoundOn(gpu, out[k])]]
          /\ xchgIdx' = [xchgIdx EXCEPT ![gpu] =
               @ \cup {PatchIndex(prog[gpu]) : k \in {ins.kind} \cap {"XCHG_REDUCE"}}]
          /\ item' = item + 1
          /\ UNCHANGED hpc
     ELSE hpc' = "threw" /\ UNCHANGED <<item, prog, xchgIdx>>
  /\ UNCHANGED <<wvars, gpu, file, resolver, cursor, mtab, mem, kvars, pass>>

Launch ==
  /\ hpc = "pack" /\ item = Len(SplitInstrs) + 1
  /\ Next2("init", "idle")
  /\ UNCHANGED <<wvars, dvars, mem, kvars, pass>>

\* Peer access, host_init, host_upload or host_launch fails.
SetupThrows ==
  /\ \/ hpc \in {"peer", "init"}
     \/ hpc = "pack" /\ item = Len(SplitInstrs) + 1
  /\ hpc' = "threw"
  /\ UNCHANGED <<wvars, gpu, item, dvars, mem, kvars, pass>>

\* A CUDA call in a CUDA_CHECK fails.
ChecksFail ==
  \/ hpc \in {"arena", "mailbox", "init", "ring"}
  \/ hpc = "upload" /\ item \in DOMAIN file

\* Mutant of CudaError: CUDA_CHECK throws, and what has been launched goes on.
CudaErrorThrows ==
  /\ ChecksFail
  /\ hpc' = "threw"
  /\ UNCHANGED <<wvars, gpu, item, dvars, mem, kvars, pass>>

\* CUDA_CHECK ends the process, and with it a kernel that has been launched.
CudaError ==
  /\ ChecksFail
  /\ hpc' = "exited"
  /\ at' = [g \in GPU |-> 0] /\ published' = [g \in GPU |-> FALSE]
  /\ UNCHANGED <<wvars, gpu, item, dvars, mem, pass>>

(***************************************************************************)
(* A pass.  The inputs, the seqno and the token of both GPUs are written   *)
(* while both kernels are at the doorbell, then it is rung on each.        *)
(***************************************************************************)
Patched(instrs, idx, s) ==
  [k \in DOMAIN instrs |-> IF k \in idx
                           THEN Instr(instrs[k].kind, instrs[k].p, [seqno |-> s] ++ instrs[k].n)
                           ELSE instrs[k]]

WriteInputs ==
  /\ hpc = "idle" /\ pass < Len(Tokens)
  /\ pass' = pass + 1
  /\ mem' = [g \in GPU |-> SetToken(SetPassInputs(mem[g], pass), Tokens[pass + 1])]
  /\ prog' = [g \in GPU |-> Patched(prog[g], xchgIdx[g], pass + 1)]
  /\ Goto("ring")
  /\ UNCHANGED <<wvars, file, resolver, cursor, mtab, xchgIdx, kvars>>

RingDoorbell ==
  /\ hpc = "ring"
  /\ at' = [at EXCEPT ![gpu] = 1]
  /\ Next2("ring", "wait")
  /\ UNCHANGED <<wvars, dvars, mem, published, pass>>

Running(g) == hpc \in {"ring", "wait"} /\ at[g] \in DOMAIN prog[g]

\* A store outside a buffer ends the run.
Store(g, writes) ==
  IF InBounds(mem, writes)
  THEN /\ mem' = Stored(mem, Named(writes, names))
       /\ at' = [at EXCEPT ![g] = @ + 1]
       /\ UNCHANGED hvars
  ELSE hpc' = "faulted" /\ UNCHANGED <<gpu, item, mem, at>>

ExecuteOp(g) ==
  /\ Running(g) /\ prog[g][at[g]].kind # "XCHG_REDUCE"
  /\ Store(g, Execute(mem, prog[g][at[g]]))
  /\ UNCHANGED <<wvars, dvars, published, pass>>

\* XCHG_REDUCE: tell the peer, then wait for what it says and fold.
Publish(g) ==
  /\ Running(g) /\ prog[g][at[g]].kind = "XCHG_REDUCE" /\ ~ published[g]
  /\ LET ins == prog[g][at[g]]
     IN mem' = Stored(mem, {Write(ins.p.peer_seqno, [i \in {0} |-> ins.n.seqno])})
  /\ published' = [published EXCEPT ![g] = TRUE]
  /\ UNCHANGED <<wvars, hvars, dvars, at, pass>>

Fold(g) ==
  /\ Running(g) /\ prog[g][at[g]].kind = "XCHG_REDUCE" /\ published[g]
  /\ LET ins == prog[g][at[g]]
     IN /\ Load(mem, ins.p.my_seqno, 0) >= ins.n.seqno
        /\ Store(g, Execute(mem, ins))
  /\ published' = [published EXCEPT ![g] = FALSE]
  /\ UNCHANGED <<wvars, dvars, pass>>

Return ==
  /\ hpc = "wait" /\ \A g \in GPU : at[g] = Len(prog[g]) + 1
  /\ at' = [g \in GPU |-> 0]
  /\ Goto("idle")
  /\ UNCHANGED <<wvars, dvars, mem, published, pass>>

Shutdown ==
  /\ hpc = "idle" /\ hpc' = "down"
  /\ UNCHANGED <<wvars, gpu, item, dvars, mem, kvars, pass>>

Next ==
  \/ RunWhole
  \/ \E f \in Files : Open(f)
  \/ Validate \/ EnablePeerAccess \/ AllocArena \/ UploadTensor \/ UploadDone
  \/ AllocMailboxes \/ AllocBuffers \/ Pack \/ Launch
  \/ SetupThrows \/ CudaError
  \/ WriteInputs \/ RingDoorbell \/ Return \/ Shutdown
  \/ \E g \in GPU : ExecuteOp(g) \/ Publish(g) \/ Fold(g)

Spec == Init /\ [][Next]_vars

(***************************************************************************)
(* Properties                                                              *)
(***************************************************************************)

\* The host is at one of its places, no GPU runs outside a pass, and what the resolver
\* has of a GPU lies within what was allocated on it.
TypeOK ==
  /\ hpc \in {"whole", "validate", "refused", "peer", "arena", "upload", "mailbox", "init",
              "pack", "idle", "ring", "wait", "down", "threw", "exited", "faulted"}
  /\ gpu \in GPU /\ item \in Nat \ {0} /\ cursor \in Nat /\ pass \in 0 .. Len(Tokens)
  /\ \A g \in GPU :
       /\ at[g] \in 0 .. Len(prog[g]) + 1 /\ published[g] \in BOOLEAN
       /\ at[g] # 0 => hpc \in {"ring", "wait", "faulted"}
       /\ xchgIdx[g] \subseteq DOMAIN prog[g]
       /\ \A b \in DOMAIN resolver[g] :
            LET r == resolver[g][b]
            IN r.ptr.gpu = g /\ r.ptr.off + r.n <= Cardinality(DOMAIN mem[g][r.ptr.buf])
  /\ hpc = "upload" => cursor <= Cardinality(DOMAIN mem[gpu][Arena])

\* When kernels may run, the name of every weight of the decode graph leads each GPU to
\* its slice of that weight: the later copies have left it alone, and it begins where
\* the vector loads of the ops need it to.
ResolvesToOwnSlice ==
  hpc \in {"idle", "ring", "wait"} =>
    \A g \in GPU : \A k \in DOMAIN file :
      LET t == file[k]  r == resolver[g][t.name]  s == WeightSlice(t, g) IN
      Skipped(t) \/ /\ r.ptr.off % Align = 0
                    /\ \A i \in DOMAIN s : Load(mem, r.ptr, i) = Element(t, s[i])

\* The host patches the seqno of every XCHG_REDUCE of the packed program and writes into
\* no other instruction, although packing turns one instruction of program.json into
\* several; and a site's push goes where the peer's reduce of that site reads.
PatchesAreReduces ==
  \A g \in GPU :
    /\ xchgIdx[g] = {k \in DOMAIN prog[g] : prog[g][k].kind = "XCHG_REDUCE"}
    /\ \A k \in DOMAIN prog[g], j \in DOMAIN prog[Peer(g)] :
         LET push == prog[g][k]  red == prog[Peer(g)][j] IN
         push.kind = "XCHG_PUSH" /\ red.kind = "XCHG_REDUCE" =>
           (push.n.site = red.n.site <=> push.p.peer_payload = red.p.my_payload)

(***************************************************************************)
(* What GPU g must have of a buffer at the end of a pass: all of what is   *)
(* mirrored, its half of the logits, its heads of the caches.              *)
(***************************************************************************)
ShareOf(b, whl, g) ==
  LET n == Cardinality(DOMAIN whl)  hist == DConv - 1  c == b[2] IN
    CASE c \in {"residual", "xn", "proj_out"} -> whl
      [] c = "result_output" -> [i \in 0 .. n \div 2 - 1 |-> whl[g * (n \div 2) + i]]
      [] c = "ssm_state" ->
           [i \in 0 .. n \div 2 - 1 |-> whl[HalfOfBlocks(i, KHeads * HeadDim, g)]]
      [] c = "conv_state" ->
           [i \in 0 .. n \div 2 - 1 |->
              whl[HalfOfBlocks(i \div hist, KHeads * HeadDim, g) * hist + (i % hist)]]
      [] c \in {"cache_k", "cache_v"} ->
           LET half == Sp(KvHeads * AttnHeadDim, 2)
           IN [i \in 0 .. n \div 2 - 1 |-> whl[(i \div half) * 2 * half + g * half + (i % half)]]

\* No instruction of the packed programs stores outside the buffer it is given, on its
\* own GPU or in the mailbox of its peer: each range fits the buffer table, and a row
\* the KV caches of the pass.
StaysInBuffers == hpc # "faulted"

\* After every pass the two GPUs have together what the whole model has on one: the same
\* residual stream on both, each its half of the logits, its heads of the recurrent and
\* convolution states and of the KV caches.
SplitIsExact ==
  hpc = "idle" /\ pass > 0 =>
    \A g \in GPU : \A b \in Observed :
      mem[g][b] = ShareOf(b, expected[pass][b], g)
=============================================================================
