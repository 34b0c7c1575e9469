--------------------------- MODULE MCPassProtocol ---------------------------
(***************************************************************************)
(* PassProtocol for TLC: the programs the host may upload.                 *)
(***************************************************************************)
EXTENDS PassProtocol

In(kind, lo, hi) == [kind |-> kind, lo |-> lo, hi |-> hi, flag |-> FALSE]

Flagged(in) == [in EXCEPT !.flag = TRUE]

\* The program of test_glue: every block embeds the token, one normalises, one
\* emits the logits with a completion flag.
GlueProgram ==
  << In("EMBED_LOOKUP", 0, N), In("BOUNDARY", 0, 0), In("RMSNORM", 0, 1),
     In("BOUNDARY", 0, 0), Flagged(In("LOGITS_EMIT", 0, 1)) >>

\* The programs of test_error: a kind between two boundaries.
BadKindProgram ==
  << In("NOP", 0, N), In("BOUNDARY", 0, 0), In("OP_KIND_COUNT+5", 0, N),
     In("BOUNDARY", 0, 0) >>

XchgPushProgram == [BadKindProgram EXCEPT ![3] = In("XCHG_PUSH", 0, N)]

\* A flagged LOGITS_EMIT over two blocks: an error raised by an op, on some blocks
\* and not on others, which all go on to the epilogue.
WideFlagProgram ==
  << In("EMBED_LOOKUP", 0, N), Flagged(In("LOGITS_EMIT", 0, 2)), In("BOUNDARY", 0, 0) >>

MCPrograms == {GlueProgram, BadKindProgram, WideFlagProgram}
MCXchgPush == {XchgPushProgram}
==============================================================================
