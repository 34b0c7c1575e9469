----------------------------- MODULE MCSchedule -----------------------------
(***************************************************************************)
(* Schedule for TLC: every program of up to MaxLen instructions of a small *)
(* alphabet, and programs of readers as long as the grid or longer, cut    *)
(* into windows in every way.                                              *)
(***************************************************************************)
EXTENDS Schedule

CONSTANT MaxLen

Op(est, r, w) == [xchg |-> FALSE, est |-> est, r |-> r, w |-> w]

\* Producers and consumers of two buffers, in place and not, light and heavy, and
\* an exchange op, which declares its reads like any other.
Alphabet ==
  { Op(1, {"x"}, {"y"}), Op(2, {}, {"x"}), Op(5, {"x"}, {}),
    Op(9, {"y"}, {}), Op(9, {}, {"z"}),
    [xchg |-> TRUE, est |-> 2, r |-> {"z"}, w |-> {}] }

\* Cut a program of n instructions after the positions of C.
Cuts(n) == {C \in SUBSET (1 .. n) : n \in C}

CutInto(C) ==
  LET nth(v) == CHOOSE c \in C : Cardinality({d \in C : d <= c}) = v
      start(v) == IF v = 1 THEN 1 ELSE nth(v - 1) + 1
  IN [v \in 1 .. Cardinality(C) |->
        [k \in 1 .. nth(v) - start(v) + 1 |-> start(v) + k - 1]]

CutAnyHow(p) == {[prog |-> p, windows |-> CutInto(C)] : C \in Cuts(Len(p))}

Programs == UNION {[1 .. n -> Alphabet] : n \in 1 .. MaxLen}

\* Readers of one buffer, which all merge: into windows of as many instructions as
\* there are blocks, and of one more.  The last one is light or heavy.
Readers ==
  {[i \in 1 .. n |-> IF i = n THEN last ELSE Op(1, {"x"}, {})] :
     n \in {GRID, GRID + 1}, last \in {Op(1, {"x"}, {}), Op(9, {"x"}, {})}}

MCInputs == UNION {CutAnyHow(p) : p \in Programs \cup Readers}
==============================================================================
