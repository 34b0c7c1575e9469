--------------------------- MODULE MCGridBoundary ---------------------------
(***************************************************************************)
(* GridBoundary for TLC: a handful of blocks, a counter of three bits that *)
(* wraps every 8 arrivals, one pass of two windows.                        *)
(***************************************************************************)
EXTENDS GridBoundary

MCCell == {"x", "y", "z", "weight"}

\* Window 1 produces x and y on different blocks; window 2 consumes both on
\* every block and produces z, which window 1 of the next pass consumes: the
\* reads of one window and the stores of the next meet on all three cells.
MCWindows ==
  << [stores |-> [b \in Block |-> CASE b = 0 -> {"x"} [] b = 1 -> {"y"} [] OTHER -> {}],
      loads  |-> [b \in Block |-> {"z", "weight"}]],
     [stores |-> [b \in Block |-> IF b = 2 THEN {"z"} ELSE {}],
      loads  |-> [b \in Block |-> {"x", "y", "weight"}]] >>
==============================================================================
