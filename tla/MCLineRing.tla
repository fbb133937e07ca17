----------------------------- MODULE MCLineRing -----------------------------
(* Model checking of LineRing.  Which of the unused buffers malloc returns *)
(* makes no difference, so the states are compared up to the buffers'      *)
(* names: every place of a buffer stands for the buffer.                   *)
EXTENDS LineRing

Places(b) == {i \in Slots : hist[i] = b} \cup {H + y : y \in {x \in Rows : line[x] = b}}

Described(b) == <<b \in heap, width[b], text[b], Places(b)>>

Canonical ==
  <<[i \in Slots |-> IF hist[i] = NULL THEN <<>> ELSE Described(hist[i])],
    [y \in Rows |-> Described(line[y])],
    Cardinality(heap), histindex, circled, scr, size, cy, top, bottom>>
=============================================================================
