---------------------------- MODULE MCSelection ----------------------------
(***************************************************************************)
(* Selection with a short history in each Term, and a scroll region that   *)
(* has rows above and below it.                                            *)
(***************************************************************************)
EXTENDS Selection

MCLines == [t \in Terms |-> CASE t = "shell" -> 2 [] t = "alt" -> 1 [] t = "help" -> 1]

MCRegions == {<<0, 2>>, <<1, 1>>}

\* What was copied makes no difference any more once its place was lost.
MCView == <<viewVars, sel, kbd, IF lost = Kept THEN <<copied>> ELSE <<>>>>
=============================================================================
