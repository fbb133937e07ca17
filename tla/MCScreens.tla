----------------------------- MODULE MCScreens -----------------------------
(* Instances of Screens: what the program sends on which Term, and how the *)
(* user behaves.                                                           *)
EXTENDS Screens

(* A program that is quiet while the help is shown and, on the alternate   *)
(* screen, sends no RIS.                                                   *)
MCSent == [t \in Terms |-> CASE t = "main" -> {"CUP", "DECSC", "DECRC", "RIS", "ALT"}
                             [] t = "alt"  -> {"CUP", "DECSC", "DECRC", "ALT"}
                             [] t = "help" -> {"CUP", "DECRC"}]

MCUsers == {[help |-> {"main"}, resize |-> Terms],
            [help |-> {"main", "alt"}, resize |-> {"main"}]}

(* A program that switches screens at any time.                            *)
MCAnyTime == [t \in Terms |-> {"CUP", "ALT"}]
MCAnyUser == {[help |-> {"main", "alt"}, resize |-> {}]}
=============================================================================
