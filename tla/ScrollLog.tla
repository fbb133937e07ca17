----------------------------- MODULE ScrollLog -----------------------------
(***************************************************************************)
(* What a terminal with a scrollback promises, without buffers, indices or *)
(* a ring: a screen of rows, and the texts of the last Depth lines that    *)
(* left it over the top of the scroll region, the newest first.  A saved   *)
(* line never changes, and is only forgotten when Depth newer ones are     *)
(* saved.  LineRing implements this for a program that sends no reverse    *)
(* index.                                                                  *)
(***************************************************************************)
EXTENDS Integers

CONSTANTS Depth, Heights, Texts, Blank

VARIABLES
  count,   \* how many lines are saved
  saved,   \* [1 .. count -> text], 1 is the newest
  screen   \* [0 .. height - 1 -> text]

Init ==
  /\ count = 0
  /\ saved = [k \in 1 .. 0 |-> Blank]
  /\ \E h \in Heights : screen = [y \in 0 .. h - 1 |-> Blank]

(* The text of one row changes.                                            *)
Write(y, t) ==
  /\ screen' = [screen EXCEPT ![y] = t]
  /\ UNCHANGED <<count, saved>>

(* The rows lo .. hi are erased.                                           *)
Erase(lo, hi) ==
  /\ screen' = [y \in DOMAIN screen |-> IF lo <= y /\ y <= hi THEN Blank ELSE screen[y]]
  /\ UNCHANGED <<count, saved>>

(* The rows t .. b move up or down by n; blank rows take their place.      *)
ShiftedUp(t, b, n) ==
  [y \in DOMAIN screen |-> IF y < t \/ y > b THEN screen[y]
                           ELSE IF y + n <= b THEN screen[y + n] ELSE Blank]

ShiftUp(t, b, n) ==
  /\ screen' = ShiftedUp(t, b, n)
  /\ UNCHANGED <<count, saved>>

ShiftDown(t, b, n) ==
  /\ screen' = [y \in DOMAIN screen |-> IF y < t \/ y > b THEN screen[y]
                                        ELSE IF y - n >= t THEN screen[y - n] ELSE Blank]
  /\ UNCHANGED <<count, saved>>

(* Row t is saved, and the rows below it, to b, move up.                   *)
Save(t, b) ==
  /\ count' = IF count < Depth THEN count + 1 ELSE Depth
  /\ saved' = [k \in 1 .. count' |-> IF k = 1 THEN screen[t] ELSE saved[k - 1]]
  /\ screen' = ShiftedUp(t, b, 1)

(* The window's height changes: some rows over the top are dropped, and    *)
(* some under the bottom are dropped or added.                             *)
Resize(h, drop) ==
  /\ screen' = [y \in 0 .. h - 1 |-> IF y + drop \in DOMAIN screen THEN screen[y + drop]
                                     ELSE Blank]
  /\ UNCHANGED <<count, saved>>

Next ==
  \/ \E y \in DOMAIN screen, t \in Texts : Write(y, t)
  \/ \E t, b \in DOMAIN screen :
       \/ Erase(t, b)
       \/ Save(t, b)
       \/ \E n \in 1 .. b - t + 1 : ShiftUp(t, b, n) \/ ShiftDown(t, b, n)
  \/ \E h \in Heights, drop \in DOMAIN screen : Resize(h, drop)

Spec == Init /\ [][Next]_<<count, saved, screen>>
=============================================================================
