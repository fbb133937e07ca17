------------------------------ MODULE Screens ------------------------------
(***************************************************************************)
(* The three Terms of src/src/term.c - the shell's screen p_term, the      *)
(* alternate screen p_alt and the help browser p_help - of which one,      *)
(* term, is visible and gets everything the program on the tty sends.      *)
(* p_alt and p_help are made when they are shown for the first time.       *)
(*                                                                         *)
(* Of a Term only its height and its cursor's row are kept: columns are    *)
(* resized and limited the same way.  One copy of the cursor is saved for  *)
(* the alternate screen and one for the other two Terms together.          *)
(***************************************************************************)
EXTENDS Integers

CONSTANTS
  Heights,  (* the heights, in rows, the window may take                    *)
  Modes,    (* the private modes a program uses to switch: 1049, 1047       *)
  Sent,     (* [Term -> the sequences the program sends while it is shown]  *)
  Users     (* the users: on which Terms one opens the help, and on which   *)
            (* one resizes the window                                       *)

Terms  == {"main", "alt", "help"}
Inputs == {"LESS", "HELP"}      \* the bits of inputmode; MODE_REGULAR is always set

ASSUME ScreensAssumption ==
  /\ Heights # {} /\ Heights \subseteq Nat \ {0}
  /\ Users \subseteq [help : SUBSET Terms, resize : SUBSET Terms]

VARIABLES
  term,        (* the visible Term                                         *)
  rows,        (* [Term -> its height, 0 before it is made]                *)
  cy,          (* [Term -> cursor.y]                                       *)
  altbit,      (* the Terms with MODE_ALTSCREEN in their mode              *)
  helpbit,     (* TMODE_HELP is in the mode of p_help                      *)
  saved,       (* c of tcursor                                             *)
  storedterm,  (* p_help_storedterm                                        *)
  inputmode,
  storedinput, (* help_storedinputmode                                     *)
  window,      (* the height the window has: row of the last cresize       *)
  user         (* which of Users this is                                   *)

vars == <<term, rows, cy, altbit, helpbit, saved, storedterm, inputmode, storedinput,
          window, user>>

Limit(x, lo, hi) == IF x < lo THEN lo ELSE IF x > hi THEN hi ELSE x

Sends(seq) == seq \in Sent[term] /\ UNCHANGED <<window, user>>

----------------------------------------------------------------------------
(* tcursor: the copy Term t uses when the Terms in bits have the alternate *)
(* screen's flag, and the row loaded from it into a Term of height h.      *)
SlotMut(t, bits) == 0             \* mutant: one copy for all Terms

Slot(t, bits) == IF t \in bits THEN 1 ELSE 0

LoadedMut(y, h) == y              \* mutant: no tmoveto after the load

Loaded(y, h) == Limit(y, 0, h - 1)

SaveCursor ==
  /\ Sends("DECSC")
  /\ saved' = [saved EXCEPT ![Slot(term, altbit)] = cy[term]]
  /\ UNCHANGED <<term, rows, cy, altbit, helpbit, storedterm, inputmode, storedinput>>

LoadCursor ==
  /\ Sends("DECRC")
  /\ cy' = [cy EXCEPT ![term] = Loaded(saved[Slot(term, altbit)], rows[term])]
  /\ UNCHANGED <<term, rows, altbit, helpbit, saved, storedterm, inputmode, storedinput>>

(* Whatever else moves the cursor.                                         *)
MoveCursor(y) ==
  /\ Sends("CUP")
  /\ cy' = [cy EXCEPT ![term] = Limit(y, 0, rows[term] - 1)]
  /\ UNCHANGED <<term, rows, altbit, helpbit, saved, storedterm, inputmode, storedinput>>

(* RIS: treset sets the mode anew and saves the cursor it put home.        *)
Reset ==
  /\ Sends("RIS")
  /\ altbit' = altbit \ {term}
  /\ helpbit' = (helpbit /\ term # "help")
  /\ cy' = [cy EXCEPT ![term] = 0]
  /\ saved' = [saved EXCEPT ![0] = 0]
  /\ UNCHANGED <<term, rows, storedterm, inputmode, storedinput>>

(* lessmode_toggle while Term t is visible.                                *)
Lessmode(t, mode) ==
  IF t # "main" THEN inputmode
  ELSE CASE mode = "ON" -> inputmode \cup {"LESS"}
         [] mode = "OFF" -> inputmode \ {"LESS"}
         [] mode = "TOGGLE" -> IF "LESS" \in inputmode THEN inputmode \ {"LESS"}
                                                       ELSE inputmode \cup {"LESS"}

----------------------------------------------------------------------------
(* tswapscreen goes from p_alt to p_term, and from the others to p_alt.    *)
Other == IF term = "alt" THEN "main" ELSE "alt"

(* A Term that is not there yet is made (tnew) in the visible one's size,  *)
(* and treset saves its cursor: its mode has no flag yet.                  *)
Made(t) == rows[t] = 0
SavedByTnew(t, s) == IF Made(t) THEN [s EXCEPT ![0] = 0] ELSE s

(* The height a Term gets when tswapscreen shows it.                       *)
SwappedHeightMut(t) == IF t = "main" THEN rows["main"]   \* mutant: no tresize on the way back
                       ELSE IF Made(t) THEN rows[term] ELSE rows["main"]

SwappedHeight(t) == IF t = "main" THEN rows["alt"]
                    ELSE IF Made(t) THEN rows[term] ELSE rows["main"]

(* The flags after tswapscreen.                                            *)
SwappedBitsMut(t) == IF t = "alt" /\ ~Made(t) THEN altbit \cup {t} ELSE altbit  \* mutant: not in tnew's branch

SwappedBits(t) == IF t = "alt" THEN altbit \cup {t} ELSE altbit

(* tsetmode for 1049, 1047 and 47: with 1049 the cursor is saved or loaded *)
(* before the screens are swapped, and again after.                        *)
SwitchScreen(mode, set) ==
  LET swap  == set = (term \notin altbit)
      t     == IF swap THEN Other ELSE term
      bits  == IF swap THEN SwappedBits(t) ELSE altbit
      h     == IF swap THEN SwappedHeight(t) ELSE rows[t]
      slot  == Slot(term, altbit)
      save1 == IF mode = 1049 /\ set THEN [saved EXCEPT ![slot] = cy[term]] ELSE saved
      cy1   == IF mode = 1049 /\ ~set THEN [cy EXCEPT ![term] = Loaded(saved[slot], rows[term])]
                                      ELSE cy
      save2 == IF swap THEN SavedByTnew(t, save1) ELSE save1
      y     == Limit(cy1[t], 0, h - 1)
  IN /\ Sends("ALT")
     /\ term' = t
     /\ altbit' = bits
     /\ rows' = [rows EXCEPT ![t] = h]
     /\ saved' = IF mode = 1049 /\ set THEN [save2 EXCEPT ![Slot(t, bits)] = y] ELSE save2
     /\ cy' = [cy1 EXCEPT ![t] = IF mode = 1049 /\ ~set THEN Loaded(save2[Slot(t, bits)], h) ELSE y]
     /\ inputmode' = IF swap /\ term # "alt" THEN Lessmode(term, "OFF") ELSE inputmode
     /\ UNCHANGED <<helpbit, storedterm, storedinput>>

----------------------------------------------------------------------------
(* showhelp, in its two directions: Ctrl+F1 in every input mode, and q or  *)
(* Escape in the help's.                                                   *)
Pressed(key) == key = "F1" \/ (key = "q" /\ "HELP" \in inputmode)

HelpInputMut == inputmode \cup {"HELP"}    \* mutant: less mode is not left

HelpInput == (inputmode \cup {"HELP"}) \ {"LESS"}

ShowHelp(key) ==
  /\ Pressed(key) /\ term # "help"
  /\ term \in user.help
  /\ term' = "help"
  /\ storedterm' = term
  /\ rows' = [rows EXCEPT !["help"] = IF Made("help") THEN rows[term] ELSE rows["main"]]
  /\ saved' = SavedByTnew("help", saved)
  /\ IF Made("help") THEN \E y \in 0 .. rows[term] - 1 : cy' = [cy EXCEPT !["help"] = y]
                     ELSE cy' = [cy EXCEPT !["help"] = Limit(cy["help"], 0, rows["main"] - 1)]
  /\ storedinput' = inputmode
  /\ inputmode' = HelpInput
  /\ helpbit' = TRUE
  /\ UNCHANGED <<altbit, window, user>>

RestoredInputMut == IF storedterm = "main" THEN inputmode \ {"LESS"} ELSE inputmode  \* mutant: the help's

RestoredInput == IF storedterm = "main" THEN storedinput \ {"LESS"} ELSE storedinput

QuitHelp(key) ==
  /\ Pressed(key) /\ term = "help"
  /\ term' = storedterm
  /\ inputmode' = RestoredInput
  /\ rows' = [rows EXCEPT ![storedterm] = rows["help"]]
  /\ cy' = [cy EXCEPT ![storedterm] = Limit(cy[storedterm], 0, rows["help"] - 1)]
  /\ UNCHANGED <<altbit, helpbit, saved, storedterm, storedinput, window, user>>

(* The keys of less mode; q and Escape (OFF) are bound only in it.         *)
LessKey(mode) ==
  /\ mode = "OFF" => "LESS" \in inputmode
  /\ inputmode' = Lessmode(term, mode)
  /\ UNCHANGED <<term, rows, cy, altbit, helpbit, saved, storedterm, storedinput, window, user>>

(* cresize: only the visible Term is resized.                              *)
Resize(row) ==
  /\ term \in user.resize
  /\ row # window
  /\ window' = row
  /\ rows' = [rows EXCEPT ![term] = row]
  /\ cy' = [cy EXCEPT ![term] = Limit(cy[term], 0, row - 1)]
  /\ UNCHANGED <<term, altbit, helpbit, saved, storedterm, inputmode, storedinput, user>>

----------------------------------------------------------------------------
Init ==
  /\ term = "main"
  /\ window \in Heights
  /\ rows = [t \in Terms |-> IF t = "main" THEN window ELSE 0]
  /\ cy = [t \in Terms |-> 0]
  /\ altbit = {} /\ helpbit = FALSE
  /\ saved = [i \in {0, 1} |-> 0]
  /\ storedterm = "none"
  /\ inputmode = {} /\ storedinput = {}
  /\ user \in Users

TtyNext ==
  \/ SaveCursor
  \/ LoadCursor
  \/ \E y \in 0 .. rows[term] - 1 : MoveCursor(y)
  \/ Reset
  \/ \E mode \in Modes, set \in BOOLEAN : SwitchScreen(mode, set)

UserNext ==
  \/ \E key \in {"F1", "q"} : ShowHelp(key) \/ QuitHelp(key)
  \/ \E mode \in {"ON", "OFF", "TOGGLE"} : LessKey(mode)
  \/ \E row \in Heights : Resize(row)

Next == TtyNext \/ UserNext

Spec == Init /\ [][Next]_vars

----------------------------------------------------------------------------
(* Properties.                                                             *)

(* Every Term that was made has its cursor on its screen, whatever order   *)
(* it was resized, left, shown and restored in; one not made is not shown. *)
TypeOK ==
  /\ term \in Terms /\ storedterm \in {"none", "main", "alt"}
  /\ rows \in [Terms -> Heights \cup {0}] /\ rows[term] # 0
  /\ \A t \in Terms : cy[t] \in 0 .. (IF rows[t] = 0 THEN 0 ELSE rows[t] - 1)
  /\ altbit \subseteq Terms /\ helpbit \in BOOLEAN
  /\ saved \in [{0, 1} -> Nat]
  /\ inputmode \subseteq Inputs /\ storedinput \subseteq Inputs
  /\ window \in Heights /\ user \in Users

(* The visible Term has the size of the window, although a resize reaches  *)
(* only the Term visible then: the others catch up when they are shown.    *)
(* For a user who opens the help from the shell's screen only, or resizes  *)
(* there only (tswapscreen and showhelp take p_term's size for the         *)
(* window's), and a program that does not switch while help is shown.      *)
ViewSized == rows[term] = window

(* The two flags kpress looks at agree with what is visible: keys go to    *)
(* the help browser, and not to the program, exactly while it is shown.    *)
HelpKeys == "HELP" \in inputmode <=> term = "help" /\ helpbit

(* Less mode, in which the keys scroll, belongs to the shell's screen:     *)
(* it is never on while another Term is visible.                           *)
LessOnMain == "LESS" \in inputmode => term = "main"

(* MODE_ALTSCREEN, which tsetmode tests, and p_alt, which tswapscreen      *)
(* tests, say the same: 1049l always leaves the alternate screen, and      *)
(* 1049h never does.  For a program that sends no RIS there.               *)
AltFlag == altbit = IF rows["alt"] = 0 THEN {} ELSE {"alt"}

(* Once all three Terms are there and the shell's is visible, a program    *)
(* that enters the alternate screen with 1049 may move, save and load the  *)
(* cursor, and the user look at the help: the copy that 1049l will load    *)
(* is the shell's cursor.                                                  *)
CursorKept ==
  []((\A t \in Terms : rows[t] # 0) /\ term = "main"
     => [](term = "alt" => saved[0] = cy["main"]))

(* controlchars.c on 1049: "swap screen & set/restore cursor as xterm".    *)
(* Back on the shell's screen the cursor is in the row it was left in.     *)
CursorRestored == [][term = "alt" /\ term' = "main" => cy'["main"] = cy["main"]]_vars

(* The status line of the help, "-HELP- ( q to exit )": pressing q there   *)
(* leaves it, and q is a key for the program again.                        *)
QExits == [][QuitHelp("q") => "HELP" \notin inputmode']_vars
=============================================================================
