------------------------------ MODULE Selection ------------------------------
(***************************************************************************)
(* The highlight of the selection (selection.c), set with the mouse        *)
(* (xmouse.c) or with the keyboard (trt_kbdselect), and the text copied    *)
(* for it (setsel, xclipboard.c).                                          *)
(*                                                                         *)
(* sel holds rows of the window; the text under them moves when the user   *)
(* scrolls the view and changes when the program writes or another Term is *)
(* shown.  selscroll moves the rows along, _tputc and tclearregion clear   *)
(* the selection.  A line of a Term is numbered from the first it ever     *)
(* had: row y of the window shows line hist - scr + y.                     *)
(*                                                                         *)
(* In five ways the code loses the place of the selected text (Ways); lost *)
(* tells whether, and how, it did so since the text was copied.            *)
(*                                                                         *)
(* Only rows are modelled: columns, the two shapes and the snapping to     *)
(* words and lines are left out, and the window keeps its size.  So is the *)
(* message that keyboard selection writes over the end of the bottom line. *)
(***************************************************************************)
EXTENDS Integers, FiniteSets

CONSTANTS Rows,      \* rows of the window
          HistSize,  \* histsize of the Terms
          Lines,     \* lines each Term may have in its history (bound)
          Regions    \* the scroll regions programs set: first and last row

ASSUME SizeAssumption == Rows \in Nat \ {0} /\ HistSize \in Nat

Terms == {"shell", "alt", "help"}

ASSUME LinesAssumption == Lines \in [Terms -> 0..HistSize]

Row == 0..Rows - 1
Last == Rows - 1

ASSUME RegionsAssumption == Regions \subseteq {r \in Row \X Row : r[1] <= r[2]}

VARIABLES
  term,     \* the visible Term
  under,    \* p_help_storedterm
  made,     \* the Terms tnew has made
  hist,     \* histindex of each Term; none has wrapped
  scr,      \* how far each Term's view is scrolled back
  region,   \* scroll_top and scroll_bottom of each Term
  sel,      \* mode, ob.y, oe.y, alt; set: ob.x # -1
  kbd,      \* keyboard selection: "off", "move" or "select"
  copied,   \* history: of the lines copied last, those not written to since
  lost      \* history: what became of the place of the copied text

viewVars == <<term, under, made, hist, scr, region>>
selVars == <<sel, copied, lost>>
vars == <<viewVars, selVars, kbd>>

(***************************************************************************)
(* The ways in which the code loses the place:                             *)
(*   "distance"  selscroll is told another distance than the view went: a  *)
(*               scroll cut short at the top of the history, or from a     *)
(*               scrolled view to the top, the bottom or a mark;           *)
(*   "region"    the view scrolls, and the selection is below the scroll   *)
(*               region, where selscroll leaves it;                        *)
(*   "screen"    the view of one screen scrolls and moves the hidden       *)
(*               selection of the other;                                   *)
(*   "text"      the program changes highlighted text where _tputc does    *)
(*               not look: the view is scrolled back, the selection was    *)
(*               dragged upwards, the character goes to the next row, or   *)
(*               it is not written by _tputc;                              *)
(*   "help"      the help is shown over the selection, or left with it.    *)
(***************************************************************************)
Ways == {"distance", "region", "screen", "text", "help"}

\* "none" as long as the place is kept, "uncopied" from a selection's begin.
Kept == "none"
Places == Ways \cup {Kept, "uncopied"}

Lower(a, b) == IF a < b THEN a ELSE b
Higher(a, b) == IF a > b THEN a ELSE b

NoSelection == [mode |-> "idle", set |-> FALSE, ob |-> 0, oe |-> 0, alt |-> FALSE]

Init == /\ term = "shell" /\ under = "shell" /\ made = {"shell"}
        /\ hist = [t \in Terms |-> 0] /\ scr = [t \in Terms |-> 0]
        /\ region = [t \in Terms |-> <<0, Last>>]
        /\ sel = NoSelection /\ kbd = "off"
        /\ copied = {} /\ lost = "uncopied"

IsAlt == term = "alt"
Selected(s) == Lower(s.ob, s.oe)..Higher(s.ob, s.oe)      \* nb.y..ne.y
LinesAt(ys) == {<<term, hist[term] - scr[term] + y>> : y \in ys}

\* The selection becomes s, which is a new one, or loses its place in that way.
Becomes(s, way) ==
  /\ sel' = s
  /\ IF way = "uncopied" \/ ~s.set
     THEN copied' = {} /\ lost' = "uncopied"
     ELSE lost' = (IF lost = Kept THEN way ELSE lost) /\ UNCHANGED copied

selclear == Becomes(NoSelection, "uncopied")

(***************************************************************************)
(* Selecting.                                                              *)
(***************************************************************************)
Started(y, mode) == [mode |-> mode, set |-> TRUE, ob |-> y, oe |-> y, alt |-> IsAlt]

\* selextend, of a selection s.
Extended(s, y, done) ==
  IF s.mode = "idle" THEN s
  ELSE IF done /\ s.mode = "empty" THEN NoSelection
  ELSE [s EXCEPT !.oe = y, !.mode = IF done THEN "idle" ELSE "ready"]

\* setsel(getsel()): the X server may refuse, with a later owner of PRIMARY.
Copy(s) ==
  IF s.set THEN \/ /\ sel' = s /\ lost' = Kept
                   /\ copied' = LinesAt(Selected(s))
                \/ selclear
           ELSE Becomes(s, "uncopied")

\* bpress; a second or third click snaps, and starts in mode SEL_READY.
Press == /\ \E y \in Row, mode \in {"empty", "ready"} : Becomes(Started(y, mode), "uncopied")
         /\ UNCHANGED <<viewVars, kbd>>

\* bmotion, with any button held.
Motion == /\ sel.mode # "idle"
          /\ \E y \in Row : Becomes(Extended(sel, y, FALSE), "uncopied")
          /\ UNCHANGED <<viewVars, kbd>>

\* brelease; its press may have been reported to the program instead.
Release == /\ \E y \in Row : Copy(Extended(sel, y, TRUE))
           /\ UNCHANGED <<viewVars, kbd>>

keyboard_select == /\ kbd = "off" /\ kbd' = "move"
                   /\ UNCHANGED <<viewVars, selVars>>

\* s, v, V: start, or give up what was selected.
KbdToggle == \/ /\ kbd = "move" /\ kbd' = "select"
                /\ \E y \in Row, mode \in {"empty", "ready"} : Becomes(Started(y, mode), "uncopied")
                /\ UNCHANGED viewVars
             \/ /\ kbd = "select" /\ kbd' = "move"
                /\ selclear
                /\ UNCHANGED viewVars

\* A key that moves the cursor: select_or_drawcursor.
KbdMove == /\ kbd = "select"
           /\ \E y \in Row : Copy(Extended(sel, y, FALSE))
           /\ UNCHANGED <<viewVars, kbd>>

\* t: another shape, up to the cursor, but nothing is copied.
KbdShape == /\ kbd # "off"
            /\ \E y \in Row : Becomes(Extended(sel, y, FALSE),
                                      IF sel.mode = "idle" THEN Kept ELSE "uncopied")
            /\ UNCHANGED <<viewVars, kbd>>

\* y: the cursor's line.
KbdLine == /\ kbd = "move" /\ kbd' = "select"
           /\ \E y \in Row : Copy(Extended(Started(y, "empty"), y, FALSE))
           /\ UNCHANGED viewVars

\* Return keeps the highlight, Escape and q clear it.
KbdLeave == /\ kbd # "off" /\ kbd' = "off"
            /\ selclear \/ UNCHANGED selVars
            /\ UNCHANGED viewVars

(***************************************************************************)
(* The user scrolls the view.                                              *)
(***************************************************************************)
\* BETWEEN(y, orig, scroll_bottom), with the 0 that scrolling the view passes.
Moves(s, r) == s.set /\ (s.ob \in 0..r[2] \/ s.oe \in 0..r[2])

selscrollMut(s, n, r) == \* only the end where the drag began moves
  IF Moves(s, r)
  THEN IF s.ob + n > r[2] THEN NoSelection ELSE [s EXCEPT !.ob = Higher(s.ob + n, r[1])]
  ELSE s

selscroll(s, n, r) ==
  IF Moves(s, r)
  THEN IF s.ob + n > r[2] \/ s.oe + n < r[1] THEN NoSelection
       ELSE [s EXCEPT !.ob = Higher(s.ob + n, r[1]), !.oe = Lower(s.oe + n, r[2])]
  ELSE s

\* The view goes to s lines back and selscroll is told n lines.
View(s, n) ==
  /\ scr' = [scr EXCEPT ![term] = s]
  /\ Becomes(selscroll(sel, n, region[term]),
             IF n # s - scr[term] THEN "distance"
             ELSE IF sel.alt # IsAlt THEN "screen"
             ELSE IF Moves(sel, region[term]) THEN Kept ELSE "region")

kscrollup == \E n \in 0..Rows :
  /\ scr[term] <= HistSize - n + 1
  /\ View(Lower(scr[term] + n, hist[term]), n)  \* n, also when it stops at the top

kscrolldown(n) == scr[term] > 0 /\ View(scr[term] - Lower(n, scr[term]), -Lower(n, scr[term]))

Top == Lower(HistSize + 1, hist[term])
scrolltotop == View(Top, Top)                   \* however far back it was before
scrolltobottom == scr[term] > 0 /\ View(0, 0)   \* does not move the selection

\* To a bookmark in the history (scrollmark) or a return mark (retmark).
ToMark == term # "alt" /\ \E s \in 0..hist[term] : View(s, s)

Scroll == /\ \/ kscrollup \/ scrolltotop \/ scrolltobottom \/ ToMark
             \/ \E n \in 0..Rows : kscrolldown(n)
          /\ UNCHANGED <<term, under, made, hist, region, kbd>>

\* A key for the program: ttywrite scrolls down, but in less mode.
Key == /\ kscrolldown(scr[term])
       /\ UNCHANGED <<term, under, made, hist, region, kbd>>

(***************************************************************************)
(* The program's output.                                                   *)
(***************************************************************************)
WriteClearsMut(y) == FALSE \* _tputc forgets the selection

\* BETWEEN(cursor.y, ob.y, oe.y): never in a selection dragged upwards.
WriteClears(y) == sel.set /\ sel.ob <= y /\ y <= sel.oe

\* The program changes the text of the screen's rows ys; sure: _tputc has looked
\* for a highlight there.
Highlighted(ys) == sel.set /\ sel.alt = IsAlt /\ \E y \in ys : y + scr[term] \in Selected(sel)

Changed(ys, sure) ==
  /\ copied' = copied \ {<<term, hist[term] + y>> : y \in ys}
  /\ lost' = IF lost = Kept /\ ~sure /\ Highlighted(ys) THEN "text" ELSE lost
  /\ UNCHANGED sel

\* _tputc with the cursor in row y, whose text comes into row z: the next one
\* if the last character had filled row y.  The test is of the right row and
\* finds the selection if z is y, the view at the bottom, and the drag went down.
Write == \E y \in Row : \E z \in {y, Lower(y + 1, Last)} :
  /\ z # y => y # region[term][2]
  /\ IF WriteClears(y) THEN selclear
     ELSE Changed({z}, z = y /\ scr[term] = 0 /\ sel.ob <= sel.oe)
  /\ UNCHANGED <<viewVars, kbd>>

\* SUB and DECALN write by tsetchar alone, which clears nothing.
Fill == /\ \E ys \in {Row} \cup {{y} : y \in Row} : Changed(ys, FALSE)
        /\ UNCHANGED <<viewVars, kbd>>

\* Whatever calls tclearregion: clearing, inserting, deleting, scrolling.
Clear == /\ selclear
         /\ UNCHANGED <<viewVars, kbd>>

\* tscrollup by a line that goes to the history.
ScrollUp ==
  /\ hist[term] < Lines[term]
  /\ hist' = [hist EXCEPT ![term] = @ + 1]
  /\ scr' = [scr EXCEPT ![term] = IF 0 < @ /\ @ < HistSize + 1 THEN Lower(@ + 1, HistSize) ELSE @]
  /\ selclear
  /\ UNCHANGED <<term, under, made, region, kbd>>

SetRegion == /\ \E r \in Regions : region' = [region EXCEPT ![term] = r]
             /\ UNCHANGED <<term, under, made, hist, scr, kbd, selVars>>

(***************************************************************************)
(* Other Terms.                                                            *)
(***************************************************************************)
\* tsetmode 47, 1047, 1049: the alternate screen is cleared when it is left; the
\* shell's selection is kept, and hidden, meanwhile.  tnew clears.
SwitchScreen ==
  /\ \/ /\ term # "alt" /\ term' = "alt" /\ made' = made \cup {"alt"}
        /\ IF "alt" \in made THEN Becomes(sel, IF term = "shell" THEN Kept ELSE "help")
                             ELSE selclear
     \/ /\ term = "alt" /\ term' = "shell" /\ UNCHANGED made
        /\ selclear
  /\ UNCHANGED <<under, hist, scr, region, kbd>>

\* The first time the help is printed into a new Term; later the shell's
\* selection is highlighted in the help, and moved as if it were scrolled.
ShowHelp ==
  /\ kbd = "off" /\ term # "help"
  /\ under' = term /\ term' = "help" /\ made' = made \cup {"help"}
  /\ hist' = IF "help" \in made THEN hist ELSE [hist EXCEPT !["help"] = Lines["help"]]
  /\ scr' = [scr EXCEPT !["help"] = Lower(HistSize + 1, hist'["help"])]
  /\ Becomes(IF "help" \in made THEN selscroll(sel, scr'["help"], region["help"])
                                ELSE NoSelection, "help")
  /\ UNCHANGED <<region, kbd>>

QuitHelp == /\ kbd = "off" /\ term = "help" /\ term' = under
            /\ Becomes(sel, "help")
            /\ UNCHANGED <<under, made, hist, scr, region, kbd>>

Mouse == Press \/ Motion \/ Release

Keyboard == keyboard_select \/ KbdToggle \/ KbdMove \/ KbdShape \/ KbdLine \/ KbdLeave

Output == Write \/ Fill \/ Clear \/ ScrollUp \/ SetRegion \/ SwitchScreen

Next == Mouse \/ Keyboard \/ Scroll \/ Key \/ Output \/ ShowHelp \/ QuitHelp

Spec == Init /\ [][Next]_vars

(***************************************************************************)
(* Unless the place was lost since in one of the five Ways, what is        *)
(* highlighted is what was copied: every highlighted row of the visible    *)
(* Term shows a line that was copied, unchanged since, whatever else was   *)
(* scrolled, written or switched.  (selscroll, _tputc, tclearregion.)      *)
(***************************************************************************)
Promise(ways) ==
  lost \in ways /\ sel.set /\ sel.mode # "empty" /\ sel.alt = IsAlt
    => LinesAt(Selected(sel)) \subseteq copied

HighlightCopied == Promise({Kept})

(***************************************************************************)
(* None of the five could be left out: the same promise, made in spite of  *)
(* one of them.  The code breaks each of these.                            *)
(***************************************************************************)
KeptByScrolls == Promise({Kept, "distance"})
KeptByRegions == Promise({Kept, "region"})
KeptByScreens == Promise({Kept, "screen"})
KeptByText    == Promise({Kept, "text"})
KeptByHelp    == Promise({Kept, "help"})
==============================================================================
