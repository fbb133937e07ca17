--------------------------- MODULE Selection_proofs ---------------------------
(***************************************************************************)
(* Theorems about Selection, for every height of the window and every      *)
(* length of the histories:                                                *)
(*   SelectionInWindow  the selection's rows are rows of the window;       *)
(*   HighlightIsCopied  what is highlighted is what was copied, unless its *)
(*                      place was lost in one of the five Ways;            *)
(*   RegionsToTheEnd    one of them needs a region that ends above the     *)
(*                      last row.                                          *)
(***************************************************************************)
EXTENDS Selection, TLAPS

Selections == [mode : {"idle", "empty", "ready"}, set : BOOLEAN,
               ob : Row, oe : Row, alt : BOOLEAN]

\* The scroll regions tsetscroll can leave.
Windows == {r \in Row \X Row : r[1] <= r[2]}

\* Types, and that the ends of the selection are rows of the window.
InWindow ==
  /\ term \in Terms /\ under \in Terms
  /\ hist \in [Terms -> Int] /\ scr \in [Terms -> Int]
  /\ region \in [Terms -> Windows]
  /\ sel \in Selections
  /\ lost \in Places

\* The place of what was copied is still kept.
promised == lost = Kept

\* HighlightCopied, whatever the mode of the selection.
Copies ==
  promised /\ sel.alt = IsAlt => sel.set /\ LinesAt(Selected(sel)) \subseteq copied

\* A selection made on the alternate screen is gone when the shell's is shown.
\* Without it, switching to the alternate screen could show an old selection.
AltHidden ==
  /\ term = "help" => under \in {"shell", "alt"}
  /\ term = "shell" \/ (term = "help" /\ under = "shell") => sel.alt = FALSE

IInv == InWindow /\ AltHidden /\ Copies

\* The rows of the screen are not empty: 0 and Last are among them.
LEMMA RowFacts == /\ Rows \in Nat /\ Rows >= 1
                  /\ Row \subseteq Int
                  /\ 0 \in Row /\ Last \in Row
                  /\ \A y \in Row : 0 <= y /\ y <= Last
                  /\ \A y \in Int : 0 <= y /\ y <= Last => y \in Row
BY SizeAssumption DEF Row, Last

\* The empty selection, as selinit and selclear leave it.
LEMMA NoSelectionType == NoSelection \in Selections
BY RowFacts DEF NoSelection, Selections

\* selstart and selextend leave the selection in the window.
LEMMA StartedType ==
  ASSUME NEW y \in Row, NEW m \in {"empty", "ready"}
  PROVE Started(y, m) \in Selections
BY DEF Started, Selections, IsAlt

\* selextend leaves the rows of a selection in the window.
LEMMA ExtendedType ==
  ASSUME NEW s \in Selections, NEW y \in Row, NEW d \in BOOLEAN
  PROVE Extended(s, y, d) \in Selections
BY NoSelectionType DEF Extended, Selections

\* selscroll clips the selection to the scroll region, or clears it.
LEMMA ScrolledType ==
  ASSUME NEW s \in Selections, NEW n \in Int, NEW r \in Windows
  PROVE selscroll(s, n, r) \in Selections
<1>0. /\ s.ob \in Int /\ s.oe \in Int /\ r[1] \in Int /\ r[2] \in Int
      /\ 0 <= r[1] /\ r[1] <= r[2] /\ r[2] <= Last
  BY RowFacts DEF Selections, Windows
<1>1. CASE Moves(s, r) /\ ~(s.ob + n > r[2] \/ s.oe + n < r[1])
  <2>1. Higher(s.ob + n, r[1]) \in Row
    BY <1>0, <1>1, RowFacts DEF Higher
  <2>2. Lower(s.oe + n, r[2]) \in Row
    BY <1>0, <1>1, RowFacts DEF Lower
  <2> QED
    BY <1>1, <2>1, <2>2 DEF selscroll, Selections
<1>2. CASE Moves(s, r) /\ (s.ob + n > r[2] \/ s.oe + n < r[1])
  BY <1>2, NoSelectionType DEF selscroll
<1>3. CASE ~Moves(s, r)
  BY <1>3 DEF selscroll
<1> QED
  BY <1>1, <1>2, <1>3

\* A selection that selscroll moves and does not clear shows rows that were
\* selected before, n rows further down.
LEMMA ScrolledRows ==
  ASSUME NEW s \in Selections, NEW n \in Int, NEW r \in Windows, Moves(s, r),
         selscroll(s, n, r).set, NEW y \in Selected(selscroll(s, n, r))
  PROVE y - n \in Selected(s)
<1> DEFINE t == selscroll(s, n, r)
<1>1. /\ s.ob \in Int /\ s.oe \in Int /\ r[1] \in Int /\ r[2] \in Int
      /\ 0 <= r[1] /\ r[1] <= r[2] /\ r[2] <= Last /\ 0 <= s.ob /\ 0 <= s.oe
  BY RowFacts DEF Selections, Windows
<1>2. ~(s.ob + n > r[2] \/ s.oe + n < r[1])
  BY <1>1 DEF selscroll, NoSelection, Selections
<1>3. t = [s EXCEPT !.ob = Higher(s.ob + n, r[1]), !.oe = Lower(s.oe + n, r[2])]
  BY <1>2 DEF selscroll
<1>4. t.ob = Higher(s.ob + n, r[1]) /\ t.oe = Lower(s.oe + n, r[2])
  BY <1>3 DEF Selections
<1> HIDE DEF t
<1>5. s.ob \in 0..r[2] \/ s.oe \in 0..r[2]
  BY DEF Moves
<1>6. /\ s.ob + n <= t.ob /\ (t.ob = s.ob + n \/ t.ob = r[1])
      /\ t.oe <= s.oe + n /\ (t.oe = s.oe + n \/ t.oe = r[2])
      /\ s.ob + n <= r[2] /\ s.oe + n >= r[1]
      /\ t.ob \in Int /\ t.oe \in Int
  BY <1>1, <1>2, <1>4 DEF Higher, Lower
<1>7. y \in Lower(t.ob, t.oe)..Higher(t.ob, t.oe)
  BY DEF t, Selected
<1>8. y \in Int /\ y >= Lower(s.ob, s.oe) + n /\ y <= Higher(s.ob, s.oe) + n
  BY <1>1, <1>6, <1>7 DEF Higher, Lower
<1> QED
  BY <1>1, <1>8 DEF Selected, Higher, Lower

\* A place that is kept is neither lost nor uncopied.
LEMMA PlacesFacts == /\ "uncopied" \in Places /\ "uncopied" # Kept /\ Kept \in Places
BY DEF Places, Kept

\* The place is lost with the help.
LEMMA HelpPlace == "help" \in Places /\ "help" # Kept
BY DEF Places, Ways, Kept

\* The operations of selection.c make the selection s, or none.
LEMMA BecomesFacts ==
  ASSUME lost \in Places, NEW s \in Selections, NEW way \in Places, Becomes(s, way)
  PROVE /\ sel' = s /\ sel' \in Selections /\ lost' \in Places
        /\ promised' => way = Kept /\ s.set /\ promised /\ copied' = copied
<1>1. s.set \in BOOLEAN
  BY DEF Selections
<1> QED
  BY <1>1, PlacesFacts DEF Becomes, promised

\* selclear leaves nothing that was selected.
LEMMA ClearFacts ==
  ASSUME lost \in Places, selclear
  PROVE sel' = NoSelection /\ sel' \in Selections /\ lost' \in Places /\ ~promised'
BY NoSelectionType, PlacesFacts DEF selclear, Becomes, promised

\* A step that promises nothing, and leaves the selection where it was made or
\* has one made here, keeps the invariant as long as the same Term is shown.
LEMMA Unpromised ==
  ASSUME IInv, UNCHANGED <<term, under>>, InWindow', ~promised',
         sel'.alt \in {FALSE, sel.alt, IsAlt}
  PROVE IInv'
BY DEF IInv, AltHidden, Copies, IsAlt

\* The same for selclear, and for steps that leave selection and lines alone.
LEMMA ClearKeeps ==
  ASSUME IInv, UNCHANGED <<term, under>>, selclear,
         hist' \in [Terms -> Int], scr' \in [Terms -> Int], region' \in [Terms -> Windows]
  PROVE IInv'
<1>1. InWindow' /\ ~promised' /\ sel'.alt = FALSE
  BY ClearFacts DEF IInv, InWindow, NoSelection
<1> QED
  BY <1>1, Unpromised

\* Steps that change lines no window row shows, or none, keep the invariant.
LEMMA UnseenStep ==
  ASSUME IInv, UNCHANGED <<term, under, hist, scr>>, UNCHANGED selVars,
         region' \in [Terms -> Windows]
  PROVE IInv'
<1>1. UNCHANGED <<sel, copied, lost>>
  BY DEF selVars
<1>2. InWindow' /\ AltHidden'
  BY <1>1 DEF IInv, InWindow, AltHidden
<1>3. LinesAt(Selected(sel))' = LinesAt(Selected(sel))
  BY <1>1 DEF LinesAt
<1> QED
  BY <1>1, <1>2, <1>3 DEF IInv, Copies, IsAlt, promised

\* selextend does not move the selection to another screen.
LEMMA ExtendedAlt ==
  ASSUME NEW s \in Selections, NEW y \in Row, NEW d \in BOOLEAN
  PROVE Extended(s, y, d).alt \in {FALSE, s.alt}
BY DEF Extended, Selections, NoSelection

\* Copying a selection promises its rows as they are shown now.
LEMMA CopyKeeps ==
  ASSUME IInv, UNCHANGED viewVars, NEW s \in Selections, Copy(s),
         s.alt \in {FALSE, sel.alt, IsAlt}
  PROVE IInv'
<1>0. lost \in Places /\ UNCHANGED <<term, under, hist, scr, region>>
  BY DEF IInv, InWindow, viewVars
<1>1. CASE s.set /\ sel' = s /\ lost' = Kept /\ copied' = LinesAt(Selected(s))
  <2>1. InWindow'
    BY <1>0, <1>1, PlacesFacts DEF IInv, InWindow
  <2>2. LinesAt(Selected(sel))' = copied'
    BY <1>0, <1>1 DEF LinesAt
  <2> QED
    BY <1>0, <1>1, <2>1, <2>2 DEF IInv, AltHidden, Copies, IsAlt
<1>2. CASE selclear
  <2>1. InWindow' /\ ~promised' /\ sel'.alt = FALSE
    BY <1>0, <1>2, ClearFacts DEF IInv, InWindow, NoSelection
  <2> QED
    BY <1>0, <2>1, Unpromised
<1>3. CASE ~s.set /\ Becomes(s, "uncopied")
  <2>1. sel' = s /\ sel' \in Selections /\ lost' \in Places /\ ~promised'
    BY <1>0, <1>3, BecomesFacts, PlacesFacts
  <2>2. InWindow'
    BY <1>0, <2>1 DEF IInv, InWindow
  <2> QED
    BY <1>0, <2>1, <2>2, Unpromised
<1> QED
  BY <1>1, <1>2, <1>3 DEF Copy

\* The mouse.
LEMMA MouseKeeps ==
  ASSUME IInv, Mouse
  PROVE IInv'
<1>0. /\ lost \in Places /\ sel \in Selections /\ UNCHANGED viewVars
      /\ UNCHANGED <<term, under, hist, scr, region>>
  BY DEF IInv, InWindow, Mouse, Press, Motion, Release, viewVars
<1>1. CASE Press
  <2>1. PICK y \in Row, m \in {"empty", "ready"} : Becomes(Started(y, m), "uncopied")
    BY <1>1 DEF Press
  <2>2. sel' = Started(y, m) /\ sel' \in Selections /\ lost' \in Places /\ ~promised'
    BY <1>0, <2>1, StartedType, BecomesFacts, PlacesFacts
  <2>3. InWindow' /\ sel'.alt = IsAlt
    BY <1>0, <2>2 DEF IInv, InWindow, Started
  <2> QED
    BY <1>0, <2>2, <2>3, Unpromised
<1>2. CASE Motion
  <2>1. PICK y \in Row : Becomes(Extended(sel, y, FALSE), "uncopied")
    BY <1>2 DEF Motion
  <2>2. /\ sel' = Extended(sel, y, FALSE)
        /\ sel' \in Selections /\ lost' \in Places /\ ~promised'
    BY <1>0, <2>1, ExtendedType, BecomesFacts, PlacesFacts
  <2>3. InWindow' /\ sel'.alt \in {FALSE, sel.alt}
    BY <1>0, <2>2, ExtendedAlt DEF IInv, InWindow
  <2> QED
    BY <1>0, <2>2, <2>3, Unpromised
<1>3. CASE Release
  <2>1. PICK y \in Row : Copy(Extended(sel, y, TRUE))
    BY <1>3 DEF Release
  <2> QED
    BY <1>0, <2>1, ExtendedType, ExtendedAlt, CopyKeeps
<1> QED
  BY <1>1, <1>2, <1>3 DEF Mouse

\* Selecting with the keyboard.
LEMMA KeyboardKeeps ==
  ASSUME IInv, Keyboard
  PROVE IInv'
<1>0. /\ lost \in Places /\ sel \in Selections /\ UNCHANGED viewVars
      /\ UNCHANGED <<term, under, hist, scr, region>>
      /\ hist' \in [Terms -> Int] /\ scr' \in [Terms -> Int] /\ region' \in [Terms -> Windows]
  BY DEF IInv, InWindow, Keyboard, keyboard_select, KbdToggle, KbdMove, KbdShape,
         KbdLine, KbdLeave, viewVars
<1>1. CASE UNCHANGED selVars
  BY <1>0, <1>1, UnseenStep
<1>2. CASE selclear
  BY <1>0, <1>2, ClearKeeps
<1>3. ASSUME NEW y \in Row, NEW m \in {"empty", "ready"}, Becomes(Started(y, m), "uncopied")
      PROVE IInv'
  <2>1. sel' = Started(y, m) /\ sel' \in Selections /\ lost' \in Places /\ ~promised'
    BY <1>0, <1>3, StartedType, BecomesFacts, PlacesFacts
  <2>2. InWindow' /\ sel'.alt = IsAlt
    BY <1>0, <2>1 DEF IInv, InWindow, Started
  <2> QED
    BY <1>0, <2>1, <2>2, Unpromised
<1>4. ASSUME NEW y \in Row, Copy(Extended(sel, y, FALSE))
      PROVE IInv'
  BY <1>0, <1>4, ExtendedType, ExtendedAlt, CopyKeeps
<1>5. ASSUME NEW y \in Row, Copy(Extended(Started(y, "empty"), y, FALSE))
      PROVE IInv'
  <2> DEFINE s == Started(y, "empty")
  <2>1. s \in Selections /\ s.alt = IsAlt
    BY StartedType DEF Started
  <2> HIDE DEF s
  <2>2. Extended(s, y, FALSE) \in Selections /\ Extended(s, y, FALSE).alt \in {FALSE, IsAlt}
    BY <2>1, ExtendedType, ExtendedAlt
  <2> QED
    BY <1>0, <1>5, <2>2, CopyKeeps DEF s
<1>6. ASSUME NEW y \in Row,
             Becomes(Extended(sel, y, FALSE), IF sel.mode = "idle" THEN Kept ELSE "uncopied")
      PROVE IInv'
  <2>1. /\ sel' = Extended(sel, y, FALSE) /\ sel' \in Selections /\ lost' \in Places
        /\ promised' => sel.mode = "idle" /\ promised /\ copied' = copied
    BY <1>0, <1>6, ExtendedType, BecomesFacts, PlacesFacts
  <2>2. InWindow' /\ sel'.alt \in {FALSE, sel.alt}
    BY <1>0, <2>1, ExtendedAlt DEF IInv, InWindow
  <2>3. CASE promised'
    <3>1. sel' = sel /\ UNCHANGED <<lost, copied>>
      BY <2>1, <2>3 DEF Extended, promised
    <3> QED
      BY <1>0, <3>1, UnseenStep DEF selVars
  <2>4. CASE ~promised'
    BY <1>0, <2>2, <2>4, Unpromised
  <2> QED
    BY <2>1, <2>3, <2>4
<1> QED
  BY <1>1, <1>2, <1>3, <1>4, <1>5, <1>6
  DEF Keyboard, keyboard_select, KbdToggle, KbdMove, KbdShape, KbdLine, KbdLeave

\* View moves the selection with the lines it shows.
LEMMA ViewKeeps ==
  ASSUME IInv, UNCHANGED <<term, under, hist, region>>,
         NEW s \in Int, NEW n \in Int, View(s, n)
  PROVE IInv'
<1> DEFINE r == region[term]
           t == selscroll(sel, n, r)
           way == IF n # s - scr[term] THEN "distance"
                  ELSE IF sel.alt # IsAlt THEN "screen"
                  ELSE IF Moves(sel, r) THEN Kept ELSE "region"
<1>0. /\ lost \in Places /\ sel \in Selections /\ term \in Terms
      /\ hist \in [Terms -> Int] /\ scr \in [Terms -> Int] /\ r \in Windows
      /\ region' \in [Terms -> Windows]
  BY DEF IInv, InWindow
<1>1. t \in Selections /\ t.alt \in {FALSE, sel.alt}
  <2>1. t \in Selections
    BY <1>0, ScrolledType
  <2> QED
    BY <1>0, <2>1 DEF selscroll, NoSelection, Selections
<1>2. scr' = [scr EXCEPT ![term] = s] /\ Becomes(t, way)
  BY DEF View
<1>a. /\ way \in Places
      /\ way = Kept => n = s - scr[term] /\ sel.alt = IsAlt /\ Moves(sel, r)
  BY DEF Places, Ways, Kept
<1> HIDE DEF t, way
<1>3. /\ sel' = t /\ lost' \in Places
      /\ promised' => /\ n = s - scr[term] /\ sel.alt = IsAlt /\ Moves(sel, r)
                      /\ t.set /\ promised /\ copied' = copied
  BY <1>0, <1>1, <1>2, <1>a, BecomesFacts
<1>4. InWindow' /\ scr'[term] = s
  BY <1>0, <1>1, <1>2, <1>3 DEF IInv, InWindow
<1>5. CASE ~promised'
  BY <1>1, <1>3, <1>4, <1>5, Unpromised
<1>6. CASE promised'
  <2>1. \A y \in Selected(t) : y - n \in Selected(sel)
    BY <1>0, <1>3, <1>6, ScrolledRows DEF t
  <2>2. LinesAt(Selected(sel)) \subseteq copied
    BY <1>3, <1>6 DEF IInv, Copies
  <2>3. ASSUME NEW y \in Selected(t)
        PROVE <<term, hist[term] - s + y>> \in copied
    <3>1. <<term, hist[term] - scr[term] + (y - n)>> \in copied
      BY <2>1, <2>2, <2>3 DEF LinesAt
    <3>2. y \in Int /\ hist[term] \in Int /\ scr[term] \in Int
      <4>1. t.ob \in Int /\ t.oe \in Int
        BY <1>1, RowFacts DEF Selections
      <4> QED
        BY <1>0, <2>3, <4>1 DEF Selected, Higher, Lower
    <3>3. hist[term] - scr[term] + (y - n) = hist[term] - s + y
      BY <1>3, <1>6, <3>2
    <3> QED
      BY <3>1, <3>3
  <2>4. LinesAt(Selected(sel))' \subseteq copied'
    BY <1>3, <1>4, <1>6, <2>3 DEF LinesAt
  <2>5. AltHidden'
    BY <1>1, <1>3 DEF IInv, AltHidden
  <2> QED
    BY <1>3, <1>4, <1>6, <2>4, <2>5 DEF IInv, Copies
<1> QED
  BY <1>3, <1>5, <1>6

\* The keys that scroll, and a key for the program.
LEMMA ScrollKeeps ==
  ASSUME IInv, Scroll \/ Key
  PROVE IInv'
<1>1. UNCHANGED <<term, under, hist, region>>
  BY DEF Scroll, Key
<1>2. scr[term] \in Int /\ hist[term] \in Int /\ HistSize \in Int
  BY SizeAssumption DEF IInv, InWindow
<1>3. Top \in Int
  BY <1>2 DEF Top, Lower
<1>4. ASSUME NEW n \in Int, kscrolldown(n)
      PROVE IInv'
  <2>1. Lower(n, scr[term]) \in Int
    BY <1>2 DEF Lower
  <2>2. scr[term] - Lower(n, scr[term]) \in Int /\ -Lower(n, scr[term]) \in Int
    BY <1>2, <2>1
  <2> QED
    BY <1>1, <1>4, <2>2, ViewKeeps DEF kscrolldown
<1>5. CASE kscrollup
  <2>1. PICK n \in 0..Rows : View(Lower(scr[term] + n, hist[term]), n)
    BY <1>5 DEF kscrollup
  <2>2. n \in Int
    BY SizeAssumption
  <2>3. Lower(scr[term] + n, hist[term]) \in Int
    BY <1>2, <2>2 DEF Lower
  <2> QED
    BY <1>1, <2>1, <2>2, <2>3, ViewKeeps
<1>6. CASE scrolltotop
  BY <1>1, <1>3, <1>6, ViewKeeps DEF scrolltotop
<1>7. CASE scrolltobottom
  BY <1>1, <1>7, ViewKeeps DEF scrolltobottom
<1>8. CASE ToMark
  <2>1. PICK s \in 0..hist[term] : View(s, s)
    BY <1>8 DEF ToMark
  <2>2. s \in Int
    BY <1>2
  <2> QED
    BY <1>1, <2>1, <2>2, ViewKeeps
<1>9. CASE \E n \in 0..Rows : kscrolldown(n)
  <2>1. PICK n \in 0..Rows : kscrolldown(n)
    BY <1>9
  <2>2. n \in Int
    BY SizeAssumption
  <2> QED
    BY <1>4, <2>1, <2>2
<1>10. CASE Key
  BY <1>2, <1>4, <1>10 DEF Key
<1> QED
  BY <1>5, <1>6, <1>7, <1>8, <1>9, <1>10 DEF Scroll

\* A change of the screen's rows takes no highlighted line.
LEMMA ChangedKeeps ==
  ASSUME IInv, UNCHANGED viewVars, NEW ys \in SUBSET Row, NEW sure \in BOOLEAN, Changed(ys, sure),
         sure => ~sel.set \/ \A y \in ys : y + scr[term] \notin Selected(sel)
  PROVE IInv'
<1>0. /\ lost \in Places /\ sel \in Selections
      /\ UNCHANGED <<term, under, hist, scr, region>>
      /\ hist[term] \in Int /\ scr[term] \in Int
  BY DEF IInv, InWindow, viewVars
<1>1. CASE sel' = sel /\ lost' = "text"
  <2>1. InWindow' /\ ~promised'
    BY <1>0, <1>1 DEF IInv, InWindow, Places, Ways, Kept, promised
  <2> QED
    BY <1>0, <1>1, <2>1, Unpromised
<1>2. CASE /\ UNCHANGED <<sel, lost>>
           /\ copied' = copied \ {<<term, hist[term] + y>> : y \in ys}
           /\ promised /\ sel.set /\ sel.alt = IsAlt => \A y \in ys : y + scr[term] \notin Selected(sel)
  <2>1. InWindow' /\ AltHidden'
    BY <1>0, <1>2 DEF IInv, InWindow, AltHidden
  <2>2. CASE promised /\ sel.alt = IsAlt
    <3>1. sel.set /\ LinesAt(Selected(sel)) \subseteq copied
      BY <2>2 DEF IInv, Copies
    <3>2. ASSUME NEW y \in Selected(sel)
          PROVE <<term, hist[term] - scr[term] + y>> \in copied'
      <4>1. y \in Int
        <5>1. sel.ob \in Int /\ sel.oe \in Int
          BY <1>0, RowFacts DEF Selections
        <5> QED
          BY <3>2, <5>1 DEF Selected, Higher, Lower
      <4>2. <<term, hist[term] - scr[term] + y>> \in copied
        BY <3>1, <3>2 DEF LinesAt
      <4>3. ASSUME NEW z \in ys, hist[term] - scr[term] + y = hist[term] + z
            PROVE FALSE
        <5>1. z \in Int
          BY RowFacts
        <5>2. z + scr[term] = y
          BY <1>0, <4>1, <4>3, <5>1
        <5> QED
          BY <1>2, <2>2, <3>1, <3>2, <5>2
      <4> QED
        BY <1>2, <4>2, <4>3
    <3>3. LinesAt(Selected(sel))' \subseteq copied'
      BY <1>0, <1>2, <3>2 DEF LinesAt
    <3> QED
      BY <1>2, <2>1, <3>1, <3>3 DEF IInv, Copies
  <2>3. CASE ~(promised /\ sel.alt = IsAlt)
    BY <1>0, <1>2, <2>1, <2>3 DEF IInv, Copies, IsAlt, promised
  <2> QED
    BY <2>2, <2>3
<1> QED
  BY <1>1, <1>2 DEF Changed, Highlighted, promised

\* The program's output, except switching screens.
LEMMA OutputKeeps ==
  ASSUME IInv, Write \/ Fill \/ Clear \/ ScrollUp \/ SetRegion
  PROVE IInv'
<1>0. /\ lost \in Places /\ sel \in Selections /\ term \in Terms
      /\ hist \in [Terms -> Int] /\ scr \in [Terms -> Int] /\ region \in [Terms -> Windows]
      /\ scr[term] \in Int /\ HistSize \in Int
  BY SizeAssumption DEF IInv, InWindow
<1>1. CASE Write
  <2>1. UNCHANGED viewVars /\ UNCHANGED <<term, under, hist, scr, region>>
    BY <1>1 DEF Write, viewVars
  <2>2. PICK y \in Row : \E z \in {y, Lower(y + 1, Last)} :
          IF WriteClears(y) THEN selclear
          ELSE Changed({z}, z = y /\ scr[term] = 0 /\ sel.ob <= sel.oe)
    BY <1>1 DEF Write
  <2>3. PICK z \in {y, Lower(y + 1, Last)} :
          IF WriteClears(y) THEN selclear
          ELSE Changed({z}, z = y /\ scr[term] = 0 /\ sel.ob <= sel.oe)
    BY <2>2
  <2>4. CASE selclear
    BY <1>0, <2>1, <2>4, ClearKeeps
  <2>5. CASE ~WriteClears(y) /\ Changed({z}, z = y /\ scr[term] = 0 /\ sel.ob <= sel.oe)
    <3>1. {z} \in SUBSET Row
      BY RowFacts DEF Lower
    <3>2. ASSUME z = y, scr[term] = 0, sel.ob <= sel.oe, sel.set
          PROVE z + scr[term] \notin Selected(sel)
      <4>1. sel.ob \in Int /\ sel.oe \in Int /\ y \in Int
        BY <1>0, RowFacts DEF Selections
      <4> QED
        BY <2>5, <3>2, <4>1 DEF WriteClears, Selected, Lower, Higher
    <3>3. sel.set \in BOOLEAN
      BY <1>0 DEF Selections
    <3> QED
      BY <2>1, <2>5, <3>1, <3>2, <3>3, ChangedKeeps
  <2> QED
    BY <2>3, <2>4, <2>5
<1>2. CASE Fill
  <2>1. PICK ys \in SUBSET Row : Changed(ys, FALSE)
    BY <1>2 DEF Fill
  <2> QED
    BY <1>2, <2>1, ChangedKeeps DEF Fill
<1>3. CASE Clear
  <2>1. UNCHANGED <<term, under, hist, scr, region>> /\ selclear
    BY <1>3 DEF Clear, viewVars
  <2> QED
    BY <1>0, <2>1, ClearKeeps
<1>4. CASE ScrollUp
  <2>1. /\ UNCHANGED <<term, under, region>> /\ selclear
        /\ hist' \in [Terms -> Int] /\ scr' \in [Terms -> Int]
    BY <1>0, <1>4 DEF ScrollUp, Lower
  <2> QED
    BY <1>0, <2>1, ClearKeeps
<1>5. CASE SetRegion
  <2>1. UNCHANGED <<term, under, hist, scr>> /\ UNCHANGED selVars
        /\ region' \in [Terms -> Windows]
    BY <1>0, <1>5, RegionsAssumption DEF SetRegion, Windows
  <2> QED
    BY <2>1, UnseenStep
<1> QED
  BY <1>1, <1>2, <1>3, <1>4, <1>5

\* A selection that is shown again after another screen promises nothing.
LEMMA SwitchKeeps ==
  ASSUME IInv, SwitchScreen \/ ShowHelp \/ QuitHelp
  PROVE IInv'
<1>0. /\ lost \in Places /\ sel \in Selections /\ term \in Terms /\ under \in Terms
      /\ hist \in [Terms -> Int] /\ scr \in [Terms -> Int] /\ region \in [Terms -> Windows]
      /\ sel.alt \in BOOLEAN
  BY DEF IInv, InWindow, Selections
<1>1. CASE SwitchScreen /\ term # "alt"
  <2>1. /\ term' = "alt" /\ UNCHANGED <<under, hist, scr, region>>
        /\ Becomes(sel, IF term = "shell" THEN Kept ELSE "help") \/ selclear
    BY <1>1 DEF SwitchScreen
  <2>2. AltHidden'
    BY <2>1 DEF AltHidden
  <2>3. CASE selclear
    <3>1. sel' \in Selections /\ lost' \in Places /\ ~promised'
      BY <1>0, <2>3, ClearFacts
    <3> QED
      BY <1>0, <2>1, <2>2, <3>1 DEF IInv, InWindow, Copies, Terms
  <2>4. CASE Becomes(sel, IF term = "shell" THEN Kept ELSE "help")
    <3> DEFINE way == IF term = "shell" THEN Kept ELSE "help"
    <3>a. way \in Places /\ (way = Kept => term = "shell")
      BY DEF Places, Ways, Kept
    <3> HIDE DEF way
    <3>b. Becomes(sel, way)
      BY <2>4 DEF way
    <3>1. sel' = sel /\ lost' \in Places /\ (promised' => term = "shell")
      BY <1>0, <3>a, <3>b, BecomesFacts
    <3>2. promised' => sel'.alt # IsAlt'
      BY <2>1, <3>1 DEF IInv, AltHidden, IsAlt
    <3> QED
      BY <1>0, <2>1, <2>2, <3>1, <3>2 DEF IInv, InWindow, Copies, Terms
  <2> QED
    BY <2>1, <2>3, <2>4
<1>2. CASE SwitchScreen /\ term = "alt"
  <2>1. /\ term' = "shell" /\ UNCHANGED <<under, hist, scr, region>> /\ selclear
    BY <1>2 DEF SwitchScreen
  <2>2. sel' \in Selections /\ sel'.alt = FALSE /\ lost' \in Places /\ ~promised'
    BY <1>0, <2>1, ClearFacts DEF NoSelection
  <2> QED
    BY <1>0, <2>1, <2>2 DEF IInv, InWindow, AltHidden, Copies, Terms
<1>3. CASE ShowHelp
  <2>1. /\ term # "help" /\ term' = "help" /\ under' = term /\ UNCHANGED region
        /\ hist' \in [Terms -> Int] /\ scr' \in [Terms -> Int]
    <3>1. hist' \in [Terms -> Int]
      BY <1>0, <1>3, SizeAssumption, LinesAssumption DEF ShowHelp, Terms
    <3>2. Lower(HistSize + 1, hist'["help"]) \in Int
      BY <3>1, SizeAssumption DEF Lower, Terms
    <3> QED
      BY <1>0, <1>3, <3>1, <3>2 DEF ShowHelp
  <2>2. PICK s \in Selections : Becomes(s, "help") /\ s.alt \in {FALSE, sel.alt}
    <3> DEFINE s == selscroll(sel, scr'["help"], region["help"])
    <3>1. s \in Selections
      BY <1>0, <2>1, ScrolledType DEF Terms
    <3>2. s.alt \in {FALSE, sel.alt}
      BY <1>0, <3>1 DEF selscroll, NoSelection, Selections
    <3>3. Becomes(s, "help") \/ Becomes(NoSelection, "help")
      BY <1>3 DEF ShowHelp
    <3>4. NoSelection.alt = FALSE
      BY DEF NoSelection
    <3> HIDE DEF s
    <3> QED
      BY <3>1, <3>2, <3>3, <3>4, NoSelectionType
  <2>3. sel' \in Selections /\ sel'.alt \in {FALSE, sel.alt} /\ lost' \in Places /\ ~promised'
    BY <1>0, <2>2, HelpPlace, BecomesFacts
  <2> QED
    BY <1>0, <2>1, <2>3 DEF IInv, InWindow, AltHidden, Copies, Terms
<1>4. CASE QuitHelp
  <2>1. /\ term = "help" /\ term' = under /\ UNCHANGED <<under, hist, scr, region>>
        /\ Becomes(sel, "help")
    BY <1>4 DEF QuitHelp
  <2>2. sel' = sel /\ lost' \in Places /\ ~promised'
    BY <1>0, <2>1, HelpPlace, BecomesFacts
  <2> QED
    BY <1>0, <2>1, <2>2 DEF IInv, InWindow, AltHidden, Copies
<1> QED
  BY <1>1, <1>2, <1>3, <1>4

\* At the start nothing is selected and nothing copied.
LEMMA InitFacts == Init => IInv
<1> SUFFICES ASSUME Init
             PROVE IInv
  OBVIOUS
<1>1. /\ hist \in [Terms -> Int] /\ scr \in [Terms -> Int] /\ region \in [Terms -> Windows]
      /\ term \in Terms /\ under \in Terms
  BY RowFacts DEF Init, Terms, Windows
<1>2. sel \in Selections /\ sel.alt = FALSE /\ lost \in Places /\ ~promised
  BY NoSelectionType, PlacesFacts DEF Init, NoSelection, promised
<1>3. term = "shell"
  BY DEF Init
<1> QED
  BY <1>1, <1>2, <1>3 DEF IInv, InWindow, AltHidden, Copies

\* Every step keeps the invariant.
LEMMA NextKeeps == IInv /\ [Next]_vars => IInv'
<1> SUFFICES ASSUME IInv, [Next]_vars
             PROVE IInv'
  OBVIOUS
<1>1. CASE Mouse
  BY <1>1, MouseKeeps
<1>2. CASE Keyboard
  BY <1>2, KeyboardKeeps
<1>3. CASE Scroll \/ Key
  BY <1>3, ScrollKeeps
<1>4. CASE Write \/ Fill \/ Clear \/ ScrollUp \/ SetRegion
  BY <1>4, OutputKeeps
<1>5. CASE SwitchScreen \/ ShowHelp \/ QuitHelp
  BY <1>5, SwitchKeeps
<1>6. CASE UNCHANGED vars
  <2>1. UNCHANGED <<term, under, hist, scr, region>> /\ UNCHANGED selVars
    BY <1>6 DEF vars, viewVars, selVars
  <2>2. region' \in [Terms -> Windows]
    BY <2>1 DEF IInv, InWindow
  <2> QED
    BY <2>1, <2>2, UnseenStep
<1> QED
  BY <1>1, <1>2, <1>3, <1>4, <1>5, <1>6 DEF Next, Output

\* The ends of the selection are rows of the window (and the state has its
\* types), although selscroll moves them with the view and clips them to a
\* scroll region: the loops over the selected rows stay in the screen.
THEOREM SelectionInWindow == Spec => []InWindow
<1>1. IInv => InWindow
  BY DEF IInv
<1> QED
  BY <1>1, InitFacts, NextKeeps, PTL DEF Spec

\* As long as a selection has its place, every row highlighted is a row copied
\* and unchanged since: through every scroll by selscroll's distance of the view
\* of its own screen, in which it or an end of it is inside the scroll region,
\* every character _tputc writes, every clearing, and every switch to the
\* alternate screen and back.  It is not promised after a scroll of another
\* distance, of a region above it or of another screen, after a change of its
\* text that _tputc does not see, and after the help (lost # Kept): there
\* selection.c moves the wrong rows, or none.  (selscroll, _tputc, tclearregion.)
THEOREM HighlightIsCopied == Spec => []HighlightCopied
<1>1. IInv => HighlightCopied
  BY DEF IInv, Copies, HighlightCopied, Promise, promised
<1> QED
  BY <1>1, InitFacts, NextKeeps, PTL DEF Spec
\* For a program whose scroll regions all reach to the last row, scrolls cannot
\* lose the selection below the region: the promise is then kept in spite of
\* scroll regions too, whatever their first row (selscroll's BETWEEN).
THEOREM RegionsToTheEnd == ASSUME \A r \in Regions : r[2] = Last
                           PROVE  Spec => []KeptByRegions
<1> DEFINE ToTheEnd == lost # "region" /\ \A t \in Terms : region[t][2] = Last
<1>1. Init => ToTheEnd
  BY DEF Init, Terms
<1>2. IInv /\ ToTheEnd /\ [Next]_vars => ToTheEnd'
  <2> SUFFICES ASSUME IInv, ToTheEnd, [Next]_vars
               PROVE  ToTheEnd'
    OBVIOUS
  <2>1. region \in [Terms -> Windows] /\ term \in Terms /\ sel \in Selections
    BY DEF IInv, InWindow
  <2>2. ASSUME NEW s, NEW way, way # "region", Becomes(s, way)
        PROVE  lost' # "region"
    BY <2>2 DEF Becomes, ToTheEnd
  <2>3. ASSUME NEW s, NEW n, View(s, n)
        PROVE  lost' # "region"
    <3>1. sel.set => Moves(sel, region[term])
      <4>1. sel.ob \in 0..Last
        BY <2>1, RowFacts DEF Selections, Row, Last
      <4>2. region[term][2] = Last
        BY <2>1 DEF ToTheEnd
      <4> QED
        BY <4>1, <4>2 DEF Moves
    <3>2. CASE ~sel.set
      <4>1. ~selscroll(sel, n, region[term]).set
        BY <3>2 DEF selscroll, Moves
      <4> QED
        BY <2>3, <4>1 DEF View, Becomes
    <3>3. CASE sel.set
      BY <2>2, <2>3, <3>1, <3>3 DEF View, Kept
    <3> QED
      BY <3>2, <3>3
  <2>4. ASSUME NEW s, Copy(s)
        PROVE  lost' # "region"
    BY <2>2, <2>4 DEF Copy, selclear, Kept
  <2>5. ASSUME Scroll \/ Key \/ Output \/ Mouse \/ Keyboard
               \/ ShowHelp \/ QuitHelp \/ UNCHANGED vars
        PROVE  lost' # "region"
    <3>1. CASE Mouse
      BY <2>2, <2>4, <3>1 DEF Mouse, Press, Motion, Release
    <3>2. CASE Keyboard
      <4>1. UNCHANGED selVars => lost' # "region"
        BY DEF selVars, ToTheEnd
      <4>2. selclear => lost' # "region"
        BY <2>2 DEF selclear
      <4>3. CASE keyboard_select \/ KbdLeave
        BY <4>1, <4>2, <4>3 DEF keyboard_select, KbdLeave
      <4>4. CASE KbdToggle
        BY <2>2, <4>2, <4>4 DEF KbdToggle
      <4>5. CASE KbdMove \/ KbdLine
        BY <2>4, <4>5 DEF KbdMove, KbdLine
      <4>6. CASE KbdShape
        BY <2>2, <4>6 DEF KbdShape, Kept
      <4> QED
        BY <3>2, <4>3, <4>4, <4>5, <4>6 DEF Keyboard
    <3>3. CASE Scroll \/ Key
      BY <2>3, <3>3 DEF Scroll, Key, kscrollup, kscrolldown, scrolltotop, scrolltobottom, ToMark
    <3>4. CASE Output
      <4>1. selclear => lost' # "region"
        BY <2>2 DEF selclear
      <4>2. ASSUME NEW ys, NEW sure, Changed(ys, sure)
            PROVE  lost' # "region"
        BY <4>2 DEF Changed, ToTheEnd
      <4>3. CASE Write \/ Fill
        BY <4>1, <4>2, <4>3 DEF Write, Fill
      <4>4. CASE Clear \/ ScrollUp
        BY <4>1, <4>4 DEF Clear, ScrollUp
      <4>5. CASE SetRegion
        BY <4>5 DEF SetRegion, selVars, ToTheEnd
      <4>6. CASE SwitchScreen
        BY <2>2, <4>1, <4>6 DEF SwitchScreen, Kept
      <4> QED
        BY <3>4, <4>3, <4>4, <4>5, <4>6 DEF Output
    <3>5. CASE ShowHelp \/ QuitHelp
      BY <2>2, <3>5 DEF ShowHelp, QuitHelp
    <3>6. CASE UNCHANGED vars
      BY <3>6 DEF vars, selVars, ToTheEnd
    <3> QED
      BY <2>5, <3>1, <3>2, <3>3, <3>4, <3>5, <3>6
  <2>6. lost' # "region"
    BY <2>5 DEF Next
  <2>7. \A t \in Terms : region'[t][2] = Last
    <3>1. CASE UNCHANGED region
      BY <3>1 DEF ToTheEnd
    <3>2. CASE SetRegion
      BY <2>1, <3>2 DEF SetRegion, ToTheEnd
    <3>3. SetRegion \/ UNCHANGED region
      BY DEF Next, Mouse, Press, Motion, Release, Keyboard, keyboard_select, KbdToggle, KbdMove,
             KbdShape, KbdLine, KbdLeave, Scroll, Key, Output, Write, Fill, Clear, ScrollUp,
             SwitchScreen, ShowHelp, QuitHelp, vars, viewVars
    <3> QED
      BY <3>1, <3>2, <3>3
  <2> QED
    BY <2>6, <2>7
<1>3. IInv /\ ToTheEnd => KeptByRegions
  BY DEF IInv, Copies, KeptByRegions, Promise, promised, ToTheEnd
<1> QED
  BY <1>1, <1>2, <1>3, InitFacts, NextKeeps, PTL DEF Spec
===============================================================================
