---------------------------- MODULE MainLoop_proofs ----------------------------
(***************************************************************************)
(* Theorems about MainLoop, for every number of rows, of lines in the      *)
(* history, of events on their way and of rounds with the short interval.  *)
(***************************************************************************)
EXTENDS MainLoop, SequenceTheorems, TLAPS

Typed ==
  /\ xin \in Seq(Events)
  /\ timeout \in BOOLEAN /\ blinkset \in BOOLEAN /\ visible \in BOOLEAN
  /\ statusvisible \in BOOLEAN /\ copied \in BOOLEAN
  /\ scroll_bottom \in Row /\ scr \in Nat /\ hist \in Nat
  /\ dirty \subseteq Row

\* What is to be drawn is drawn, but for what the server has reported since.
Painted == visible => dirty = {} /\ (copied \/ xin # <<>>)

\* The loop goes to wait without a timeout only from a drawing, and nothing that it
\* does from there to the next drawing is before a pselect of its own.
WaitsPainted ==
  /\ pc = "rest" => Painted
  /\ pc = "select" /\ ~timeout => Painted /\ ~blinkset

SInv == Typed /\ WaitsPainted

LEMMA RowFacts ==
  /\ Rows \in Nat /\ Rows >= 1 /\ Last \in Row /\ Row \subseteq Int
  /\ \A y \in Row : 0 <= y /\ y < Rows
BY RowsAssumption DEF Row, Last

\* Drawing cleans the rows or leaves them to be drawn.
LEMMA DrawTyped ==
  ASSUME NEW d \in SUBSET Row, NEW st, NEW rows, Draw(d, st, rows), copied \in BOOLEAN
  PROVE /\ dirty' \subseteq Row /\ copied' \in BOOLEAN
        /\ visible => dirty' = {} /\ copied'
BY DEF Draw

\* The program's output.
LEMMA ReadTyped ==
  ASSUME Typed, Read
  PROVE Typed'
<1>1. UNCHANGED <<xin, timeout, visible>>
  BY DEF Read
<1>2. CASE UNCHANGED <<output, blinkset, viewVars, paintVars>>
  BY <1>1, <1>2 DEF Typed, viewVars, paintVars
<1>3. CASE blinkset' \in BOOLEAN /\ Write
  <2>1. PICK y \in Row : dirty' = dirty \cup RowDirt(y) /\ UNCHANGED <<viewVars, copied>>
    BY <1>3 DEF Write
  <2> QED
    BY <1>1, <1>3, <2>1 DEF Typed, RowDirt, viewVars
<1>4. CASE blinkset' \in BOOLEAN /\ (ScrollUp \/ ScrollDown)
  <2>1. \A orig \in 0 .. scroll_bottom : orig .. scroll_bottom \subseteq Row
    BY RowsAssumption DEF Typed, Row
  <2>2. CASE ScrollUp
    <3>1. PICK orig \in 0 .. scroll_bottom, copyhist \in BOOLEAN :
            /\ hist' = IF orig = 0 /\ copyhist /\ hist < Lines THEN hist + 1 ELSE hist
            /\ scr' = IF scr > 0 /\ scr < Lines - 1 THEN scr + 1 ELSE scr
            /\ dirty' = dirty \cup (orig .. scroll_bottom)
            /\ UNCHANGED <<statusvisible, scroll_bottom, copied>>
      BY <2>2 DEF ScrollUp
    <3>2. scr' \in Nat /\ hist' \in Nat
      BY <3>1 DEF Typed
    <3> QED
      BY <1>1, <1>4, <2>1, <3>1, <3>2 DEF Typed
  <2>3. CASE ScrollDown
    BY <1>1, <1>4, <2>1, <2>3 DEF Typed, ScrollDown, viewVars
  <2> QED
    BY <1>4, <2>2, <2>3
<1>5. CASE blinkset' \in BOOLEAN /\ SetRegion
  BY <1>1, <1>5 DEF Typed, SetRegion, paintVars
<1>6. CASE blinkset' \in BOOLEAN /\ ReverseVideo
  <2>1. Draw(Row, statusvisible, shown) /\ UNCHANGED viewVars
    BY <1>6 DEF ReverseVideo, Redraw
  <2>2. dirty' \subseteq Row /\ copied' \in BOOLEAN
    BY <2>1, DrawTyped DEF Typed
  <2> QED
    BY <1>1, <1>6, <2>1, <2>2 DEF Typed, viewVars
<1> QED
  BY <1>2, <1>3, <1>4, <1>5, <1>6 DEF Read

\* The handlers of the X events.
LEMMA EventTyped ==
  ASSUME Typed, HandleEvent
  PROVE Typed'
<1>1. /\ xin # <<>> /\ xin' = Tail(xin) /\ Handle(Head(xin))
      /\ UNCHANGED <<timeout, blinkset>> /\ Head(xin) \in Events /\ xin' \in Seq(Events)
  BY HeadTailProperties DEF HandleEvent, Typed, loopVars
<1>2. CASE KeyUp \/ KeyBottom
  <2>1. /\ UNCHANGED <<statusvisible, scroll_bottom, hist, visible>>
        /\ copied' = copied /\ dirty' \in {dirty, Row}
    BY <1>2 DEF KeyUp, KeyBottom, FullDirt, paintVars
  <2>2. scr' \in Nat
    BY <1>2 DEF KeyUp, KeyBottom, FullDirt, Typed
  <2> QED
    BY <1>1, <2>1, <2>2 DEF Typed
<1>3. CASE LessOn \/ LessOff \/ Expose
  <2>1. /\ UNCHANGED <<scroll_bottom, scr, hist, visible>> /\ statusvisible' \in BOOLEAN
    BY <1>3 DEF LessOn, LessOff, Expose, viewVars, Typed
  <2>2. dirty' \subseteq Row /\ copied' \in BOOLEAN
    BY <1>3, DrawTyped DEF LessOn, LessOff, Expose, Hidden, Redraw, paintVars, Typed
  <2> QED
    BY <1>1, <2>1, <2>2 DEF Typed
<1>4. CASE Resize \/ Visibility(TRUE) \/ Visibility(FALSE)
  BY <1>1, <1>4, RowFacts DEF Resize, Visibility, viewVars, paintVars, Typed
<1>5. \/ KeyUp \/ KeyBottom \/ LessOn \/ LessOff \/ Expose
      \/ Visibility(TRUE) \/ Visibility(FALSE) \/ Resize
  BY <1>1 DEF Handle, Events
<1> QED
  BY <1>2, <1>3, <1>4, <1>5

\* The server's reports.
LEMMA ArrivalFacts ==
  ASSUME Typed, Arrival
  PROVE /\ xin' \in Seq(Events) /\ xin' # <<>>
        /\ UNCHANGED <<loopVars, output, visible, viewVars, dirty, shown>>
        /\ copied' \in BOOLEAN
<1>1. PICK e \in Events :
        /\ xin' = IF e = "visible" THEN xin \o <<e, "expose">> ELSE Append(xin, e)
        /\ copied' = (copied /\ e \notin {"visible", "expose"})
  BY DEF Arrival
<1>2. xin \in Seq(Events) /\ Len(xin) \in Nat
  BY LenProperties DEF Typed
<1>3. /\ copied' \in BOOLEAN
      /\ UNCHANGED <<loopVars, output, visible, viewVars, dirty, shown>>
  BY <1>1 DEF Arrival, Typed
<1>4. CASE e = "visible"
  <2>1. "expose" \in Events
    BY DEF Events
  <2>2. <<e, "expose">> \in Seq(Events) /\ Len(<<e, "expose">>) = 2
    BY <2>1
  <2>3. xin' \in Seq(Events) /\ Len(xin') = Len(xin) + 2
    BY <1>1, <1>2, <1>4, <2>2, ConcatProperties
  <2>4. xin' # <<>>
    BY <1>2, <2>3, EmptySeq
  <2> QED
    BY <1>3, <2>3, <2>4
<1>5. CASE e # "visible"
  <2>1. xin' \in Seq(Events) /\ Len(xin') = Len(xin) + 1
    BY <1>1, <1>2, <1>5, AppendProperties
  <2>2. xin' # <<>>
    BY <1>2, <2>1, EmptySeq
  <2> QED
    BY <1>3, <2>1, <2>2
<1> QED
  BY <1>4, <1>5

\* Every step keeps the types.
LEMMA NextTyped ==
  ASSUME Typed, [Next]_vars
  PROVE Typed'
<1>1. CASE Read \/ HandleEvent
  BY <1>1, ReadTyped, EventTyped
<1>2. CASE Arrival
  BY <1>2, ArrivalFacts DEF Typed, loopVars, viewVars
<1>3. CASE Decide
  <2>1. /\ timeout' = TRUE
        /\ dirty' = dirty \/ \E blinking \in SUBSET (0 .. Rows - 2) : dirty' = dirty \cup blinking
        /\ UNCHANGED <<blinkset, xin, visible, viewVars, copied>>
    BY <1>3 DEF Decide
  <2>2. 0 .. Rows - 2 \subseteq Row
    BY RowsAssumption DEF Row
  <2> QED
    BY <2>1, <2>2 DEF Typed, viewVars
<1>4. CASE DrawAll
  <2>1. Draw(dirty, statusvisible, shown) /\ UNCHANGED <<timeout, blinkset, xin, visible, viewVars>>
    BY <1>4 DEF DrawAll
  <2>2. dirty' \subseteq Row /\ copied' \in BOOLEAN
    BY <2>1, DrawTyped DEF Typed
  <2> QED
    BY <2>1, <2>2 DEF Typed, viewVars
<1>5. CASE Rest
  BY <1>5 DEF Rest, Typed, viewVars, paintVars
<1>6. CASE Select \/ EventsDone \/ Tick \/ ProgramWrites \/ UNCHANGED vars
  BY <1>6 DEF Select, EventsDone, Tick, ProgramWrites, vars, Typed, loopVars, viewVars, paintVars
<1> QED
  BY <1>1, <1>2, <1>3, <1>4, <1>5, <1>6 DEF Next, Round

\* The start: the window is not visible yet.
LEMMA InitTyped == Init => SInv
<1> SUFFICES ASSUME Init
             PROVE SInv
  OBVIOUS
<1>1. xin \in Seq(Events)
  BY DEF Init, Events
<1>2. Typed
  BY <1>1, RowFacts DEF Init, Typed
<1>3. WaitsPainted
  BY DEF Init, WaitsPainted, Painted
<1> QED
  BY <1>2, <1>3 DEF SInv

\* Nothing is left to be drawn where the loop may wait without end.
LEMMA NextPainted ==
  ASSUME SInv, [Next]_vars
  PROVE WaitsPainted'
<1>0. Typed /\ WaitsPainted
  BY DEF SInv
<1>1. CASE Read \/ HandleEvent \/ EventsDone \/ Select
  <2>1. pc' \in {"decide", "events", "draw", "read"}
    BY <1>1 DEF Read, HandleEvent, EventsDone, Select, loopVars
  <2> QED
    BY <2>1 DEF WaitsPainted
<1>2. CASE Decide
  <2>1. timeout' = TRUE /\ pc' \in {"select", "events"}
    BY <1>2 DEF Decide
  <2> QED
    BY <2>1 DEF WaitsPainted
<1>3. CASE DrawAll
  <2>1. /\ pc' = "rest" /\ Draw(dirty, statusvisible, shown)
        /\ visible' = visible
    BY <1>3 DEF DrawAll
  <2>2. visible => dirty' = {} /\ copied'
    BY <1>0, <2>1, DrawTyped DEF Typed
  <2> QED
    BY <2>1, <2>2 DEF WaitsPainted, Painted
<1>4. CASE Rest
  <2>1. /\ pc = "rest" /\ timeout' = (rfd # {} \/ blinkset) /\ blinkset' = blinkset
        /\ pc' = "select" /\ UNCHANGED <<xin, visible, paintVars>>
    BY <1>4 DEF Rest
  <2>2. Painted'
    BY <1>0, <2>1 DEF WaitsPainted, Painted, paintVars
  <2> QED
    BY <2>1, <2>2 DEF WaitsPainted
<1>5. CASE Arrival
  <2>1. xin' # <<>> /\ UNCHANGED <<pc, timeout, blinkset, visible, dirty>>
    BY <1>0, <1>5, ArrivalFacts DEF loopVars
  <2> QED
    BY <1>0, <2>1 DEF WaitsPainted, Painted
<1>6. CASE Tick \/ ProgramWrites \/ UNCHANGED vars
  BY <1>0, <1>6 DEF Tick, ProgramWrites, vars, WaitsPainted, Painted, loopVars, viewVars, paintVars
<1> QED
  BY <1>1, <1>2, <1>3, <1>4, <1>5, <1>6 DEF Next, Round

\* When the loop waits without end, the visible window is up to date: what was
\* exposed, scrolled or written since the last drawing wakes it.  (run, draw.)
THEOREM SleepsDrawn == Spec => []SleepsUpToDate
<1>1. SInv /\ [Next]_vars => SInv'
  BY NextTyped, NextPainted DEF SInv
<1>2. SInv => SleepsUpToDate
  <2> SUFFICES ASSUME SInv, Asleep, visible
               PROVE dirty = {} /\ copied /\ ~blinkset
    BY DEF SleepsUpToDate
  <2>1. xin = <<>>
    BY DEF Asleep, Ready
  <2> QED
    BY <2>1 DEF SInv, WaitsPainted, Painted, Asleep
<1> QED
  BY <1>1, <1>2, InitTyped, PTL DEF Spec

-----------------------------------------------------------------------------
(***************************************************************************)
(* The rows that are not dirty.  Of a row that is not drawn at once, every *)
(* change marks it, while the view is at the bottom; what goes back to the *)
(* bottom marks all rows.  Only the status bar is hidden without marking   *)
(* its row: it is drawn where the scroll region ends, and that is the last *)
(* row as long as the program sets no region.                              *)
(***************************************************************************)
Clean(y) == y \notin dirty => shown[y] = Belongs(y)

CInv == Typed /\ scroll_bottom = Last /\ (scr = 0 => \A y \in Row : Clean(y))

LEMMA AgedFacts ==
  ASSUME NEW ys, NEW y \in Row
  PROVE y \notin ys => Aged(ys)[y] = shown[y]
BY DEF Aged

\* What draw leaves clean shows what belongs there, if what was clean did.
LEMMA DrawCleans ==
  ASSUME NEW d \in SUBSET Row, NEW st \in BOOLEAN, NEW rows, Draw(d, st, rows), st = statusvisible',
         \A y \in Row \ d : rows[y] = IF st /\ y = Last THEN "status" ELSE "line"
  PROVE \A y \in Row : Clean(y)'
<1> SUFFICES ASSUME NEW y \in Row, y \notin dirty'
             PROVE shown'[y] = IF st /\ y = Last THEN "status" ELSE "line"
  BY DEF Clean, Belongs
<1>1. CASE visible
  <2>1. shown' = Drawn(0, Rows, d, st, rows)
    BY <1>1 DEF Draw
  <2>2. shown'[y] = IF y = Last /\ st THEN "status" ELSE IF y \in d THEN "line" ELSE rows[y]
    BY <2>1, RowFacts DEF Drawn
  <2> QED
    BY <2>2
<1>2. CASE ~visible
  BY <1>2 DEF Draw
<1> QED
  BY <1>1, <1>2

\* Rows are changed, and marked, and the view stays where it is.
LEMMA MarkedClean ==
  ASSUME NEW ys, CInv, scr = 0, statusvisible' = statusvisible,
         shown' = Aged(ys), dirty' = dirty \cup ys
  PROVE \A y \in Row : Clean(y)'
BY AgedFacts DEF CInv, Clean, Belongs

\* Rows are marked, and nothing else happens to them.
LEMMA SameClean ==
  ASSUME CInv, scr = 0, UNCHANGED <<statusvisible, shown>>, dirty \subseteq dirty'
  PROVE \A y \in Row : Clean(y)'
BY DEF CInv, Clean, Belongs

\* The program's output, with no scroll region.
LEMMA ReadClean ==
  ASSUME CInv, ~Regions, Read
  PROVE scroll_bottom' = Last /\ (scr' = 0 => \A y \in Row : Clean(y)')
<1>1. CASE UNCHANGED <<viewVars, paintVars>>
  BY <1>1, SameClean DEF CInv, viewVars, paintVars
<1>2. CASE Write
  <2>1. PICK y \in Row : /\ shown' = Aged({y + scr} \cap Row) /\ dirty' = dirty \cup {y}
                         /\ UNCHANGED viewVars
    BY <1>2 DEF Write, RowDirt
  <2>2. scr = 0 => {y + scr} \cap Row = {y}
    BY RowFacts
  <2> QED
    BY <2>1, <2>2, MarkedClean DEF CInv, viewVars
<1>3. CASE ScrollUp
  <2>1. PICK orig \in 0 .. scroll_bottom :
          /\ scr' = IF scr > 0 /\ scr < Lines - 1 THEN scr + 1 ELSE scr
          /\ shown' = Aged(IF scr = 0 THEN orig .. scroll_bottom ELSE Row)
          /\ dirty' = dirty \cup (orig .. scroll_bottom)
          /\ UNCHANGED <<statusvisible, scroll_bottom>>
    BY <1>3 DEF ScrollUp
  <2>2. scr' = 0 => scr = 0
    BY <2>1 DEF CInv, Typed
  <2> QED
    BY <2>1, <2>2, MarkedClean DEF CInv
<1>4. CASE ScrollDown
  <2>1. PICK orig \in 0 .. scroll_bottom :
          /\ shown' = Aged(IF scr = 0 THEN orig .. scroll_bottom ELSE Row)
          /\ dirty' = dirty \cup (orig .. scroll_bottom)
          /\ UNCHANGED viewVars
    BY <1>4 DEF ScrollDown
  <2> QED
    BY <2>1, MarkedClean DEF CInv, viewVars
<1>5. CASE ReverseVideo
  <2>1. Draw(Row, statusvisible, shown) /\ UNCHANGED viewVars
    BY <1>5 DEF ReverseVideo, Redraw
  <2>2. \A y \in Row : Clean(y)'
    BY <2>1, DrawCleans DEF CInv, Typed, viewVars
  <2> QED
    BY <2>1, <2>2 DEF CInv, viewVars
<1> QED
  BY <1>1, <1>2, <1>3, <1>4, <1>5 DEF Read, SetRegion

\* The handlers of the X events.
LEMMA EventClean ==
  ASSUME CInv, HandleEvent
  PROVE scroll_bottom' = Last /\ (scr' = 0 => \A y \in Row : Clean(y)')
<1>0. Typed /\ statusvisible \in BOOLEAN /\ scroll_bottom = Last /\ Handle(Head(xin))
      /\ Head(xin) \in Events
  BY HeadTailProperties DEF HandleEvent, CInv, Typed
<1>1. ASSUME dirty' = Row
      PROVE \A y \in Row : Clean(y)'
  BY <1>1 DEF Clean
<1>2. CASE KeyUp \/ KeyBottom
  <2>1. UNCHANGED <<statusvisible, scroll_bottom>> /\ (dirty' = Row \/ UNCHANGED <<scr, paintVars>>)
    BY <1>2 DEF KeyUp, KeyBottom, FullDirt
  <2> QED
    BY <1>0, <1>1, <2>1, SameClean DEF paintVars
<1>3. CASE LessOn
  <2>1. UNCHANGED <<scroll_bottom, scr>> /\ statusvisible' = TRUE
    BY <1>3 DEF LessOn
  <2>2. CASE statusvisible
    BY <1>0, <1>3, <2>1, <2>2, SameClean DEF LessOn, paintVars
  <2>3. CASE ~statusvisible
    <3>1. Draw(Row, TRUE, Aged(Row))
      BY <1>3, <2>3 DEF LessOn
    <3>2. \A y \in Row : Clean(y)'
      BY <2>1, <3>1, DrawCleans
    <3> QED
      BY <1>0, <2>1, <3>2
  <2> QED
    BY <2>2, <2>3
<1>4. CASE LessOff
  <2>1. UNCHANGED <<scroll_bottom, scr>> /\ statusvisible' = FALSE
    BY <1>4 DEF LessOff
  <2>2. CASE ~statusvisible
    BY <1>0, <1>4, <2>1, <2>2, SameClean DEF LessOff, paintVars
  <2>3. CASE statusvisible
    <3>1. /\ shown' = Drawn(Last, Last + 1, {Last}, FALSE, shown)
          /\ dirty' = dirty \ {Last}
      BY <1>0, <1>4, <2>3 DEF LessOff, Hidden
    <3>2. \A y \in Row : shown'[y] = IF y = Last THEN "line" ELSE shown[y]
      BY <3>1, RowFacts DEF Drawn
    <3> QED
      BY <1>0, <2>1, <3>1, <3>2 DEF CInv, Clean, Belongs
  <2> QED
    BY <2>2, <2>3
<1>5. CASE Expose
  <2>1. Draw(Row, statusvisible, shown) /\ UNCHANGED <<statusvisible, scroll_bottom, scr>>
    BY <1>5 DEF Expose, Redraw, viewVars
  <2>2. \A y \in Row : Clean(y)'
    BY <1>0, <2>1, DrawCleans
  <2> QED
    BY <1>0, <2>1, <2>2
<1>6. CASE Visibility(TRUE) \/ Visibility(FALSE)
  <2>1. UNCHANGED <<viewVars, paintVars>>
    BY <1>6 DEF Visibility
  <2> QED
    BY <1>0, <2>1, SameClean DEF viewVars, paintVars
<1>7. CASE Resize
  BY <1>1, <1>7 DEF Resize
<1>8. \/ KeyUp \/ KeyBottom \/ LessOn \/ LessOff \/ Expose
      \/ Visibility(TRUE) \/ Visibility(FALSE) \/ Resize
  BY <1>0 DEF Handle, Events
<1> QED
  BY <1>2, <1>3, <1>4, <1>5, <1>6, <1>7, <1>8

\* Every step keeps the rows that are not dirty right.
LEMMA NextClean ==
  ASSUME CInv, ~Regions, [Next]_vars
  PROVE CInv'
<1>0. Typed'
  BY NextTyped DEF CInv
<1> SUFFICES scroll_bottom' = Last /\ (scr' = 0 => \A y \in Row : Clean(y)')
  BY <1>0, RowFacts DEF CInv, Last
<1>1. CASE Read \/ HandleEvent
  BY <1>1, ReadClean, EventClean
<1>2. CASE Decide
  <2>1. UNCHANGED <<viewVars, shown>> /\ dirty \subseteq dirty'
    BY <1>2 DEF Decide
  <2> QED
    BY <2>1, SameClean DEF CInv, viewVars
<1>3. CASE DrawAll
  <2>1. Draw(dirty, statusvisible, shown) /\ UNCHANGED viewVars
    BY <1>3 DEF DrawAll
  <2>2. scr = 0 => \A y \in Row \ dirty : shown[y] = IF statusvisible /\ y = Last THEN "status" ELSE "line"
    BY DEF CInv, Clean, Belongs
  <2>3. scr = 0 => \A y \in Row : Clean(y)'
    BY <2>1, <2>2, DrawCleans DEF CInv, Typed, viewVars
  <2> QED
    BY <2>1, <2>3 DEF CInv, viewVars
<1>4. CASE Arrival
  BY <1>4, SameClean DEF Arrival, CInv, viewVars
<1>5. CASE Select \/ EventsDone \/ Rest \/ Tick \/ ProgramWrites \/ UNCHANGED vars
  <2>1. UNCHANGED <<viewVars, paintVars>>
    BY <1>5 DEF Select, EventsDone, Rest, Tick, ProgramWrites, vars
  <2> QED
    BY <2>1, SameClean DEF CInv, viewVars, paintVars
<1> QED
  BY <1>1, <1>2, <1>3, <1>4, <1>5 DEF Next, Round

\* If the program sets no scroll region, a row that is not marked dirty shows what
\* belongs there, the status bar included, while the view is at the bottom.  (With a
\* region it need not: hidestatus draws the row where the region ends.)
THEOREM CleanWithoutRegions == ~Regions /\ Spec => []CleanRowsRight
<1> SUFFICES ASSUME ~Regions
             PROVE Spec => []CleanRowsRight
  OBVIOUS
<1>1. Init => CInv
  <2> SUFFICES ASSUME Init
               PROVE CInv
    OBVIOUS
  <2>1. Typed
    BY InitTyped DEF SInv
  <2> QED
    BY <2>1 DEF Init, CInv, Clean
<1>2. CInv /\ [Next]_vars => CInv'
  BY NextClean
<1>3. CInv => CleanRowsRight
  BY DEF CInv, Clean, CleanRowsRight
<1> QED
  BY <1>1, <1>2, <1>3, PTL DEF Spec
=================================================================================
