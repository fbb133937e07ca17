------------------------------ MODULE MainLoop ------------------------------
(***************************************************************************)
(* run, slterm's event loop (xevent.c), and what the window shows: draw    *)
(* and drawregion (termdraw.c), the dirty flags of the rows, the status    *)
(* bar (statusbar.c).                                                      *)
(*                                                                         *)
(* The loop waits for output of the program and for X events, reads the    *)
(* output at once, and handles the events, and draws, only when enough     *)
(* time has passed since the last drawing.  After a drawing before which   *)
(* nothing had come it waits without a timeout: whatever is not drawn then *)
(* stays undrawn until something happens.                                  *)
(*                                                                         *)
(* Rows are drawn into a pixmap, which draw copies to the window.  What a  *)
(* row of the pixmap shows is one of three things: the line that belongs   *)
(* there, something older, or the status bar.  X events are read from the  *)
(* connection by the handlers' loop alone: drawing waits for no reply of   *)
(* the server, which could take events from the connection early.          *)
(***************************************************************************)
EXTENDS Integers, Sequences

CONSTANTS Rows,       \* rows of the window
          Lines,      \* lines the history holds
          QueueMax,   \* X events on their way, at most
          XevFrames,  \* 1 << actionfps_shift
          Regions     \* may the program set a scroll region?

ASSUME RowsAssumption == Rows \in Nat \ {0}

VARIABLES
  pc,        \* where run is: "select", "read", "decide", "events", "draw", "rest"
  rfd,       \* what pselect reported: a set of "tty" and "x"
  timeout,   \* has the next pselect a timeout?  (tv # NULL)
  since,     \* time since last: 0, 1 (above 1000 >> xfps_shift ms), 2 (above
             \* 1000 >> actionfps_shift ms)
  xev,       \* rounds to go with the short interval
  blinkset,  \* is there blinking text?
  output,    \* is there output of the program to read?
  xin,       \* X events on their way
  visible,   \* MODE_VISIBLE
  statusvisible,
  scroll_bottom,
  scr, hist, \* how far the view is scrolled back, lines in the history
  dirty,     \* the rows marked dirty
  shown,     \* what each row of the pixmap shows
  copied     \* does the window show the pixmap as it is?

loopVars == <<pc, rfd, timeout, since, xev, blinkset>>
viewVars == <<statusvisible, scroll_bottom, scr, hist>>
paintVars == <<dirty, shown, copied>>
vars == <<loopVars, output, xin, visible, viewVars, paintVars>>

Row == 0..Rows - 1
Last == Rows - 1

Init == /\ pc = "select" /\ rfd = {} /\ timeout = FALSE
        /\ since = 0 /\ xev = XevFrames /\ blinkset = FALSE
        /\ output = FALSE
        /\ xin = <<"visible", "expose">> \* the window was just mapped
        /\ visible = FALSE
        /\ statusvisible = FALSE /\ scroll_bottom = Last
        /\ scr = 0 /\ hist = 0
        /\ dirty = Row /\ shown = [y \in Row |-> "old"] /\ copied = FALSE

(***************************************************************************)
(* Drawing.                                                                *)
(***************************************************************************)
\* drawregion: the dirty rows of y1..y2-1 with their lines; the status bar on
\* the last row if y2 is behind it.
Drawn(y1, y2, dirt, status, rows) ==
  [y \in Row |-> IF y = Last /\ y2 = Rows /\ status THEN "status"
                 ELSE IF y \in dirt /\ y1 <= y /\ y < y2 THEN "line" ELSE rows[y]]

\* draw, with dirt the dirty rows and rows what the pixmap showed before.
Draw(dirt, status, rows) ==
  IF visible THEN /\ shown' = Drawn(0, Rows, dirt, status, rows)
                  /\ dirty' = {} /\ copied' = TRUE
             ELSE /\ dirty' = dirt /\ shown' = rows /\ UNCHANGED copied

\* The rows ys of the pixmap do not show their lines any more.
Aged(ys) == [y \in Row |-> IF y \in ys /\ shown[y] = "line" THEN "old" ELSE shown[y]]

Redraw == Draw(Row, statusvisible, shown)

(***************************************************************************)
(* The program's output.  A row of the screen is y + scr in the window.    *)
(***************************************************************************)
RowDirtMut(y) == {} \* tsetchar forgets to mark the row

RowDirt(y) == {y}

Write == \E y \in Row :
           /\ shown' = Aged({y + scr} \cap Row)
           /\ dirty' = dirty \cup RowDirt(y)
           /\ UNCHANGED <<viewVars, copied>>

\* tscrollup of the rows orig and below; with copyhist the first goes to the
\* history.  The view moves with its lines, while the history holds them.
ScrollUp == \E orig \in 0..scroll_bottom, copyhist \in BOOLEAN :
  /\ hist' = IF orig = 0 /\ copyhist /\ hist < Lines THEN hist + 1 ELSE hist
  /\ scr' = IF scr > 0 /\ scr < Lines - 1 THEN scr + 1 ELSE scr
  /\ shown' = Aged(IF scr = 0 THEN orig..scroll_bottom ELSE Row)
  /\ dirty' = dirty \cup (orig..scroll_bottom)
  /\ UNCHANGED <<statusvisible, scroll_bottom, copied>>

\* tscrolldown.
ScrollDown == \E orig \in 0..scroll_bottom :
  /\ shown' = Aged(IF scr = 0 THEN orig..scroll_bottom ELSE Row)
  /\ dirty' = dirty \cup (orig..scroll_bottom)
  /\ UNCHANGED <<viewVars, copied>>

SetRegion == /\ Regions
             /\ scroll_bottom' \in Row
             /\ UNCHANGED <<statusvisible, scr, hist, paintVars>>

\* Reverse video is set: xsetmode draws everything.
ReverseVideo == /\ Redraw
                /\ UNCHANGED viewVars

(***************************************************************************)
(* X events.                                                               *)
(***************************************************************************)
FullDirt == /\ dirty' = Row /\ shown' = Aged(Row) /\ UNCHANGED copied

KeyUp == /\ IF scr < Lines THEN /\ scr' = IF scr < hist THEN scr + 1 ELSE hist
                               /\ FullDirt
                          ELSE UNCHANGED <<scr, paintVars>>
         /\ UNCHANGED <<statusvisible, scroll_bottom, hist, visible>>

\* kscrolldown and scrolltobottom; also for every key sent to the program.
KeyBottom == /\ \/ scr = 0 /\ UNCHANGED <<scr, paintVars>>
                \/ scr > 0 /\ scr' \in {scr - 1, 0} /\ FullDirt
             /\ UNCHANGED <<statusvisible, scroll_bottom, hist, visible>>

\* showstatus, by lessmode_toggle.  Hiding it draws one row into the pixmap.
LessOn == /\ statusvisible' = TRUE
          /\ IF statusvisible THEN UNCHANGED paintVars ELSE Draw(Row, TRUE, Aged(Row))
          /\ UNCHANGED <<scroll_bottom, scr, hist, visible>>

Hidden == /\ shown' = Drawn(scroll_bottom, scroll_bottom + 1, {scroll_bottom}, FALSE, shown)
          /\ dirty' = dirty \ {scroll_bottom}
          /\ copied' = FALSE

LessOff == /\ statusvisible' = FALSE
           /\ IF statusvisible THEN Hidden ELSE UNCHANGED paintVars
           /\ UNCHANGED <<scroll_bottom, scr, hist, visible>>

\* Expose, and a change of the focus.
Expose == /\ Redraw
          /\ UNCHANGED <<viewVars, visible>>

Visibility(on) == /\ visible' = on
                  /\ UNCHANGED <<viewVars, paintVars>>

\* cresize: a new pixmap; tresize marks every row and resets the region.
Resize == /\ shown' = [y \in Row |-> "old"] /\ dirty' = Row /\ copied' = FALSE
          /\ scroll_bottom' = Last
          /\ UNCHANGED <<statusvisible, scr, hist, visible>>

Handle(e) == CASE e = "up" -> KeyUp
               [] e = "bottom" -> KeyBottom
               [] e = "less" -> LessOn
               [] e = "quit less" -> LessOff
               [] e = "expose" -> Expose
               [] e = "visible" -> Visibility(TRUE)
               [] e = "obscured" -> Visibility(FALSE)
               [] e = "resize" -> Resize

Events == {"up", "bottom", "less", "quit less", "expose", "visible", "obscured", "resize"}

\* The server reports; a window that is shown again has lost its contents.
Arrival == /\ Len(xin) < QueueMax
           /\ \E e \in Events :
                /\ xin' = IF e = "visible" THEN xin \o <<e, "expose">> ELSE Append(xin, e)
                /\ copied' = (copied /\ e \notin {"visible", "expose"})
           /\ UNCHANGED <<loopVars, output, visible, viewVars, dirty, shown>>

ProgramWrites == /\ ~output
                 /\ output' = TRUE
                 /\ UNCHANGED <<loopVars, xin, visible, viewVars, paintVars>>

Tick == /\ since < 2
        /\ since' = since + 1
        /\ UNCHANGED <<pc, rfd, timeout, xev, blinkset, output, xin, visible, viewVars, paintVars>>

(***************************************************************************)
(* run.                                                                    *)
(***************************************************************************)
Ready == {f \in {"tty", "x"} : (f = "tty" /\ output) \/ (f = "x" /\ xin # <<>>)}

\* pselect returns: something is ready, or the timeout is over.
Select == /\ pc = "select"
          /\ Ready # {} \/ timeout
          /\ rfd' = Ready
          /\ pc' = "read"
          /\ UNCHANGED <<timeout, since, xev, blinkset, output, xin, visible, viewVars, paintVars>>

\* ttyread, if the program wrote, and the look for blinking text.
Read == /\ pc = "read"
        /\ IF "tty" \in rfd
           THEN /\ Write \/ ScrollUp \/ ScrollDown \/ SetRegion \/ ReverseVideo
                /\ output' = FALSE
                /\ blinkset' \in BOOLEAN
           ELSE UNCHANGED <<output, blinkset, viewVars, paintVars>>
        /\ xev' = IF "x" \in rfd THEN XevFrames ELSE xev
        /\ pc' = "decide"
        /\ UNCHANGED <<rfd, timeout, since, xin, visible>>

DecideMut == \* nothing is drawn while output comes in
  /\ pc = "decide"
  /\ timeout' = TRUE
  /\ LET dodraw == "tty" \notin rfd /\ since > (IF xev > 0 THEN 0 ELSE 1)
     IN /\ since' = IF dodraw THEN 0 ELSE since
        /\ pc' = IF dodraw THEN "events" ELSE "select"
  /\ UNCHANGED <<rfd, xev, blinkset, output, xin, visible, viewVars, paintVars>>

DecideMutWait == \* tv is not set when it is too early to draw
  /\ pc = "decide"
  /\ LET dodraw == since > (IF xev > 0 THEN 0 ELSE 1)
     IN /\ since' = IF dodraw THEN 0 ELSE since
        /\ pc' = IF dodraw THEN "events" ELSE "select"
        /\ timeout' = (timeout \/ dodraw)
  /\ UNCHANGED <<rfd, xev, blinkset, output, xin, visible, viewVars, paintVars>>

\* Is it time to draw?  The end of blinktimeout, whenever it pleases, forces a
\* drawing and marks the rows with blinking text, of all rows but the last: those
\* there are now, whatever blinkset says.
Decide == /\ pc = "decide"
          /\ timeout' = TRUE
          /\ LET dodraw == since > (IF xev > 0 THEN 0 ELSE 1)
             IN \/ /\ since' = IF dodraw THEN 0 ELSE since
                   /\ pc' = IF dodraw THEN "events" ELSE "select"
                   /\ UNCHANGED dirty
                \/ /\ \E blinking \in SUBSET (0..Rows - 2) : dirty' = dirty \cup blinking
                   /\ since' = IF dodraw THEN 0 ELSE since
                   /\ pc' = "events"
          /\ UNCHANGED <<rfd, xev, blinkset, output, xin, visible, viewVars, shown, copied>>

HandleEvent == /\ pc = "events" /\ xin # <<>>
               /\ Handle(Head(xin))
               /\ xin' = Tail(xin)
               /\ UNCHANGED <<loopVars, output>>

EventsDone == /\ pc = "events" /\ xin = <<>>
              /\ pc' = "draw"
              /\ UNCHANGED <<rfd, timeout, since, xev, blinkset, output, xin, visible, viewVars, paintVars>>

DrawAll == /\ pc = "draw"
           /\ Draw(dirty, statusvisible, shown)
           /\ pc' = "rest"
           /\ UNCHANGED <<rfd, timeout, since, xev, blinkset, output, xin, visible, viewVars>>

\* No timeout if nothing had come before the drawing, unless text blinks.
Rest == /\ pc = "rest"
        /\ xev' = IF "x" \notin rfd /\ xev > 0 THEN xev - 1 ELSE xev
        /\ timeout' = (rfd # {} \/ blinkset)
        /\ pc' = "select"
        /\ UNCHANGED <<rfd, since, blinkset, output, xin, visible, viewVars, paintVars>>

Round == Select \/ Read \/ Decide \/ HandleEvent \/ EventsDone \/ DrawAll \/ Rest

Next == Round \/ Tick \/ Arrival \/ ProgramWrites

\* slterm runs, and time passes; neither the server nor the program has to do
\* anything.
Spec == Init /\ [][Next]_vars /\ WF_vars(Round) /\ WF_vars(Tick)

-----------------------------------------------------------------------------
(***************************************************************************)
(* A row that is not marked dirty shows what belongs there, the status bar *)
(* included, as long as the view is at the bottom.                         *)
(***************************************************************************)
Belongs(y) == IF statusvisible /\ y = Last THEN "status" ELSE "line"

CleanRowsRight == scr = 0 => \A y \in Row \ dirty : shown[y] = Belongs(y)

(***************************************************************************)
(* When the loop waits without a timeout, and nothing is there to wake it, *)
(* the visible window is up to date: no row is left to be drawn, the       *)
(* pixmap was copied, and no text should blink.                            *)
(***************************************************************************)
Asleep == pc = "select" /\ ~timeout /\ Ready = {}

SleepsUpToDate == Asleep /\ visible => dirty = {} /\ copied /\ ~blinkset

(***************************************************************************)
(* X events are handled, although the program may go on writing and being  *)
(* read without end.                                                       *)
(***************************************************************************)
EventsHandled == (xin # <<>>) ~> (xin = <<>>)

=============================================================================
