----------------------------- MODULE Scrollback -----------------------------
(***************************************************************************)
(* The view of one Term, the shell's screen: how far it is scrolled back   *)
(* (src/src/scroll.c), the bookmarks, the marks that Return leaves at      *)
(* every command (retmarks.c), less mode (lessmode.c), and the wish of     *)
(* Shift+Return to enter it once the output fills the screen.  The lines   *)
(* themselves are in LineRing; here they are numbers.                      *)
(*                                                                         *)
(* The window keeps its size (a resize moves none of these numbers with    *)
(* the lines), and the program sets no scroll region and resets nothing.   *)
(*                                                                         *)
(* Scrolling ends with a scan over the marks, which updates the mark the   *)
(* status bar shows.  The scan is one step for each round of its loop; it  *)
(* runs in the event loop's only thread, so nothing else happens meanwhile.*)
(***************************************************************************)
EXTENDS Integers

CONSTANTS
  H,           (* slots of the ring, histsize + 1: a power of 2             *)
  Height,      (* rows of the screen                                        *)
  Marks,       (* RETMARKCOUNT: a power of 2                                *)
  Bookmarks,   (* the bookmarks the user sets and goes to                   *)
  MaxLines,    (* bound: how many lines are scrolled off the screen         *)
  MaxReverse   (* bound: how many come back to it by a reverse index        *)

ASSUME ScrollbackAssumption ==
  /\ H \in Nat \ {0} /\ Height \in 1 .. H - 1
  /\ Marks \in Nat \ {0, 1} /\ MaxLines \in Nat /\ MaxReverse \in Nat

VARIABLES
  histindex, circled, scr, cy,   \* as in LineRing
  retmarks, current_retmark, scrolled_retmark,
  scrollmarks,   \* [0 and the bookmarks -> histindex when it was set, or 0]
  enterlessmode, \* Shift+Return was pressed
  less,          \* MODE_LESS in inputmode
  scan,          \* the scan that runs: its direction and loop variable
  count,         \* history: the lines scrolled off, less those that came back
  commandline,   \* history: [mark -> the number of the line it was set on]
  reversed,      \* history: the lines that came back to the screen
  strayed        \* history: a bookmark was used where the code mixes it up

marks == <<retmarks, current_retmark, commandline>>
vars  == <<histindex, circled, scr, cy, marks, scrolled_retmark, scrollmarks,
           enterlessmode, less, scan, count, reversed, strayed>>
hist  == <<count, reversed, strayed>>

Lower(a, b)     == IF a < b THEN a ELSE b
Limit(x, lo, hi) == IF x < lo THEN lo ELSE IF x > hi THEN hi ELSE x

Idle == [dir |-> "none", t |-> 0]

(* The marks from the newest back: & (RETMARKCOUNT-1) is a true modulo.    *)
Back(i) == (current_retmark - i) % Marks

----------------------------------------------------------------------------
(* The scans retmark_scrolledup and retmark_scrolleddown, which start at   *)
(* the mark shown last; the first does not mask its first index.           *)
From(r) == IF r = 0 THEN 1 ELSE r
ScanUp(r)   == [dir |-> "up", t |-> current_retmark - From(r)]
ScanDown(r) == [dir |-> "down", t |-> Back(From(r))]

ScanUpStep ==
  /\ scan.dir = "up"
  /\ LET u == scan.t % Marks
     IN \/ /\ scan.t = current_retmark
           /\ scan' = Idle /\ UNCHANGED scrolled_retmark
        \/ /\ scan.t # current_retmark
           /\ retmarks[u] = 0 \/ histindex - retmarks[u] >= scr
           /\ scrolled_retmark' = (current_retmark - u) % Marks
           /\ scan' = Idle
        \/ /\ scan.t # current_retmark
           /\ retmarks[u] # 0 /\ histindex - retmarks[u] < scr
           /\ scan' = [scan EXCEPT !.t = u - 1]
           /\ UNCHANGED scrolled_retmark
  /\ UNCHANGED <<histindex, circled, scr, cy, marks, scrollmarks, enterlessmode, less, hist>>

ScanDownStepMut ==               \* mutant: the loop goes the other way, unmasked
  /\ scan.dir = "down"
  /\ \/ /\ scan.t = current_retmark
        /\ scan' = Idle /\ scrolled_retmark' = 1
     \/ /\ scan.t # current_retmark
        /\ scan' = IF histindex - retmarks[scan.t % Marks] < scr
                   THEN Idle ELSE [scan EXCEPT !.t = (scan.t % Marks) - 1]
        /\ UNCHANGED scrolled_retmark
  /\ UNCHANGED <<histindex, circled, scr, cy, marks, scrollmarks, enterlessmode, less, hist>>

ScanDownStep ==
  /\ scan.dir = "down"
  /\ \/ /\ scan.t = current_retmark
        /\ scan' = Idle /\ scrolled_retmark' = 1
     \/ /\ scan.t # current_retmark
        /\ histindex - retmarks[scan.t] < scr
        /\ scrolled_retmark' = (current_retmark - scan.t + 1) % Marks
        /\ scan' = Idle
     \/ /\ scan.t # current_retmark
        /\ histindex - retmarks[scan.t] >= scr
        /\ scan' = [scan EXCEPT !.t = (scan.t + 1) % Marks]
        /\ UNCHANGED scrolled_retmark
  /\ UNCHANGED <<histindex, circled, scr, cy, marks, scrollmarks, enterlessmode, less, hist>>

----------------------------------------------------------------------------
(* Scrolling the view: what each command does to scr and the scan.         *)

AtMostWrittenMut(s) == s           \* mutant: the view is not held at the first line

AtMostWritten(s) == IF ~circled /\ s > histindex THEN histindex ELSE s

kscrollup(n) ==                  \* compared as unsigned: never for a negative scr
  IF 0 <= scr /\ scr <= H - n THEN scr' = AtMostWritten(scr + n) /\ scan' = ScanUp(scrolled_retmark)
                              ELSE UNCHANGED <<scr, scan>>

kscrolldown(n) ==
  IF scr > 0 THEN scr' = scr - Lower(n, scr) /\ scan' = ScanDown(scrolled_retmark)
             ELSE UNCHANGED <<scr, scan>>

scrolltotop == scr' = AtMostWritten(H) /\ scan' = ScanUp(scrolled_retmark)

(* r: the value scrolled_retmark has by then.                              *)
scrolltobottom(r) ==
  IF scr # 0 THEN scr' = 0 /\ scan' = ScanDown(r) ELSE UNCHANGED <<scr, scan>>

Scroll ==
  \/ scrolltotop
  \/ scrolltobottom(scrolled_retmark)
  \/ \E n \in 1 .. Height : kscrollup(n) \/ kscrolldown(n)

(* ttywrite: out of less mode, typing scrolls down.                        *)
ScrollForInput ==
  IF ~less THEN kscrolldown(scr) ELSE UNCHANGED <<scr, scan>>

----------------------------------------------------------------------------
(* The program's output.                                                   *)

(* The end of tscrollup enters less mode when Shift+Return asked for it    *)
(* and the command's line has left the screen.                             *)
EnterLessMut == enterlessmode /\ histindex' >= scrollmarks[0]  \* mutant: a line early

EnterLess == enterlessmode /\ histindex' > scrollmarks[0]

LineFeed ==
  /\ scan = Idle
  /\ \/ /\ cy < Height - 1
        /\ cy' = cy + 1
        /\ UNCHANGED <<histindex, circled, scr, enterlessmode, less, count>>
     \/ /\ cy = Height - 1 /\ count + reversed < MaxLines
        /\ histindex' = (histindex + 1) % H
        /\ circled' = (circled \/ histindex' = 0)
        /\ count' = count + 1
        /\ scr' = IF EnterLess THEN histindex' - scrollmarks[0]
                  ELSE IF 0 < scr /\ scr < H THEN Lower(scr + 1, H - 1) ELSE scr
        /\ less' = (less \/ EnterLess)
        /\ enterlessmode' = (enterlessmode /\ ~EnterLess)
        /\ UNCHANGED cy
  /\ UNCHANGED <<marks, scrolled_retmark, scrollmarks, scan, reversed, strayed>>

(* RI in the first row: the line scrolled off last comes back, and neither *)
(* the view nor a mark moves with it.  The index is masked, so that before *)
(* the first line it is the ring's last; circledhist does not change.      *)
ReverseIndex ==
  /\ scan = Idle /\ cy = 0 /\ reversed < MaxReverse
  /\ histindex' = (histindex - 1) % H
  /\ count' = count - 1
  /\ reversed' = reversed + 1
  /\ UNCHANGED <<circled, scr, cy, marks, scrolled_retmark, scrollmarks, enterlessmode,
                 less, scan, strayed>>

(* CUU and the other relative moves, RI below the first row.               *)
tmoveto(y) ==
  /\ scan = Idle
  /\ cy' = y
  /\ UNCHANGED <<histindex, circled, scr, marks, scrolled_retmark, scrollmarks,
                 enterlessmode, less, scan, hist>>

(* tmoveato, to an absolute position: a program that moves the cursor to   *)
(* the first row deletes the newest n marks, as far as they are on the     *)
(* screen.  To another row it is tmoveto.                                  *)
OnScreen(t) == histindex < retmarks[t] /\ histindex + Height + 1 > retmarks[t]

tmoveato ==
  /\ scan = Idle
  /\ cy' = 0
  /\ \E n \in 0 .. Marks - 1 :
       /\ \A i \in 1 .. n : OnScreen(Back(i))
       /\ n < Marks - 1 => ~OnScreen(Back(n + 1))
       /\ current_retmark' = Back(n)
       /\ retmarks' = [t \in 0 .. Marks - 1 |-> IF \E i \in 1 .. n : t = Back(i) THEN 0
                                                ELSE retmarks[t]]
       /\ commandline' = [t \in 0 .. Marks - 1 |-> IF \E i \in 1 .. n : t = Back(i) THEN 0
                                                   ELSE commandline[t]]
  /\ UNCHANGED <<histindex, circled, scr, scrolled_retmark, scrollmarks,
                 enterlessmode, less, scan, hist>>

----------------------------------------------------------------------------
(* Keys.                                                                   *)

(* set_retmark's test that the cursor is below the last mark: a screen     *)
(* based program moves it up.  (H - 1) \div 2 is histsize/2.               *)
BelowLastMark ==
  \/ retmarks[Back(1)] < histindex + cy
  \/ circled /\ retmarks[Back(1)] > histindex + cy + ((H - 1) \div 2)

set_retmarkMut ==                \* mutant: the test is left out
  /\ retmarks' = [retmarks EXCEPT ![current_retmark] = histindex + cy]
  /\ commandline' = [commandline EXCEPT ![current_retmark] = count + cy]
  /\ current_retmark' = (current_retmark + 1) % Marks
  /\ scrolled_retmark' = 0

set_retmarkMutMask ==            \* mutant: the index is not masked
  IF BelowLastMark
  THEN /\ retmarks' = [retmarks EXCEPT ![current_retmark] = histindex + cy]
       /\ commandline' = [commandline EXCEPT ![current_retmark] = count + cy]
       /\ current_retmark' = current_retmark + 1
       /\ scrolled_retmark' = 0
  ELSE UNCHANGED <<marks, scrolled_retmark>>

set_retmark ==
  IF BelowLastMark
  THEN /\ retmarks' = [retmarks EXCEPT ![current_retmark] = histindex + cy]
       /\ commandline' = [commandline EXCEPT ![current_retmark] = count + cy]
       /\ current_retmark' = (current_retmark + 1) % Marks
       /\ scrolled_retmark' = 0
  ELSE UNCHANGED <<marks, scrolled_retmark>>

(* Return, in regular input mode and not scrolled back, sets a mark.       *)
MarkCommand ==
  IF scr = 0 /\ ~less THEN set_retmark ELSE UNCHANGED <<marks, scrolled_retmark>>

(* Return is sent to the program like any other key.                       *)
Return ==
  /\ scan = Idle
  /\ MarkCommand
  /\ ScrollForInput
  /\ UNCHANGED <<histindex, circled, cy, scrollmarks, enterlessmode, less, hist>>

(* Shift+Return: enterscroll.                                              *)
enterscroll ==
  /\ scan = Idle
  /\ MarkCommand
  /\ scrollmarks' = [scrollmarks EXCEPT ![0] = histindex + cy]
  /\ enterlessmode' = TRUE
  /\ ScrollForInput
  /\ UNCHANGED <<histindex, circled, cy, less, hist>>

(* lessmode_toggle, alone or with a scroll command; q and Escape leave     *)
(* less mode for the bottom.  The scroll keys of less mode, and the mouse  *)
(* wheel, scroll and leave the mode as it is.                              *)
LessKey ==
  /\ scan = Idle
  /\ \/ less' \in BOOLEAN /\ UNCHANGED <<scr, scan>>
     \/ less' \in {TRUE, less} /\ Scroll
     \/ less /\ less' = FALSE /\ scrolltobottom(scrolled_retmark)
  /\ UNCHANGED <<histindex, circled, cy, marks, scrolled_retmark, scrollmarks,
                 enterlessmode, hist>>

(* Two uses of a bookmark mix up lines: bookmark 0 is set while it still   *)
(* holds Shift+Return's line, and one is gone to in a ring that has        *)
(* wrapped, whose index may be smaller now than when it was set.           *)
set_scrollmark(i) ==
  /\ scan = Idle
  /\ scrollmarks' = [scrollmarks EXCEPT ![i] = histindex - scr + 1]
  /\ strayed' = (strayed \/ (i = 0 /\ enterlessmode))
  /\ UNCHANGED <<histindex, circled, scr, cy, marks, scrolled_retmark, enterlessmode,
                 less, scan, count, reversed>>

scrollmark(i) ==
  /\ scan = Idle
  /\ scr' = histindex - scrollmarks[i] + (IF scrollmarks[i] # 0 THEN 1 ELSE 0)
  /\ strayed' = (strayed \/ circled)
  /\ UNCHANGED <<histindex, circled, cy, marks, scrolled_retmark, scrollmarks,
                 enterlessmode, less, scan, count, reversed>>

(* The end of retmark: a view before the newest line is wrapped around or  *)
(* held at the bottom, and less mode is on.                                *)
NotNegativeMut(s) == IF s >= 0 THEN s ELSE 0     \* mutant: not wrapped around

NotNegative(s) == IF s >= 0 THEN s ELSE IF circled THEN s % H ELSE 0

retmark ==
  /\ scan = Idle
  /\ less' = TRUE
  /\ UNCHANGED <<histindex, circled, cy, marks, scrollmarks, enterlessmode, hist>>

ToMark(i) ==                     \* show the mark that is i back
  /\ scr' = NotNegative(histindex - retmarks[Back(i)])
  /\ scrolled_retmark' = i % Marks
  /\ UNCHANGED scan

(* 1 to 9 (retmark n): the n'th mark back.                                 *)
RetmarkNumber(n) == retmark /\ ToMark(n)

(* Tab (retmark -1): the first mark, from the oldest, that is further down *)
(* than the view, or the bottom.  0 (retmark -2) is the bottom.            *)
Below(i) == histindex - retmarks[Back(i)] < scr

ToBottom ==
  /\ scrolled_retmark' = 0
  /\ scrolltobottom(0)

RetmarkDownMut ==                \* mutant: searched from the newest
  /\ retmark
  /\ \/ \E i \in 1 .. Marks - 1 : Below(i) /\ (\A j \in 1 .. i - 1 : ~Below(j)) /\ ToMark(i)
     \/ (\A i \in 1 .. Marks - 1 : ~Below(i)) /\ ToBottom

RetmarkDown ==
  /\ retmark
  /\ \/ \E i \in 1 .. Marks - 1 :
          Below(i) /\ (\A j \in i + 1 .. Marks - 1 : ~Below(j)) /\ ToMark(i)
     \/ (\A i \in 1 .. Marks - 1 : ~Below(i)) /\ ToBottom

RetmarkBottom == retmark /\ ToBottom

(* Backspace (retmark 0): the first mark, from the newest, that is further *)
(* up or was never set; the top as long as less than a screen is saved.    *)
Above(i) == retmarks[Back(i)] = 0 \/ histindex - retmarks[Back(i)] > scr

RetmarkUpMut ==                  \* mutant: searched from the oldest
  /\ retmark
  /\ \/ histindex < Height /\ scrolltotop /\ UNCHANGED scrolled_retmark
     \/ /\ histindex >= Height
        /\ \/ \E i \in 1 .. Marks - 1 :
                Above(i) /\ (\A j \in i + 1 .. Marks - 1 : ~Above(j)) /\ ToMark(i)
           \/ (\A i \in 1 .. Marks - 1 : ~Above(i)) /\ UNCHANGED <<scr, scan, scrolled_retmark>>

RetmarkUp ==
  /\ retmark
  /\ \/ histindex < Height /\ scrolltotop /\ UNCHANGED scrolled_retmark
     \/ /\ histindex >= Height
        /\ \/ \E i \in 1 .. Marks - 1 :
                Above(i) /\ (\A j \in 1 .. i - 1 : ~Above(j)) /\ ToMark(i)
           \/ /\ \A i \in 1 .. Marks - 1 : ~Above(i)
              /\ scr' = NotNegative(scr) /\ UNCHANGED <<scan, scrolled_retmark>>

----------------------------------------------------------------------------
Init ==
  /\ histindex = 0 /\ circled = FALSE /\ scr = 0 /\ cy = 0
  /\ retmarks = [t \in 0 .. Marks - 1 |-> 0]
  /\ commandline = [t \in 0 .. Marks - 1 |-> 0]
  /\ current_retmark = 0 /\ scrolled_retmark = 0
  /\ scrollmarks = [i \in {0} \cup Bookmarks |-> 0]
  /\ enterlessmode = FALSE /\ less = FALSE
  /\ scan = Idle
  /\ count = 0 /\ reversed = 0 /\ strayed = FALSE

Scanning == ScanUpStep \/ ScanDownStep

Next ==
  \/ LineFeed
  \/ ReverseIndex
  \/ \E y \in 0 .. Height - 1 : tmoveto(y)
  \/ tmoveato
  \/ Return
  \/ enterscroll
  \/ LessKey
  \/ \E i \in Bookmarks : set_scrollmark(i) \/ scrollmark(i)
  \/ \E n \in 1 .. Marks - 1 : RetmarkNumber(n)
  \/ RetmarkDown
  \/ RetmarkBottom
  \/ RetmarkUp
  \/ Scanning

(* A loop goes on by itself; nothing obliges the program or the user.      *)
Spec == Init /\ [][Next]_vars /\ WF_vars(Scanning)

----------------------------------------------------------------------------
(* Properties.                                                             *)

TypeOK ==
  /\ histindex \in 0 .. H - 1 /\ circled \in BOOLEAN
  /\ scr \in Int /\ cy \in 0 .. Height - 1
  /\ retmarks \in [0 .. Marks - 1 -> 0 .. H + Height - 2]
  /\ current_retmark \in 0 .. Marks - 1 /\ scrolled_retmark \in 0 .. Marks - 1
  /\ scrollmarks \in [{0} \cup Bookmarks -> Int]
  /\ enterlessmode \in BOOLEAN /\ less \in BOOLEAN
  /\ scan \in [dir : {"none", "up", "down"}, t : -Marks .. Marks]
  /\ count \in -reversed .. MaxLines
  /\ reversed \in 0 .. MaxReverse /\ strayed \in BOOLEAN

(* Whichever keys, marks and bookmarks moved the view, and however the     *)
(* screen scrolled since they were set, the view leaves what was written,  *)
(* in which TLINE finds a line for each row, by no more than one line for  *)
(* each reverse index, and below the screen by no more than the cursor was *)
(* below the second row when Shift+Return put its line into bookmark 0.    *)
(* In a ring that has wrapped it stays in the ring, until a bookmark leads *)
(* out of it.                                                              *)
Ahead == IF 0 \in Bookmarks /\ Height > 1 THEN Height - 2 ELSE 0

ScrInHistory ==
  /\ ~circled => -(reversed + Ahead) <= scr /\ scr <= histindex + reversed
  /\ circled /\ reversed = 0 /\ ~strayed => -Ahead <= scr /\ scr <= H

(* "scr is counted for scrolled lines. scr=histsize: scroll to the top     *)
(* scr=0 : scroll to the bottom": without a reverse index, Shift+Return's  *)
(* bookmark and a wrap it would not be left at all.                        *)
ScrWritten == ~circled => 0 <= scr /\ scr <= histindex
ScrInRing  == circled /\ reversed = 0 => 0 <= scr /\ scr <= H

(* The marks are in the order of their lines, back to the first one never  *)
(* set or deleted: what the searches of retmark rely on.  A program that   *)
(* moves the cursor up, and up and down again, or scrolls lines back to    *)
(* the screen, does not change that.                                       *)
MarksOrdered ==
  ~circled => \A i \in 1 .. Marks - 2 :
                retmarks[Back(i + 1)] # 0 => retmarks[Back(i)] > retmarks[Back(i + 1)]

(* Tab and Backspace go through the marks in turn: none in the history is  *)
(* skipped, wherever the view was.                                         *)
Distance(i) == histindex - retmarks[Back(i)]

TabNearest ==
  [][RetmarkDown /\ ~circled
     => ~\E i \in 1 .. Marks - 1 : scr' < Distance(i) /\ Distance(i) < scr]_vars

BackspaceNearest ==
  [][RetmarkUp /\ ~circled /\ histindex >= Height
     => ~\E i \in 1 .. Marks - 1 :
          /\ retmarks[Back(i)] # 0 /\ 0 <= Distance(i)
          /\ scr < Distance(i) /\ Distance(i) < scr']_vars

(* A mark's number scrolls to the line its command was entered on, also    *)
(* when the ring has wrapped since, or lines came back to the screen, as   *)
(* long as that line is in the ring.                                       *)
RetmarkShows ==
  [][\A n \in 1 .. Marks - 1 :
       LET age == count - commandline[Back(n)]
       IN RetmarkNumber(n) /\ retmarks[Back(n)] # 0 /\ 0 < age /\ age < H => scr' = age]_vars

(* Shift+Return enters less mode when the output has filled the screen and *)
(* not before: the command's line is the first one above the screen, and   *)
(* the view starts with it.  Not with another line in bookmark 0, nor with *)
(* a ring whose index has been masked, forwards or back.                   *)
EnterAtCommand ==
  [][LineFeed /\ ~less /\ less' /\ ~strayed /\ ~circled' /\ histindex' = count' => scr' = 1]_vars

(* "scan downwards for the next retmark" comes to an end.                  *)
DownScanEnds == scan.dir = "down" ~> scan = Idle

(* "scan upwards for the next retmark, update" comes to an end.            *)
UpScanEnds == scan.dir = "up" ~> scan = Idle
=============================================================================
