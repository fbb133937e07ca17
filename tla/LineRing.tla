------------------------------ MODULE LineRing ------------------------------
(***************************************************************************)
(* The line buffers of one Term (src/src/globals.h): the rows of the       *)
(* screen, term->line, and the scrollback ring, term->hist.  Both hold     *)
(* pointers to separately malloc'ed lines; scrolling moves the pointers    *)
(* and never the glyphs.                                                   *)
(*                                                                         *)
(* Every escape sequence that moves lines is an action, every key that     *)
(* moves the view is one, and so is a window resize.  A line's glyphs are  *)
(* abstracted to one token, its text.  The less-mode entry at the end of   *)
(* tscrollup is absent: nothing here sets enterlessmode.                   *)
(***************************************************************************)
EXTENDS Integers, FiniteSets

CONSTANTS
  H,             (* slots of the ring: histsize + 1, a power of 2           *)
  RowSizes,      (* the heights, in rows, the window may take               *)
  ColSizes,      (* the widths, in columns, the window may take             *)
  Buf,           (* the line buffers malloc can return                      *)
  NULL,          (* a slot of the ring nothing was stored in yet            *)
  Chars,         (* texts a program writes on a row                         *)
  Blank,         (* the text of a cleared row                               *)
  Uninit,        (* the text of a row realloc made out of nothing           *)
  Sent,          (* the escape sequences the program on the tty sends ...   *)
  SentScrolled   (* ... and those it sends while the view is scrolled back  *)

(* tnew dies unless the ring has a power of 2 slots and more than 64; the  *)
(* instances are smaller, so only what the code relies on is assumed: a    *)
(* window is lower than the ring, or a page would overshoot it.            *)
ASSUME RingAssumption ==
  /\ H \in Nat \ {0}
  /\ RowSizes # {} /\ RowSizes \subseteq 1 .. H - 1
  /\ ColSizes # {} /\ ColSizes \subseteq Nat \ {0}
  /\ NULL \notin Buf
  /\ SentScrolled \subseteq Sent

VARIABLES
  hist,       (* [slot of the ring -> its buffer, or NULL]                 *)
  histindex,  (* the slot of the newest line of the ring                   *)
  circled,    (* circledhist: histindex has wrapped to 0                   *)
  line,       (* [screen row -> its buffer]                                *)
  heap,       (* the buffers malloc'ed and not freed                       *)
  width,      (* [buffer -> glyphs it has room for]                        *)
  text,       (* [buffer -> what is written in it]                         *)
  scr,        (* how many lines the view is scrolled back                  *)
  rows, cols, (* the size of the screen ...                                *)
  colalloc,   (* ... and the widest it has been                            *)
  cy,         (* cursor.y                                                  *)
  top, bottom (* scroll_top and scroll_bottom, the scroll region           *)

store == <<hist, histindex, circled, heap, width>>   \* what only history and resize change
size  == <<rows, cols, colalloc>>
vars  == <<store, line, text, scr, size, cy, top, bottom>>

Slots == 0 .. H - 1
Rows  == 0 .. rows - 1
Texts == Chars \cup {Blank, Uninit}

Lower(a, b)     == IF a < b THEN a ELSE b
Higher(a, b)    == IF a < b THEN b ELSE a
Limit(x, lo, hi) == IF x < lo THEN lo ELSE IF x > hi THEN hi ELSE x

(* The ways malloc can serve the requests in S: any unused buffer for each.*)
Mallocs(S) == {f \in [S -> Buf \ heap] : \A i, j \in S : f[i] = f[j] => i = j}

(* TLINE: the buffer shown on row y of the window.                         *)
TLINE(y) == IF y < scr THEN hist[(y + histindex - scr + 1) % H] ELSE line[y - scr]

----------------------------------------------------------------------------
(* tclearregion over whole rows, on screen l: y1 and y2 are swapped when   *)
(* out of order and then limited to the screen.                            *)
Cleared(l, y1, y2) ==
  LET lo == Limit(Lower(y1, y2), 0, rows - 1)
      hi == Limit(Higher(y1, y2), 0, rows - 1)
      erased == {l[y] : y \in lo .. hi}
  IN [b \in Buf |-> IF b \in erased THEN Blank ELSE text[b]]

(* The swap loop of tscrollup: rows orig .. bottom move up by n; the n     *)
(* lines swapped down end where their index modulo n says.                 *)
MovedUp(l, orig, n) ==
  [y \in Rows |-> IF n = 0 \/ y < orig \/ y > bottom THEN l[y]
                  ELSE IF y + n <= bottom THEN l[y + n]
                  ELSE l[orig + ((y - orig) % n)]]

(* The swap loop of tscrolldown, which runs from the bottom up.            *)
MovedDown(l, orig, n) ==
  [y \in Rows |-> IF n = 0 \/ y < orig \/ y > bottom THEN l[y]
                  ELSE IF y - n >= orig THEN l[y - n]
                  ELSE l[bottom - ((bottom - y) % n)]]

(* The end of tscrollup, on screen l: a view that is scrolled back follows *)
(* the lines it shows, the first n rows are cleared and move to the end.   *)
ScrollUpMutScr(l, orig, n) ==      \* mutant: the view does not follow
  /\ scr' = scr
  /\ text' = Cleared(l, orig, orig + n - 1)
  /\ line' = MovedUp(l, orig, n)

ScrollUp(l, orig, n) ==
  /\ scr' = IF 0 < scr /\ scr < H THEN Lower(scr + n, H - 1) ELSE scr
  /\ text' = Cleared(l, orig, orig + n - 1)
  /\ line' = MovedUp(l, orig, n)

(* The end of tscrolldown, on screen l.                                    *)
ScrollDown(l, orig, n) ==
  /\ text' = Cleared(l, bottom - n + 1, bottom)
  /\ line' = MovedDown(l, orig, n)
  /\ UNCHANGED scr

(* Row y's line is stored in slot h, and y gets the line that was there:   *)
(* a new one if the slot is empty or must not be reused.  The screen after *)
(* that is [line EXCEPT ![y] = b].                                         *)
ExchangeMutCopy(h, y, b, new) ==   \* mutant: the slot's old line is not taken over
  /\ hist' = [hist EXCEPT ![h] = line[y]]
  /\ histindex' = h
  /\ heap' = heap
  /\ width' = width

Exchange(h, y, b, new) ==
  /\ hist' = [hist EXCEPT ![h] = line[y]]
  /\ histindex' = h
  /\ heap' = heap \cup {b}
  /\ width' = IF new THEN [width EXCEPT ![b] = colalloc] ELSE width

(* tscrollup(orig, k, copyhist).  With copyhist (then k is 1) the top line *)
(* goes to the next slot.  When the ring wraps for the first time slot 0   *)
(* gets a new line and the one tnew put there is lost.  The test for a     *)
(* screen row without a line (scroll.c:206) never holds: see NoSharing.    *)
tscrollupMutLeak(orig, k, copyhist) ==  \* mutant: slot 0 is renewed at every wrap
  LET n == Limit(k, 0, bottom - orig + 1)
      h == (histindex + 1) % H
      new == hist[h] = NULL \/ h = 0
  IN \/ /\ copyhist
        /\ circled' = (circled \/ h = 0)
        /\ \E b \in IF new THEN Buf \ heap ELSE {hist[h]} :
             /\ Exchange(h, orig, b, new)
             /\ ScrollUp([line EXCEPT ![orig] = b], orig, n)
     \/ /\ ~copyhist
        /\ ScrollUp(line, orig, n)
        /\ UNCHANGED store

tscrollupMutLate(orig, k, copyhist) ==  \* mutant: the index moves after the line is stored
  LET n == Limit(k, 0, bottom - orig + 1)
      h == (histindex + 1) % H
  IN \/ /\ copyhist
        /\ circled' = (circled \/ h = 0)
        /\ hist' = [hist EXCEPT ![histindex] = line[orig]]
        /\ histindex' = h
        /\ UNCHANGED <<heap, width>>
        /\ ScrollUp([line EXCEPT ![orig] = hist[histindex]], orig, n)
     \/ /\ ~copyhist
        /\ ScrollUp(line, orig, n)
        /\ UNCHANGED store

tscrollup(orig, k, copyhist) ==
  LET n == Limit(k, 0, bottom - orig + 1)
      h == (histindex + 1) % H
      new == hist[h] = NULL \/ (h = 0 /\ ~circled)
  IN \/ /\ copyhist
        /\ circled' = (circled \/ h = 0)
        /\ \E b \in IF new THEN Buf \ heap ELSE {hist[h]} :
             /\ Exchange(h, orig, b, new)
             /\ ScrollUp([line EXCEPT ![orig] = b], orig, n)
     \/ /\ ~copyhist
        /\ ScrollUp(line, orig, n)
        /\ UNCHANGED store

(* tscrolldown(orig, k, copyhist).  With copyhist the bottom line is       *)
(* exchanged for the one in the slot before histindex.                     *)
tscrolldown(orig, k, copyhist) ==
  LET n == Limit(k, 0, bottom - orig + 1)
      h == (histindex + H - 1) % H
      new == hist[h] = NULL
  IN \/ /\ copyhist
        /\ UNCHANGED circled
        /\ \E b \in IF new THEN Buf \ heap ELSE {hist[h]} :
             /\ Exchange(h, bottom, b, new)
             /\ ScrollDown([line EXCEPT ![bottom] = b], orig, n)
     \/ /\ ~copyhist
        /\ ScrollDown(line, orig, n)
        /\ UNCHANGED store

(* tsetscroll: a region given upside down is turned over.                  *)
tsetscrollMutLimit(t, b) ==       \* mutant: the ends are ordered and not limited
  /\ top' = Lower(t, b)
  /\ bottom' = Higher(t, b)

tsetscroll(t, b) ==
  LET t1 == Limit(t, 0, rows' - 1)
      b1 == Limit(b, 0, rows' - 1)
  IN /\ top' = Lower(t1, b1)
     /\ bottom' = Higher(t1, b1)

----------------------------------------------------------------------------
(* What the program on the tty writes.                                     *)

Sends(seq) == seq \in (IF scr = 0 THEN Sent ELSE SentScrolled)

(* The rows a program may name: those of the screen, and one off either    *)
(* end, which stands for all that are.                                     *)
Given == -1 .. rows

(* A character, or EL 2, in the cursor's row (tsetchar, tclearregion).     *)
Write(t) ==
  /\ Sends("text")
  /\ text' = [text EXCEPT ![line[cy]] = t]
  /\ UNCHANGED <<store, line, scr, size, cy, top, bottom>>

(* CUP, VPA, CUU, CUD: tmoveto without the origin mode.                    *)
MoveCursor(y) ==
  /\ Sends("CUP")
  /\ cy' = Limit(y, 0, rows - 1)
  /\ UNCHANGED <<store, line, text, scr, size, top, bottom>>

(* tnewline (LF, VT, FF, NEL, and wrapping at the last column) and IND.    *)
LineFeed ==
  /\ Sends("LF")
  /\ \/ /\ cy = bottom
        /\ tscrollup(top, 1, TRUE)
        /\ UNCHANGED cy
     \/ /\ cy # bottom
        /\ cy' = Limit(cy + 1, 0, rows - 1)
        /\ UNCHANGED <<store, line, text, scr>>
  /\ UNCHANGED <<size, top, bottom>>

ReverseIndex ==
  /\ Sends("RI")
  /\ \/ /\ cy = top
        /\ tscrolldown(top, 1, TRUE)
        /\ UNCHANGED cy
     \/ /\ cy # top
        /\ cy' = Limit(cy - 1, 0, rows - 1)
        /\ UNCHANGED <<store, line, text, scr>>
  /\ UNCHANGED <<size, top, bottom>>

(* SU and SD, with the count the sequence gives: one that is not positive  *)
(* is limited to 0 and still clears the rows next to the region's end.     *)
ScrollRegion(seq, n) ==
  /\ Sends(seq)
  /\ \/ seq = "SU" /\ tscrollup(top, n, FALSE)
     \/ seq = "SD" /\ tscrolldown(top, n, FALSE)
  /\ UNCHANGED <<size, cy, top, bottom>>

(* IL (tinsertblankline) and DL (tdeleteline) at the cursor.               *)
EditLines(seq, n) ==
  /\ Sends(seq)
  /\ top <= cy /\ cy <= bottom
  /\ \/ seq = "DL" /\ tscrollup(cy, n, FALSE)
     \/ seq = "IL" /\ tscrolldown(cy, n, FALSE)
  /\ UNCHANGED <<size, cy, top, bottom>>

(* DECSTBM; the cursor goes home.                                          *)
SetRegion(t, b) ==
  /\ Sends("STBM")
  /\ UNCHANGED size
  /\ tsetscroll(t, b)
  /\ cy' = 0
  /\ UNCHANGED <<store, line, text, scr>>

(* RIS: treset keeps the history, and the view where it is.                *)
treset ==
  /\ Sends("RIS")
  /\ top' = 0
  /\ bottom' = rows - 1
  /\ cy' = 0
  /\ text' = Cleared(line, 0, rows - 1)
  /\ UNCHANGED <<store, line, scr, size>>

----------------------------------------------------------------------------
(* What the user does: keys that move the view, and the window's size.     *)

(* A key pressed outside less mode scrolls down the same way (ttywrite).   *)
ScrollBottom ==
  /\ scr # 0
  /\ scr' = 0
  /\ UNCHANGED <<store, line, text, size, cy, top, bottom>>

(* Until the ring has wrapped its first lines are at slot 1.               *)
AtMostWrittenMut(s) == s           \* mutant: the view is not held at the first line

AtMostWritten(s) == IF ~circled /\ s > histindex THEN histindex ELSE s

ScrollTop ==
  /\ scr' = AtMostWritten(H)
  /\ UNCHANGED <<store, line, text, size, cy, top, bottom>>

(* A page up is n = rows, a page down n = rows - 1.                        *)
kscrollup(n) ==
  /\ scr <= H - n
  /\ scr' = AtMostWritten(scr + n)
  /\ UNCHANGED <<store, line, text, size, cy, top, bottom>>

kscrolldown(n) ==
  /\ scr > 0
  /\ scr' = scr - Lower(n, scr)
  /\ UNCHANGED <<store, line, text, size, cy, top, bottom>>

(* tresize: rows above the cursor are dropped when the window gets too low *)
(* for it, and the rest of what does not fit below.  When the columns need *)
(* more room than ever before the rows kept are enlarged, and the slots    *)
(* of the ring below histindex, or all once the ring has wrapped.          *)
tresize(col, row) ==
  LET drop    == IF cy >= row THEN cy - row + 1 ELSE 0
      minrow  == Lower(row, rows)
      kept    == [y \in 0 .. minrow - 1 |-> line[y + drop]]
      enlarge == col > colalloc
      grown   == IF ~enlarge THEN {} ELSE 0 .. (IF circled THEN H ELSE histindex) - 1
      empty   == {i \in grown : hist[i] = NULL}
      added   == minrow .. row - 1
  IN /\ colalloc' = Higher(colalloc, col)
     /\ cols' = col /\ rows' = row
     /\ \E f \in Mallocs({<<"hist", i>> : i \in empty} \cup {<<"line", y>> : y \in added}) :
          LET freed == {line[y] : y \in Rows} \ {kept[y] : y \in 0 .. minrow - 1}
              fresh == {f[i] : i \in DOMAIN f}
              wider == IF enlarge THEN {kept[y] : y \in 0 .. minrow - 1}
                                       \cup {hist[i] : i \in grown}
                                  ELSE {}
          IN /\ line' = [y \in 0 .. row - 1 |-> IF y < minrow THEN kept[y] ELSE f[<<"line", y>>]]
             /\ hist' = [i \in Slots |-> IF i \in empty THEN f[<<"hist", i>>] ELSE hist[i]]
             /\ heap' = (heap \ freed) \cup fresh
             /\ width' = [b \in Buf |-> IF b \in fresh \cup wider THEN colalloc' ELSE width[b]]
             /\ text' = [b \in Buf |-> IF b \notin fresh THEN text[b]
                                       ELSE IF \E i \in empty : f[<<"hist", i>>] = b THEN Uninit
                                       ELSE Blank]
     /\ tsetscroll(0, row - 1)
     /\ cy' = Limit(cy, 0, row - 1)
     /\ UNCHANGED <<histindex, circled, scr>>

----------------------------------------------------------------------------
(* tnew: an empty screen, and one line in slot 0 that nothing was ever     *)
(* written to.                                                             *)
Init ==
  /\ rows \in RowSizes /\ cols \in ColSizes
  /\ colalloc = cols
  /\ \E f \in {g \in [-1 .. rows - 1 -> Buf] : \A i, j \in -1 .. rows - 1 : g[i] = g[j] => i = j} :
       /\ hist = [i \in Slots |-> IF i = 0 THEN f[-1] ELSE NULL]
       /\ line = [y \in Rows |-> f[y]]
       /\ heap = {f[i] : i \in -1 .. rows - 1}
  /\ width = [b \in Buf |-> IF b \in heap THEN cols ELSE 0]
  /\ text = [b \in Buf |-> Blank]
  /\ histindex = 0 /\ circled = FALSE
  /\ scr = 0 /\ cy = 0
  /\ top = 0 /\ bottom = rows - 1

TtyNext ==
  \/ \E t \in Chars \cup {Blank} : Write(t)
  \/ \E y \in Given : MoveCursor(y)
  \/ LineFeed
  \/ ReverseIndex
  \/ \E n \in 0 .. rows : ScrollRegion("SU", n) \/ ScrollRegion("SD", n)
  \/ \E n \in 0 .. rows : EditLines("IL", n) \/ EditLines("DL", n)
  \/ \E t, b \in Given : SetRegion(t, b)
  \/ treset

UserNext ==
  \/ ScrollBottom
  \/ ScrollTop
  \/ \E n \in 1 .. rows : kscrollup(n) \/ kscrolldown(n)
  \/ \E col \in ColSizes, row \in RowSizes : tresize(col, row)

Next == TtyNext \/ UserNext

Spec == Init /\ [][Next]_vars

----------------------------------------------------------------------------
(* Properties.                                                             *)

(* The slots, rows, indices and the scroll region stay in range: every     *)
(* screen row has a line, the region is ordered and on the screen, and the *)
(* view is never scrolled further than the ring is long.                   *)
TypeOK ==
  /\ hist \in [Slots -> Buf \cup {NULL}]
  /\ histindex \in Slots
  /\ circled \in BOOLEAN
  /\ rows \in RowSizes /\ cols \in ColSizes
  /\ colalloc \in Nat /\ cols <= colalloc
  /\ line \in [Rows -> Buf]
  /\ heap \subseteq Buf
  /\ width \in [Buf -> Nat]
  /\ text \in [Buf -> Texts]
  /\ scr \in 0 .. H
  /\ cy \in Rows
  /\ top \in Rows /\ bottom \in Rows /\ top <= bottom

(* No line buffer is reachable from two places, and none that was freed is *)
(* reachable at all: otherwise writing to the screen would change the      *)
(* history, or two rows of the screen, or free a line twice.               *)
NoSharing ==
  /\ \A i, j \in Slots : hist[i] = hist[j] /\ hist[i] # NULL => i = j
  /\ \A x, y \in Rows : line[x] = line[y] => x = y
  /\ \A i \in Slots, y \in Rows : hist[i] # line[y]
  /\ \A i \in Slots : hist[i] \in heap \cup {NULL}
  /\ \A y \in Rows : line[y] \in heap

(* Scrolling forever takes no more memory: the only line ever lost is the  *)
(* one slot 0 started with, when the ring wraps for the first time.        *)
Held == {hist[i] : i \in Slots} \cup {line[y] : y \in Rows}

LeakBounded ==
  \E lost \in SUBSET Buf :
    /\ heap \subseteq Held \cup lost
    /\ IF circled THEN \E b \in Buf : lost \subseteq {b} ELSE lost = {}

(* Wherever the view is scrolled to, every row of the window shows a line  *)
(* that was stored there: TLINE is never NULL for xdrawline, tlinelen or   *)
(* getsel.  Needs a program that sends no reverse index, and no SU or DL   *)
(* while the view is scrolled back.                                        *)
ViewAllocated == \A y \in Rows : TLINE(y) # NULL

(* A view that is scrolled back shows the same lines after a line feed     *)
(* scrolled the screen: the rows that come from the history, and with a    *)
(* region that starts at the first row the rows of the region too.  Not at *)
(* the far end, where the oldest line is dropped.                          *)
TextOf(b) == IF b = NULL THEN Uninit ELSE text[b]
Shown(y) == TextOf(TLINE(y))

ViewSteady ==
  [][LineFeed /\ histindex' # histindex /\ 0 < scr /\ scr < H - 1
     => \A y \in Rows : y < scr \/ (top = 0 /\ y - scr <= bottom)
                         => Shown(y)' = Shown(y)]_vars

(* The ring is a log: as long as the program sends no reverse index, what  *)
(* the pointers hold is the screen and the last H lines that were scrolled *)
(* off it, unchanged and in order, whatever scrolls, edits and resizes.    *)
Written == IF circled THEN H ELSE histindex

Log == INSTANCE ScrollLog WITH
  Depth <- H,
  Heights <- RowSizes,
  count <- Written,
  saved <- [k \in 1 .. Written |-> TextOf(hist[(histindex + H - (k - 1)) % H])],
  screen <- [y \in Rows |-> TextOf(line[y])]

ImplementsLog == Log!Spec

(* globals.h on histindex: until the buffer is circled it is the number of *)
(* written lines, so these slots hold lines.                               *)
WrittenLines == ~circled => \A i \in 1 .. histindex : hist[i] # NULL

(* globals.h on colalloc: the columns allocated in the history buffer, and *)
(* never less than cols.  So every line the view shows has room for the    *)
(* cols glyphs xdrawline and getsel read of it.                            *)
ViewColumns == \A y \in Rows : TLINE(y) # NULL => width[TLINE(y)] >= cols
=============================================================================
