# A TLA+ verification project for slterm

slterm is an X terminal emulator derived from st.  It adds a scrollback ring,
a less mode, bookmarks, marks left at every command, a help browser and
screens that keep their own history.  This directory holds a model of the parts
of it where several actors meet (the program on the pty, the user at keyboard
and mouse, the X server and other clients), the TLC runs that check it, and
proofs about it.

All paths below are relative to the repository's `src/` directory, where the
program's C files are.

## 1. Inventory of the system

The program is one process with one thread.  `run` (xevent.c) waits for the pty
and the X connection.  Bytes from the pty go through `ttyread`, `twrite` and
`_tputc` into the visible `Term`; X events go to a table of handlers; then
`draw` paints the dirty rows.  All the C files are included in one translation
unit and share globals: `term` (the visible Term), `p_term`, `p_alt`,
`p_help`, `inputmode`, `sel`, `twin`.  "Concurrency" here is the arbitrary
interleaving of pty output, keys and window events, and re-entrancy:
writing to the pty may read from it, which parses output, which may write.

| Component | State | Operations | Hard behaviours | What makes it correct |
|---|---|---|---|---|
| Line buffers and ring (scroll.c, term.c, `TLINE` in term.h) | `hist`, `histindex`, `circledhist`, `line`, `colalloc`, `scr`, scroll region | line feed, reverse index, SU/SD, IL/DL, DECSTBM, RIS, resize, keys that move the view | pointers are exchanged by long sequences of program output, user scrolling and resizes | no line has two owners; the ring is a log; the view shows written, wide enough lines; bounded memory |
| View, bookmarks, return marks, less mode (scroll.c, retmarks.c, lessmode.c) | `scr`, `scrollmarks`, `retmarks`, `current_retmark`, `scrolled_retmark`, `inputmode`, `enterlessmode` | kscrollup/down, top, bottom, set and go to marks, Return, Shift+Return, less mode keys | marks grow stale while lines scroll; scans over rings of marks; deferred entry in less mode | the view stays in the history; marks are in order and lead where they were set; scans end |
| Screens (term.c, controlchars.c, xwindow.c) | `term`, `p_term`, `p_alt`, `p_help`, saved cursors, `inputmode` | 47/1047/1048/1049, DECSC/DECRC, RIS, help, resize | lazily made Terms; the help is opened over either screen; only one Term is resized | sizes, flags, input mode and cursor consistent after any switch |
| Escape parser (controlchars.c, `_tputc`) | `esc_state`, `csiescseq`, `strescseq`, mode bits | characters, C0/C1, CSI, OSC/DCS strings | sequences cut and nested anywhere, buffer limits, parser state kept in `term->mode` | every sequence ends; limits hold; a cut sequence has no effect |
| Drawing into the screen (termdraw.c) | glyphs, cursor, tabs, insert mode | tsetchar, tclearregion, insert/delete characters, tabs | regions at the borders, wide lines | edits stay in their row and region |
| Pty I/O (tty.c) | read buffer, `cmdfd` | ttyread, ttywrite, ttywriteraw | partial writes, re-entrancy | order of bytes kept, no deadlock with the child |
| Event loop, repaint (xevent.c, termdraw.c) | `dirty`, timers, `xev` | run, draw, drawregion | draw rate, blinking, view moved while rows are dirty | a changed row is painted in the end; keys are handled |
| Selection (selection.c) | `sel` | start, extend, scroll, clear, copy | selected rows scroll, shrink, are overwritten | selection follows its text or is cleared |
| Clipboard (xclipboard.c) | `xsel`, INCR state in X properties | setsel, selrequest, selnotify | asynchronous replies, chunked transfers | data arrives once and in order |
| Keyboard (xkeyboard.c, config.h) | sorted `shortcuts` | kpress, kmap, sort_shortcuts | order of overlapping bindings | the first binding declared wins |
| Mouse (xmouse.c) | last button, press time | bpress, bmotion, brelease, mousereport | - | a report matches its event |
| Status bar (statusbar.c) | text, visible flag | showstatus, updatestatus | - | - |
| Character sets (charmaps.c, utf8.c, base64.c) | tables | conversions | incomplete sequences | inverse of each other |
| Fonts, colours, X drawing, X resources | caches of X resources | Xlib/Xft calls | - | - |
| Start and child (main.c, system.c, mem.c) | - | options, execsh, allocators that die | - | - |

Interactions: the parser calls the ring's operations and the screen switches;
`ttywrite` scrolls the view down; `tscrollup` and `tclearregion` move or clear
the selection and may turn less mode on; `showhelp` and `tswapscreen` exchange
`term` under everything else; keys are looked up by `inputmode`, so that less
mode and the help decide which function a key calls.

`PROJECT.json` lists every component with its status and, under "hazards",
what is hard to test in each, at its line.

## 2. Modules

| Module | Models | Checked by |
|---|---|---|
| `LineRing` | the lines of one Term, as pointers | ring_all, ring_log |
| `ScrollLog` | what a scrollback promises, without pointers | implemented by `LineRing` in ring_log |
| `MCLineRing` | the view that identifies states up to buffer names | - |
| `LineRing_proofs` | theorems about `LineRing`, and that it implements `ScrollLog` | tlapm |
| `Scrollback`, `MCScrollback` | the view, marks and less mode of the shell's screen | marks |
| `Scrollback_proofs` | theorems about `Scrollback` | tlapm |
| `Screens` | the three Terms and who is visible | screens |
| `MCScreens` | programs and users for `Screens` | - |
| `Screens_proofs` | theorems about `Screens` | tlapm |
| `EscParser` | the parser of the program's output | esc |
| `EscParser_proofs` | theorems about `EscParser` | tlapm |
| `Tty` | bytes between terminal and program, and the calls that move them | tty |
| `Tty_proofs` | theorems about `Tty` | tlapm |
| `Paste`, `MCPaste` | selections of X and the pasting of their text | paste, paste_modes |
| `Keyboard`, `MCKeyboard` | the table of shortcuts, its sorting and its search | keyboard, keys_order |
| `Input_proofs` | theorems about `Paste` and `Keyboard` | tlapm |
| `MainLoop` | the event loop and what the window shows | mainloop |
| `MainLoop_proofs` | theorems about `MainLoop` | tlapm |
| `Selection`, `MCSelection` | the highlighted rows and the lines copied for them | selection |
| `Selection_proofs` | theorems about `Selection` | tlapm |

### LineRing

`hist`, `histindex`, `line`, `colalloc`, `scr`, `top`, `bottom`, `cy` are the
fields of the same names in `Term` (`scroll_top`, `scroll_bottom`, `cursor.y`).
A line buffer is an element of `Buf`; `heap` holds those malloc has given out
and free has not taken back; `width` is the number of glyphs each has room for
and `text` one token that stands for its contents.  `Init` is `tnew`, which
calls `tresize` and `treset`.

An action is an escape sequence or a key: `LineFeed` is `tnewline` with its
`tscrollup(top, 1, 1)`, `ReverseIndex` the RI case of `eschandle`,
`ScrollRegion` SU and SD, `EditLines` IL and DL, `SetRegion` DECSTBM, `treset`
RIS, `tresize` a ConfigureNotify.  `tscrollup` and `tscrolldown` are the C
functions: the exchange with the ring (`Exchange`), the adjustment of the view,
the clearing of rows (`Cleared` is `tclearregion` by whole rows, with its
swapping and limiting of the ends) and the loop that moves pointers.  The loops
are written as the permutations they compute (`MovedUp`, `MovedDown`).
`scr`, `histindex` and the arithmetic on them use the ring's mask as `% H`.
The C code holds 2^k slots, more than 64; the model leaves H free.

The rows a program names are those of the screen and one off either end (`Given`), so
that the limits of `tsetscroll` and `tmoveto` matter.
`Sent` and `SentScrolled` say which sequences the program sends, at the bottom
and while the user has scrolled back.  A run that limits them states an
assumption about the environment, never about slterm.

### ScrollLog and the refinement

`ScrollLog` has a screen of texts and the list of the last Depth texts that left
it.  `LineRing` implements it with `saved` = the ring read backwards from
`histindex`, `count` = `histindex` or, once `circledhist` is set, H.  The
pointer exchange, the reuse of the oldest buffer, and the reallocation on a
resize are all hidden: if one of them lost, repeated, or changed a line the
refinement would break.

### Scrollback

Lines are numbers: `histindex` and `cy` as before, `retmarks` and
`scrollmarks` as in `Term`, `less` is `inputmode & MODE_LESS`.  `count` and
`commandline` are history variables: how many lines have been scrolled off, and
on which line, counted from the first, each mark was set.  The scans
`retmark_scrolledup` and `retmark_scrolleddown` are one step for each round of
the C loop (`scan` is their loop variable, unmasked where the code leaves it
unmasked); while a scan runs nothing else does, since there is one thread.
The searches of `retmark` itself always stop, each is one step that says
which mark is found.

`LineFeed` and `ReverseIndex` move `histindex` up and down; the second leaves the view,
the marks and the bookmarks where they are, as `tscrolldown` does.  `tmoveato` is an absolute
cursor position in the first row, with its deletion of marks, `tmoveto` every other way to a row (CUU,
RI below the first row), which deletes none.  `Return` and `enterscroll` (Shift+Return)
both begin with what `kpress` does for any Return, `MarkCommand`.  `commandline` counts lines with
those that came back taken off; `reversed` says how many did, and `strayed` that a bookmark was used
in one of two ways in which the code mixes up lines: bookmark 0 set while it holds
Shift+Return's line, or one gone to in a ring that has wrapped.

Assumed: the window keeps its size, and the program sets no scroll region and resets nothing.
What those do to the lines is in LineRing.

### Screens

`rows[t]` and `cy[t]` are the height and cursor row of each Term, 0 before
`tnew` has made it; `altbit` the Terms with MODE_ALTSCREEN, `helpbit` TMODE_HELP
of `p_help`; `saved` the static `c[2]` in `tcursor`; `storedterm` and
`storedinput` are `p_help_storedterm` and `help_storedinputmode`.
`SwitchScreen` is `tsetmode` for 1049, 1047 and 47 with `tcursor`,
`tswapscreen`, `tnew` and `tresize` in their order; `ShowHelp` and `QuitHelp`
the two branches of `showhelp`; `Resize` `cresize`.  `leavescroll` only touches
the pending entry of less mode, which is in Scrollback's scope.

### EscParser

One action for each way `handle_controlchars` treats a byte, in its order:
inside a string (`StringEnds`, `StringGrows`), a control code (`Control`, that
is `tcontrolcode`), inside a CSI sequence (`CsiGrows`), the one byte of ESC (,
ESC # and ESC % (`OneByteMore`), the byte after ESC (`eschandle`), and text
(`PrintText`).  `esc` is `esc_state` as a set of flags, `sixel` is MODE_SIXEL of
`term->mode`, `csi` and `str` are the contents of `csiescseq` and `strescseq`.
`strhandle` and `tcontrolcode` get the flags as they are when they are called,
since `handle_controlchars` changes them before.

A byte is one of 13 names, one for each class the parser tells apart: the
control codes that end a string and one that does not, the introducers, ST,
RIS (which resets the mode), and a parameter.  Of a sequence that is finished
only the fact and the bytes it had are kept (`did`); the splitting of parameters
(`csiparse`, `strparse`) and what the sequence does on the screen are not in
this module.  `told` and `fresh` are history variables: they say what
was sent, independently of the parser's flags.  UTF-8 sequences, collected
before in `_tputc`, have no byte below 0x80 and are left out.

### Tty

`inp` and `out` are the kernel's two queues, `buf` and `buflen` the statics of
`ttyread`, and `stack` the calls in progress, innermost last: a `read` frame is
`ttyread` with `twrite`'s position `i` of `n` and read's result `ret`, a `raw`
frame is `ttywriteraw` with the bytes `a..b` it has still to send, its `lim`, and
what pselect said of the descriptor.  Bytes carry the number they were issued
with, so losing, doubling or reordering one shows.  `TtyRead` is `read(2)` of any
number of the bytes there; `ParseByte` the loop of `twrite`, where a question of
the program (`ask`) calls `ttywriteraw` for its answer; `ReadReturns` the end of
`ttyread` with its `buflen -= written` and, if a `ttywriteraw` called it, the new
`lim`.  The loop of `ttywriteraw` is `SelectWritable` and `SelectReadable` (what pselect
finds ready), `WriteChunk` (the write of at most `lim` bytes, with the exit when all are
written) and `ReadAfterChunk`.  `Key` is `ttywrite` called by `kpress`; `RunReads` is the round of
`run` that finds output.  Between any two of these steps the program
(`ProgramRead`, `ProgramDecide`, `ProgramWrite`, external) goes on.

Nothing in the code stops `ttyread` from being entered while it parses: an answer
whose pty is full reads, and what it reads is put behind bytes that the outer call
has begun to parse but not yet taken off.  Then `buflen` counts bytes twice.  The
history variable `reentered` says that this happened; the module describes what
follows up to the point where `buflen` is negative and the array is written in
front of its first byte, and the properties say in each case what is promised
before.

### Paste

`prop`, `owner`, `mask` and `events` are what the X server keeps, `mine` the two
strings of `xsel`, `other` the second client's progress.  `selnotify` is a loop:
`call` says where it is, one step for each request that other parties can see
between (`Enter`, `BeginIncr`, `GetChunk`, the brackets, the `ttywrite` of a piece, the
deletion of the property), since `ttywrite` may run the parser, which may
switch modes.  `BeginIncr` and the PropertyNotify events are an INCR transfer.
`from_utf8`, `ttywrite` (newline into carriage return, and the line feed of
MODE_CRLF) are conversions over five kinds of character, by what they do.  Of UTF-8 there are
characters of one byte and of two; those of three and four, those that the codepage lacks and
malformed text are left out, as other lengths of the same loop.
`setsel`, `clipcopy` and `selrequest` are slterm as the owner.

Mode bits are numbers in two words, `term->mode` and `twin.mode`, since `IS_SET`
is defined twice in the one translation unit: each test names the word the
compiler takes.

### Keyboard

`shortcuts` is the table of config.h, all its bindings with their modifiers, keysym,
function and input modes, in its order.  `sort_shortcuts` is one action for
each round of its two loops; `kpress` walks the sorted table as the code does
(`Reached`: up to the first greater keysym), and for keys without a binding
`kmap` and the string of the key.  `numlock` and the modifiers that are ignored
are masked as `match` does.  `kmap` is the set of what it may send: a
character that the codepage lacks gives ~ and a 0, so that the composed string follows
(`Composed`).  What a function does is in the modules above; its effect here is `Modes`.  The
input mode and TMODE_HELP of the visible Term are apart: while the help is shown the mode is the help's, but a
program that switches screens under the help leaves that bit behind, alone or with less mode.

The help binds every key (ALL_KEYS) to a dummy function, and the code does not reach that binding: ALL_KEYS is
the greatest keysym, so the search has stopped before.  `BoundFor` is the bindings that kpress's
condition is true of, this one among them, `OwnFor` those of the key itself.  `PressFinds`
is about a key's own bindings, and about keys that nothing matches; `HelpAborts` says what
config.h means the catch-all to do, `CatchAllMissed` what becomes of it (section 6).

The
specification is called `KeySpec` and its parts likewise, so that `Input_proofs` can extend
this module and `Paste`.

### MainLoop

One action for each stage of a round of `run`: `Select` (pselect, with or
without a timeout), `Read` (ttyread), `Decide` (is it time to draw), `HandleEvent`,
`EventsDone`, `DrawAll`, `Rest` (the next timeout).  `since` is the time since
the last drawing, as far as the two intervals tell times apart; `xev` counts down
the rounds with the short interval.  The blink timeout may have the loop draw whether anything
blinks or not, and marks the rows that do.  What the program's output does to the window is
`Write`, `ScrollUp`, `ScrollDown`, `SetRegion`, `ReverseVideo` and `FullDirt`; the
events are two keys that move the view, less mode on and off (with the status
bar), Expose, Visibility and Resize.  `shown` says of each row of the pixmap
whether it shows its line, something older, or the status bar; `copied` whether
the window shows the pixmap.  `dirty` is indexed as in the code: by row of the
screen when it is set, by row of the window when it is drawn.

### Selection

`sel` has `mode`, the rows `ob.y` and `oe.y`, `alt`, and `set` for `ob.x # -1`.  A
line has a number that stays with it (its Term's `histindex` plus its row when it was
written), so "the highlight shows what was copied" can be said: `copied` is
the set of lines that the last copy took and nothing wrote to since.
`Press`, `Motion`, `Release` are `bpress`, `bmotion`, `brelease` with `selstart`,
`selextend` and `setsel`; `keyboard_select` and `Kbd...` are `trt_kbdselect`'s keys;
`kscrollup`, `kscrolldown`, `scrolltotop`, `ToMark` and `Key` move the view with
`selscroll`; `Write` is `_tputc` with `tsetchar`, `Fill` and `Clear` `tclearregion` and
the sequences that call it; `SwitchScreen`, `ShowHelp`, `QuitHelp` change the Term.

The code loses the selection's place in five ways.  `lost` says whether, and how, it did so since
the text was copied:

- `distance`: `selscroll` is told another distance than the view went.  `kscrollup` passes
  the distance asked for, also when the view stops at the top; jumps to the top, the bottom or
  a mark pass the new place of the view.
- `region`: the view scrolls, and the selection is below the scroll region, where `selscroll`
  leaves it.
- `screen`: the view of one screen scrolls, and the hidden selection of the other is moved.
- `text`: the program changes highlighted text and `_tputc` does not see it.  Its test compares
  rows of the window with rows of the screen, takes `ob` for the upper end, and is made before the
  line wraps; SUB and DECALN do not pass it at all.
- `help`: it is shown over the selection, or left with it.

Each is lost in the step that does it, and not before: a jump that happens to go the distance
told keeps the place, and so does a change of text outside of the highlight.  Resizes and
columns are not modelled.

## 3. Runs

Every passing run finds no deadlock and finishes.  The bounds are given with the
reason why the interesting cases happen within them.

**ring_all** (`LineRing_all.cfg`, 232,764 states): *all* sequences, at any time,
all window sizes of 2-3 rows and 1-2 columns, a ring of 4 slots, regions and cursor rows on
the screen and off it.
`TypeOK`: indices, cursor and region in range.  `NoSharing`: no buffer in two
places, none used after free.  `LeakBounded`: at most one buffer is ever lost,
the one `tnew` put in slot 0.  With 4 slots the ring wraps, is passed over
again, and goes below 0; with 2 and 3 rows resizes drop rows above and below and
add rows; 8 buffers are enough for 4 + 3 + 1 held or lost, so malloc never
fails.

**ring_log** (`LineRing_log.cfg`, 61,992 states): without RI, and without SU or
DL while the view is scrolled back, the ring implements `ScrollLog`
(`ImplementsLog`), no row of the window shows an empty slot (`ViewAllocated`) and
a scrolled view stays on its lines while the program writes (`ViewSteady`).  Two
texts and Blank tell a moved line from a cleared one.  SU and DL are excluded while
the user looks back since they move `scr` without moving the ring, which may
take it past the first written line; RI takes the index below 0, see section 6.

**screens** (`Screens_all.cfg`, 15,298 states): windows of 1-3 rows, so that
cursors are limited by resizes; mode 1049 (47 and 1047 are the same action
without the cursor).  `TypeOK` has each Term's cursor on its screen, `ViewSized`
the visible Term as high as the window, `HelpKeys` and `LessOnMain` the input
mode fit the visible Term, `AltFlag` that the mode bit and the visible Term
agree, `CursorKept` that the saved cursor survives what the program and the user
do on the other screens.  Assumed: the program does not switch screens, save the
cursor or reset while the help is shown, and does not reset on the alternate screen; the user
either opens the help from the shell's screen only, or resizes there only.
Each assumption has its reason: without it one of the properties fails, see the
hazards and section 6.

**marks** (`MCScrollback`, `Scrollback_all.cfg`, 1,805,540 states): every key with
output between.  A ring of 4 slots, 2 rows, 4 marks, bookmark 0, which is also Shift+Return's,
one reverse index, and 4 lines of output after the screen is full: the ring wraps once, marks become older
than the ring, the ring of marks fills (it holds one less than its size) and starts over, a line comes
back under marks and a bookmark, also before the first was scrolled off, and the bookmark can be
set by either key, become stale and be used.
`ScrInHistory`: until the ring has wrapped the view leaves what was written by no
more than a line for each reverse index and, below the screen, the rows between the second one and the
cursor when Shift+Return stored it; that it leaves it at all is in section 6.
`MarksOrdered`: what the searches rely on.
`TabNearest`, `BackspaceNearest`: no mark is skipped.  `RetmarkShows`: a number
key shows the line of its command, also after the wrap.  `EnterAtCommand`:
less mode is entered when the command's line has just left the screen.
`DownScanEnds`: the downward scan terminates.  `MCBound` stops at states in which a bookmark
has been used in a way that mixes up lines (`strayed`); what follows them has no bound.

**esc** (`EscParser_all.cfg`, 1,084,435 states): every sequence of bytes.  The CSI
buffer takes 2 bytes and its 0, a string's buffer starts with 2 and may double
once (to 4), so both are filled, cut, and started over at the limit.
`TypeOK`: no buffer overflows.  `OneSequence`: the flags describe one sequence.
`HandledOnce`: a string is handled at most once, although its end (ESC \) is two
bytes with anything between them.  `WholeSequence`: what is handled is what
was sent, without the control codes in between and without bytes of an
earlier sequence.  `EscapeStarts`: ESC begins a new sequence wherever it comes.
Two cases where the code does not do so are excluded there by name: after a
DCS, and after ESC %.  For the first see `ControlsPerformed` in section 6.

**tty** (`Tty_all.cfg`, 145,185 states): queues of 3 bytes, keys of 1 and of 3 bytes,
answers of 2, writes of at most 2 at once, at most 4 bytes of keys and 4 of
the program.  So both queues fill, a write has to be made in parts and has to read in
between, an answer meets a pending key and a second question, and `ttyread` is
re-entered.  `TypeOK`: until then, the calls nest in one way only, and `buflen` agrees
with what `twrite` was given.  `ParsedInOrder`: every byte of the program is
parsed once, in order.  `WrittenInOrder`: keys arrive complete and in order
always, answers until `ttyread` is re-entered.  `WriteEnds`: a write of the terminal ends,
although the program may block in its own write and read nothing meanwhile.
`OutputParsed`: what the program wrote is parsed in the end.  Assumed: the kernel
reports a pty writable only while the largest chunk fits (`Room`), for `write` on a
blocking descriptor waits for the rest.

**paste** (`Paste_all.cfg`, 387,009 states): three acts in any order (pastes of
either selection, Return, selecting in slterm or elsewhere, switched modes), a text of
three characters, one of them of two bytes, read two bytes at a time, and the empty
text; INCR pieces of every size.  `NothingLost`: a paste delivers its text once, whole
and in order.  `MaskOff`: afterwards the window asks for no more property
events.  `PasteEnds`: every paste ends.  They are promised for a paste that no
other overlaps (`alone`): two transfers use the same window property and event
mask, and the end of one switches the other's events off.
**paste_modes**, a violation: see section 6.

**keyboard** (`Keyboard_all.cfg`, 143,468 states): the real table, and all small ones of four
bindings over three keysyms, ALL_KEYS one of them, with every order of equal and different ones.
`TableOK`: sorting keeps every binding and ends with a sorted table, which is
what lets the search stop early.  `PressFinds`: each key with each set of modifiers,
in every mode, runs one of its own bindings in that mode and is not sent, if it has any, and runs nothing
if no binding matches.  **keys_order**, a violation: see section 6.

**mainloop** (`MainLoop_all.cfg`, 1,048,935 states): two rows, two lines of
history, one event on its way, one round with the short interval, no
scroll region.  Two rows tell the last row (status bar, blinking) from another, two
lines a view that is partly scrolled back from one wholly.  `CleanRowsRight`: a
row not marked dirty shows what belongs there, at the bottom of the history.
`SleepsUpToDate`: without a timeout the loop waits only when the window is up to date.
`EventsHandled`: events are handled although the program never stops writing.

**selection** (`MCSelection`, `Selection_all.cfg`, 646,972 states): three rows, a history of
two lines of the shell and one of each other Term, a scroll region of the middle row: a selection of one
or two rows can leave the window at either end, shrink there, come back, stand below the region, and
be written to inside and outside.
`HighlightCopied`: what is highlighted was copied, and was not changed since, unless its place was lost in
one of the five ways.  That none of the five can be left out is in section 6.

The view `Canonical` of the LineRing runs replaces each buffer by where it is
and what it holds.  No action depends on a buffer's name (malloc picks any
unused one), so states with equal views have equal futures up to renaming; no
property of these runs names a buffer.

Fairness, always of what goes on by itself:

- `Scrollback`: `Scanning` (weak), the rounds of a C loop in the only thread.
- `Tty`: the terminal's steps (weak): its thread runs.  The program's write, when the queue
  takes it (weak): a blocked write returns.  The program's read (strong): it may
  write as much as it likes, but comes to read again and again.  Without this no
  terminal could get rid of a key.  Neither keys nor output have to come.
- `Paste`: the handling of events that have come (weak), and the answers of the owner asked
  (weak); an owner that dies is not promised anything.
- `MainLoop`: the rounds of `run` (weak) and the clock (weak).  Neither the server
  nor the program has to do anything.

Every property has a mutant in `PROJECT.json`: a definition changed the way a
plausible mistake would change the code, with which the property fails.

## 4. Theorems

TLC checks the instances of section 3; the theorems hold for every value of the
constants.  Each inductive invariant was first checked by TLC on the run's
instance.  `IInv` is its name in most modules.  The last step of each theorem is by
temporal logic (PTL).

**`LineRing_proofs`**, from `RingAssumption` alone: the ring has at least one slot,
windows have at least one row and one column and fewer rows than the ring has slots, NULL
is no buffer.

- `TypeCorrect`: `Spec => []TypeOK`
- `LinesNotShared`: `Spec => []NoSharing`
- `MemoryBounded`: `Spec => []LeakBounded`
- `ViewNeverEmpty`: `Spec => []ViewAllocated` for a `ForwardProgram`: one that sends no RI,
  and no SU or DL while the view is scrolled back, as in ring_log

`NoSharing` alone is not inductive: it says nothing of where buffers come
from.  The inductive invariant has two parts.  One, `PlaceOK`, is about sizes,
indices, the cursor and the region; it needs nothing from the other.  The other, `StoreOK`,
is about pointers: the maps have their types, `hist` and `line` are
injective and disjoint, and all of them point into `heap`.  The argument goes in
three layers:

1. Lemmas about the loops: `MovedUp` and `MovedDown` are permutations of the
   rows of the region, so they keep injectivity and the set of lines held.  The rows
   swapped down land where their index modulo n says; the division is what
   makes the lemma more than a case split.
2. A lemma about the exchange with the ring: a screen line for the slot's own
   old line, or for a buffer not in `heap`, keeps ring and screen apart.
3. One step for each action of `Next`.  The largest is `tresize`: rows kept,
   freed, and added, slots filled, all from one injective choice of
   unused buffers.

`ViewNeverEmpty` adds `ViewOK`: all slots up to `histindex`, and all slots once the ring has
wrapped, hold lines, and before it has wrapped the view is not further back than `histindex`.
`MemoryBounded` adds `LeakOK`: nothing is lost before the ring has wrapped, and at most one
buffer after.  That a step loses no buffer needs the loops to be onto, not only one
to one (`MovedUpOnto`, `MovedDownOnto`); the buffer that may be lost is the one in the slot
that is overwritten with a new line.

The second part of the module builds on them:

- `RingIsALog`: `Spec => ImplementsLog` for a program that sends no RI
- `ViewKeepsItsLines`: `Spec => ViewSteady` for any program

Each action is mapped to a step of the log: a line feed, SU or DL at the top to a
line scrolled off, the rest to a change of the screen, a resize, or a stutter.  There is a
lemma for the texts each loop leaves where (`UpText`, `DownText`, `ClearedText`), one for
the slot that the k-th line back is in before and after an exchange (`LogSlot`, with
its wrap), and one for the resize, which may reallocate every line of ring and screen.

**`Screens_proofs`**, from `ScreensAssumption` and two hypotheses: `QuietProgram` (no RIS on the
alternate screen; no switch, RIS or DECSC under the help) and `CarefulUsers` (the help is
opened from the shell's screen only, or resizes happen there only).

- `ScreensTyped`, `WindowFilled`, `HelpKeysFit`, `LessOnlyOnMain`, `FlagOfAlt`: `TypeOK`,
  `ViewSized`, `HelpKeys`, `LessOnMain`, `AltFlag`
- `CursorIsKept`: `Spec => CursorKept`, if only mode 1049 is used

The invariant is the conjunction of the five with `UnderHelp`, what is stored while the help is
shown (Term and input mode to go back to), and `MainSized`, the height of p_term.  None of
the five holds by itself: leaving the help restores what was stored.
`CursorKept` is a property of two levels (from the moment all Terms exist, always); its
invariant `Kept` follows the saved cursor through the swap.

**`Scrollback_proofs`**, from `ScrollbackAssumption` alone, for any bookmarks:

- `MarksTyped`, `ViewInHistory`, `MarksInOrder`: `TypeOK`, `ScrInHistory`, `MarksOrdered`
- `TabStops`, `BackspaceStops`: `Spec => TabNearest`, `Spec => BackspaceNearest`
- `NumberShowsCommand`: `Spec => RetmarkShows`
- `LessAtCommand`: `Spec => EnterAtCommand`

`MarksOrdered` needs `AllOrdered`, the order of the whole ring of marks with the place that is next
to be overwritten, since a deletion makes the mark there the oldest searched.
`ScrInHistory` needs `BookmarksWritten`: a bookmark's line is within the same bounds of what
was written as the view.  So going to it, which changes nothing but the view, keeps them, and so does
setting one, which takes its line from the view.

The four action properties are about what a key finds, and follow from the invariant
in the state it is pressed in.  For Tab and Backspace it is the order of the marks: the search stops at
the first mark on its side of the view, so no other is nearer.  The other two need to know how
`histindex` and the stored indices, which lose whole turns of the ring to its mask, belong to the
lines counted by the history variables: `LinesCounted` says that `count - histindex` and
`commandline[i] - retmarks[i]` are multiples of H, the second not above the first.  From that the
age of a command's line, modulo H, is the difference `retmark` computes, and if the line is still in
the ring the two are equal.  `CommandBelow` says that the pending entry of less mode waits for a line
that has not left the screen.

**`EscParser_proofs`**, from `ParserAssumption`: a CSI buffer of at least two bytes, a
string's of at least one.

- `BuffersHold`, `FlagsOfOneSequence`: `TypeOK`, `OneSequence`
- `EscapeBegins`: `Spec => EscapeStarts`
- `StringsHandledOnce`: `Spec => HandledOnce`
- `SequencesWhole`: `Spec => WholeSequence` if a string's first buffer is not larger than
  twice the limit (it is 256 bytes, the limit 8192)

The code decides by flags whether a buffer may grow, so the first two belong
together: `IInv` adds to them that a CSI buffer has room for one more byte and the 0 as long as
ESC_START is set (a full one ends its sequence), and that ESC_STR is
set only once `tstrsequence` has made a buffer.  `OneSequence` is needed in
turn: inside a string no other flag may survive the string's end.  There is one lemma for each
way a byte is received; `ControlsKeep` and `ControlFlags` are shared by the two that call
`tcontrolcode`.

The other three compare the parser with the sender.  `FreshInv`: while the byte after ESC
is awaited, no other flag is set, and if none is set, it is awaited.  `StringInv`: ESC_STR is
set only while a string is open, ESC_STR_END only after its end, and a string with
either is not handled yet.  `CsiInv` and `BodyInv`: the buffers hold what was
sent; for a string, all of it, or a beginning of it in a buffer that is full for good.

**`Tty_proofs`**, from `TtyAssumption` alone:

- `CallsTyped`, `ParsedOnce`: `TypeOK`, `ParsedInOrder`
- `KeysInOrder`: `Spec => []WrittenInOrder`

The invariant has the frames' types with their limits (`Typed`), `buflen` as the number of
bytes of the one read in progress (`Counted`), the numbers in the queue
(`QueueNumbered`) and those of the array behind the parser's position (`OneRead`).  The last
three are claimed until `ttyread` is re-entered; calls alternate up to there, so that a read
in progress is the only one.

`WrittenInOrder` is inductive together with `Callers`: a key's write is the outermost call, an
answer is written by the call of ttyread that parsed the question, so no call writes between the
chunks of another of its own source.  What is queued of a source is a gapless run
of numbers up to the first one not yet written (`Numbered`); each of the steps that write, read
from the queue, start or end a call keeps the run, adds at its end, or takes from its beginning.

**`Selection_proofs`**, from `SizeAssumption` and `LinesAssumption`:

- `SelectionInWindow`: the ends of the selection stay rows of the window
- `HighlightIsCopied`: `Spec => []HighlightCopied`, that is, until the place is lost in one of the five
  ways of section 2
- `RegionsToTheEnd`: `Spec => []KeptByRegions`, if every scroll region of the program ends in the
  last row: then the way `region` needs no exception

The invariant adds to the first that a selection hidden by the other screen is not
changed (`AltHidden`), and that as long as the place is kept the selected rows of the Term the
selection was made on show lines of `copied` (`Copies`).  The property itself is about
the visible Term only; what happens while the selection is hidden is in the invariant.

**`MainLoop_proofs`**, from `RowsAssumption` alone: a window has at least one row.

- `SleepsDrawn`: `Spec => []SleepsUpToDate`
- `CleanWithoutRegions`: `~Regions /\ Spec => []CleanRowsRight`

The first needs `WaitsPainted`: the loop chooses to wait without a timeout only after a drawing
(`rest`), and between that and the pselect nothing is left undrawn that the server does not
report by an event that ends the wait.  The second needs the rows' contents at the bottom of the
history (`Clean`) and that the scroll region ends in the last row, the hypothesis: with a region
the property is false, see `MainLoop_status` in section 6.

**`Input_proofs`**, about `Paste` from `PasteAssumption` (chunks hold at least one unit) and
`TextsAssumption` (texts are sequences of the model's bytes or characters):

- `PasteTyped`: `Spec => []TypeOK`
- `TextDelivered`: `Spec => []NothingLost`
- `MaskReset`: `Spec => []MaskOff`

So what the run paste checks for two texts and chunks of two units holds for texts of any length,
cut anywhere, also within a character, and owners that send pieces of any sizes.  `NothingLost`
is not inductive: it says nothing of a paste under way.  The invariant has two parts.

1. `Held`, which holds also when pastes overlap: the types, `Kept` (as long as an owner was only
   asked, no event and no call is about that selection) and `Chunks` (a call of selnotify that is
   not about to read has a chunk that fits, and with a rest the property still is what it was read from).
2. `Alone`, while no two pastes overlapped: there is one selection that everything under way belongs
   to, in one of eleven stages (`Stage`) of request, refusal, whole transfer or INCR transfer, and for
   it `Balance`: the text is what was written, turned back into bytes, then what of the property is
   not yet written, then what the owner still has.  Every action either moves units from one of the three
   to the next, or changes none of them.

The stages are what makes the second part inductive: the deletion of the property is the owner's
signal to send the next piece, so a stage has to say which of property, event and call exist.
The largest lemmas are on the conversions: `Undone` of what `ttywrite(from_utf8(s))` appends is s
(`PasteWrites`), for every s and whatever the mode of line endings.  They are proved over the
recursive function in `FlattenSeq` by the least position for which they would fail (`Least`, `UpTo`).

About `Keyboard`, from `TablesAssumption`: a table is a sequence of bindings, none of keysym 0 (the
program stops at one).

- `ShortcutsSorted`: `KeySpec => []TableOK`
- `KeysFind`: `KeySpec => []PressFinds`
- `CatchAllNeverRuns`: `KeySpec => []CatchAllMissed`

The invariant `KInv` adds to `TableOK` that the keysym being placed is the least of those not
sorted (`Placing`).  A swap permutes the table and leaves the sorted part; a table that is sorted and
has the declared bindings gives kpress the same bindings of the key's own as the declared one, so that stopping
at the first greater keysym loses none of them.  It does lose those of ALL_KEYS, which is greater than every
key's: in no table, and in no mode, does such a binding run.

## 5. What is only model-checked, and what is not modelled

Every invariant and every action property of the passing runs is proved, under the assumptions
of its run or weaker ones.  Only model-checked are the liveness properties, `DownScanEnds`,
`WriteEnds`, `OutputParsed`, `PasteEnds` and `EventsHandled`, and what sections 3 and 6 show to be
violated.  `CleanRowsRight` is proved, and holds, without scroll regions only.  Liveness is out of the
prover's reach:
TLAPS proves neither liveness under fairness nor ENABLED, nor facts about RECURSIVE operators
(none is used in a module with proofs).  Its theorems of induction take operators as parameters,
which no installed backend can instantiate; where induction was needed, sums of sequences and the
least of a set, the proofs argue by a least counterexample.

Not modelled:

- Fonts, colours, drawing on the X window, X resources: calls to Xlib and Xft, and caches
  of theirs without a history.  Start-up, options, allocators that die: run once.
- Character sets, UTF-8, base64: pure functions of tables.  What `Paste` needs of
  them it has.
- `src/ori/st.c` (the original st), `src/tools/` (tic of ncurses, deflate, the
  generators), the texts of help, manual and licence, and the tables of colours, fonts and keys in
  config.h.  These are most of the repository's lines: st.c, tic and deflate alone
  are over 8000.  None is part of the running program's logic.
- Within modelled parts: columns, except for the capacity of a line; attributes of glyphs; origin
  mode; failing malloc, which ends the process; the parameters of sequences (csiparse, strparse)
  and the sharing of the parser's buffers by three Terms; opening the pty, hangup and break;
  `mousereport`; the text of the status bar and what a keyboard selection writes over the bottom line;
  resizes during a selection.
- Two slips seen in the part left out, which one test each would show: ED 1 leaves the first row when the
  cursor is in the second (controlchars.c:367), and a blinktimeout of 954 to 1023 ms makes
  nanoseconds above 10^9 (xevent.c:144).

Under "hazards", `PROJECT.json` names those that no property covers, with the reason.

## 6. What the runs found

1. **paste_modes** (xclipboard.c:297).  `IS_SET` tests `term->mode` in the files before
   xwindow.c in the translation unit and `twin.mode` after, and bits are tested in the other
   word than the one they are set in.  controlchars.c:821 sets bracketed paste in
   `twin.mode`, xclipboard.c looks in `term->mode`: a paste gets no
   brackets.  controlchars.c:851 sets newline mode in `term->mode`, tty.c
   looks in `twin.mode`, where the same bit is mode 1000: with mouse reports on, a line feed
   follows Return.
2. **keys_order** (xkeyboard.c:120).  config.h:406-407 says that the first matching binding is used,
   xkeyboard.c:96-97 that the sort is stable.  `sort_shortcuts` swaps the binding it places
   with the one standing there, which so goes behind later ones of its own key.  Ctrl+Print
   runs printsel instead of toggleprinter.

More disagreements between code and comments were met while modelling.  Each has a
configuration, to be run by hand with `tlc -config X.cfg M`, which ends with a
counterexample; the runs of section 3 state their assumptions so as to keep clear of them.

| Configuration, module | Property | What the code does |
|---|---|---|
| `LineRing_reverse`, MCLineRing | `WrittenLines` | globals.h:204-206 says histindex indicates the number of written lines until the buffer is circled. A reverse index on the top row decrements it modulo the ring (scroll.c:153): on an empty history it becomes histsize with `circledhist` still 0, and the view is let into slots that hold NULL. |
| `LineRing_enlarge`, MCLineRing | `ViewColumns` | globals.h:202 says colalloc is the columns allocated in the history. Before the ring has wrapped `tresize` (term.c:420) enlarges slots 0 .. histindex-1, but the newest line is in slot histindex: the view reads past its end. |
| `Screens_cursor`, MCScreens | `CursorRestored` | controlchars.c:796 says 1049 sets and restores the cursor as xterm. On the first 1049h `tnew` calls `treset` (term.c:140), which saves the new Term's home cursor over the shell's. |
| `Screens_help`, MCScreens | `QExits` | term.c:241 shows "-HELP- ( q to exit )". If the program switches screens under the help (term.c:235), `inputmode` keeps the help's bit and q shows the help again. |
| `Scrollback_scan`, Scrollback | `UpScanEnds` | retmarks.c:11 says the function scans upwards for the next mark. The loop compares the index before masking it (retmarks.c:13): with a full ring of marks, its index at the last place and a view above the oldest mark it does not end. |
| `Scrollback_bookmark`, Scrollback | `ScrWritten` | globals.h:207-208 says scr=0 is the bottom. Shift+Return stores a line that may still be on the screen in bookmark 0; going there makes `scr` negative (scroll.c:130). |
| `Scrollback_reverse`, Scrollback | `ScrWritten` | The same. A reverse index on the top row lowers `histindex` (scroll.c:153) and no bookmark: going to one set before makes `scr` negative, and a view scrolled to the top is left above the first line. |
| `Scrollback_wrapped`, Scrollback | `ScrInRing` | The same. `scrollmark` subtracts indices that the ring's mask has wrapped: a bookmark set before the wrap makes `scr` negative. |
| `Keyboard_help`, MCKeyboard | `HelpAborts` | config.h:470-471 says that processing is aborted in the help and binds ALL_KEYS to a dummy there. The search breaks at a greater keysym first (xkeyboard.c:199), so the binding never runs (theorem `CatchAllNeverRuns`). In the help itself kpress returns all the same (xkeyboard.c:213); where a screen switch has left the help's input mode behind, keys reach the program. |
| `Selection_lost`, MCSelection, with `-continue` | `KeptByScrolls`, `KeptByRegions`, `KeptByScreens`, `KeptByText`, `KeptByHelp` | The promise of `HighlightCopied` in spite of each of the five ways of section 2, one by one: all are broken (selection.c:344, termdraw.c:243). No comment says otherwise. |
| `EscParser_dcs`, EscParser | `ControlsPerformed` | controlchars.c:74-77 says that control codes must be performed as soon as they arrive. At the end of a DCS `strhandle` (controlchars.c:534) sets ESC_DCS in `term->mode`, where the bit is MODE_SIXEL: the next string has no effect and takes the control code at its end with it. |
| `MainLoop_status`, MainLoop | `CleanRowsRight` | Hiding the status bar repaints the last row of the scroll region (statusbar.c:226), not the row the bar is drawn on: with a region that ends above, the bar stays in the window. |

## 7. Plan

Done, in this order: LineRing with its abstract specification, Scrollback, Screens, EscParser;
Tty, Paste, Keyboard, MainLoop, Selection; theorems for every safety property (section 4).  What is left, by
what it would add:

1. `Screens` and `Scrollback` composed, for the less-mode entry that a scroll of another
   Term may consume (scroll.c:246), and `EscParser` with three Terms that share its
   buffers (controlchars.c:6).
2. A CSI sequence's parameters (`csiparse`), and what is promised of CAN and SUB.
3. Columns: insertions and deletions of characters, tabs, the clearing of parts of a row, and the
   selection's columns with its snapping.
4. `Selection` with resizes, and with the bottom line that a keyboard selection
   saves and writes back.
5. The order in which two overlapping pastes should be served, as an abstract
   specification to compare `Paste` with.
