------------------------------ MODULE Keyboard ------------------------------
(***************************************************************************)
(* xkeyboard.c with the tables of config.h: sort_shortcuts, run once by    *)
(* main, and kpress, run for every key event.                              *)
(*                                                                         *)
(* sort_shortcuts sorts shortcuts by keysym in place, so that the search   *)
(* of kpress may stop at the first greater keysym.  The bindings of one    *)
(* keysym overlap: several match one press, and the first in the table     *)
(* wins.                                                                   *)
(*                                                                         *)
(* set_retmark, which kpress calls for Return at the bottom of the history,*)
(* is in Scrollback.  What the bound functions do is in Screens,           *)
(* Scrollback and Paste; here their effect is that the modes kpress reads  *)
(* may be any of those the program and the user can reach.                 *)
(***************************************************************************)
EXTENDS Integers, Sequences

CONSTANTS Tables,   \* the tables sort_shortcuts is given
          States    \* the modifiers held in a key event

VARIABLES declared, \* the table in the order of config.h
          table,    \* shortcuts
          pt,       \* where the next binding is put
          scan,     \* a, the inner loop's index
          bing,     \* the least keysym not yet placed
          phase,    \* of sort_shortcuts: "find", "place"; then "ready"
                    \* for a key, or "pressed"
          inputmode, help, \* inputmode, and TMODE_HELP of the visible Term
          mode,     \* the bits of twin.mode kpress looks at
          last      \* what the last key press did

sortVars == <<declared, table, pt, scan, bing, phase>>
modeVars == <<inputmode, help, mode>>
keyVars == <<sortVars, modeVars, last>>

(***************************************************************************)
(* Modifiers, input modes and keysyms.                                     *)
(***************************************************************************)
CONTROL == {"Control"}
SHIFT == {"Shift"}
ALT == {"Alt"}
WIN == {"Win"}
TERMMOD == CONTROL \cup SHIFT
SETBOOKMARKMASK == CONTROL \cup ALT
AnyMod == {"any"}

\* inputmode has the bit "default" always; MODE_LESS and IMODE_HELP are added.
ALLMODES == {"default", "less", "help"}

\* Stands for UINT_MAX-1: greater than every keysym of a key.
ALL_KEYS == 70000

XK == [space |-> 32, q |-> 113, s |-> 115, ISO_Left_Tab |-> 65056, BackSpace |-> 65288,
       Tab |-> 65289, Return |-> 65293, Scroll_Lock |-> 65300, Escape |-> 65307,
       Home |-> 65360, Up |-> 65362, Down |-> 65364, Page_Up |-> 65365, Page_Down |-> 65366,
       End |-> 65367, PrintKey |-> 65377, Insert |-> 65379, Break |-> 65387,
       Num_Lock |-> 65407, F1 |-> 65470, F12 |-> 65481, Delete |-> 65535]

Bind(m, k, f, im) == [mod |-> m, keysym |-> k, func |-> f, inputmode |-> im]

\* sort_shortcuts stops the program at a binding of no keysym.
Bindings == [mod : SUBSET (TERMMOD \cup ALT \cup WIN \cup AnyMod), keysym : 1..ALL_KEYS,
             func : STRING, inputmode : SUBSET ALLMODES]

ASSUME TablesAssumption == \A t \in Tables : t \in Seq(Bindings)

\* Ten bindings, for the keys 1, ..., 9, 0.
BindDigits(m, f, im) == [i \in 1..10 |-> Bind(m, 48 + (i % 10), f, im)]

View(im) == \* the keys that move the view, bound alike for less mode and help
  << Bind(AnyMod, XK.Up, "up", im), Bind(AnyMod, XK.Down, "down", im),
     Bind(AnyMod, XK.Page_Up, "page up", im), Bind(AnyMod, XK.Page_Down, "page down", im),
     Bind(AnyMod, XK.space, "page down", im),
     Bind(AnyMod, XK.End, "bottom", im), Bind(AnyMod, XK.Home, "top", im) >>

\* The table of config.h.  The functions' arguments are part of their names.
shortcuts ==
  << Bind(CONTROL, XK.F1, "showhelp", ALLMODES),
     Bind(AnyMod, XK.Break, "sendbreak", ALLMODES),
     Bind(CONTROL, XK.PrintKey, "toggleprinter", ALLMODES), Bind(SHIFT, XK.PrintKey, "printscreen", ALLMODES),
     Bind(AnyMod, XK.PrintKey, "printsel", ALLMODES),
     Bind(TERMMOD, 73, "inverse_screen", ALLMODES),
     Bind(TERMMOD \cup ALT \cup WIN, 73, "dump_terminfo", {"default"}),
     Bind(TERMMOD, XK.Page_Up, "zoom +", ALLMODES), Bind(TERMMOD, XK.Page_Down, "zoom -", ALLMODES),
     Bind(TERMMOD, XK.BackSpace, "zoomreset", ALLMODES),
     Bind(TERMMOD, XK.Insert, "fontwidth -", ALLMODES), Bind(TERMMOD, XK.Delete, "fontwidth +", ALLMODES),
     Bind(TERMMOD, XK.End, "fontheight -", ALLMODES), Bind(TERMMOD, XK.Home, "fontheight +", ALLMODES),
     Bind(SHIFT, XK.Page_Up, "page up", ALLMODES), Bind(SHIFT, XK.Page_Down, "page down", ALLMODES),
     Bind(SHIFT, XK.End, "bottom", ALLMODES), Bind(SHIFT, XK.Home, "top", ALLMODES),
     Bind(SHIFT, XK.Up, "up 3", ALLMODES), Bind(SHIFT, XK.Down, "down 3", ALLMODES) >>
  \o View({"less"})
  \o << Bind(AnyMod, XK.q, "quithelp", {"help"}), Bind(AnyMod, XK.Escape, "quithelp", {"help"}) >>
  \o View({"help"})
  \o << Bind(AnyMod, ALL_KEYS, "dummy", {"help"}),
        Bind(TERMMOD, 67, "clipcopy", ALLMODES), Bind(TERMMOD, 86, "clippaste", ALLMODES),
        Bind(TERMMOD, 89, "selpaste", ALLMODES), Bind(SHIFT, XK.Insert, "selpaste", ALLMODES),
        Bind(TERMMOD, 83, "keyboard_select", ALLMODES), Bind(ALT, XK.s, "keyboard_select", ALLMODES),
        Bind(TERMMOD, XK.Num_Lock, "numlock", ALLMODES) >>
  \o BindDigits(SETBOOKMARKMASK, "set_scrollmark", ALLMODES) \o BindDigits(CONTROL, "scrollmark", ALLMODES)
  \o BindDigits(AnyMod, "retmark", {"less"})
  \o << Bind(SETBOOKMARKMASK, XK.Return, "enterscroll", ALLMODES), Bind(SHIFT, XK.Return, "enterscroll", ALLMODES),
        Bind(SHIFT, XK.BackSpace, "retmark up", ALLMODES), Bind(SHIFT, XK.ISO_Left_Tab, "retmark up", ALLMODES),
        Bind(AnyMod, XK.BackSpace, "retmark up", {"less"}), Bind(AnyMod, XK.Tab, "retmark down", {"less"}),
        Bind(ALT \cup SHIFT, XK.Up, "less, up 3", ALLMODES), Bind(ALT \cup SHIFT, XK.Page_Up, "less, page up", ALLMODES),
        Bind(ALT \cup SHIFT, XK.Page_Down, "less, page down", ALLMODES), Bind(ALT \cup SHIFT, XK.Down, "less, down 3", ALLMODES),
        Bind(ALT \cup SHIFT, XK.Home, "less, top", ALLMODES),
        Bind(ALT \cup SHIFT, 76, "lessmode_toggle", ALLMODES), Bind(AnyMod, XK.Scroll_Lock, "lessmode_toggle", ALLMODES),
        Bind(AnyMod, XK.Escape, "less off", {"less"}), Bind(AnyMod, XK.q, "less off", {"less"}),
        Bind(SHIFT, XK.Return, "lessmode_toggle", {"less"}) >>
  \o BindDigits(CONTROL \cup WIN, "set_charmap", ALLMODES)

(***************************************************************************)
(* sort_shortcuts.                                                         *)
(***************************************************************************)
NoPress == [key |-> 0, state |-> {}, func |-> "none", sent |-> <<>>]

KeyInit == /\ declared \in Tables
           /\ table = declared
           /\ pt = 1 /\ scan = 1 /\ bing = 0
           /\ phase = "find"
           /\ inputmode = {"default"} /\ help = FALSE
           /\ mode = [kbdlock |-> FALSE, kbdselect |-> FALSE, eight |-> TRUE]
           /\ last = NoPress

Unplaced == {table[i].keysym : i \in pt..Len(table)}

\* A round starts with the least keysym at pt or behind; none is left: break.
FindLeast == /\ phase = "find"
             /\ \/ /\ Unplaced # {}
                   /\ bing' = CHOOSE k \in Unplaced : \A j \in Unplaced : k <= j
                   /\ scan' = pt
                   /\ phase' = "place"
                \/ /\ Unplaced = {}
                   /\ phase' = "ready"
                   /\ UNCHANGED <<bing, scan>>
             /\ UNCHANGED <<declared, table, pt, modeVars, last>>

SwappedMut(i) == [table EXCEPT ![pt] = table[i]] \* the swap forgets one side

Swapped(i) == [table EXCEPT ![i] = table[pt], ![pt] = table[i]]

\* The next binding of that keysym changes places with the one at pt.
PlaceNext == /\ phase = "place"
             /\ \E i \in scan..Len(table) :
                  /\ table[i].keysym = bing
                  /\ \A j \in scan..i - 1 : table[j].keysym # bing
                  /\ table' = Swapped(i)
                  /\ scan' = i + 1
             /\ pt' = pt + 1
             /\ UNCHANGED <<declared, bing, phase, modeVars, last>>

RoundEnds == /\ phase = "place"
             /\ \A i \in scan..Len(table) : table[i].keysym # bing
             /\ phase' = "find"
             /\ UNCHANGED <<declared, table, pt, scan, bing, modeVars, last>>

(***************************************************************************)
(* kpress.                                                                 *)
(***************************************************************************)
\* ignoremod takes num lock out of the state.
Match(mask, state) == mask = AnyMod \/ mask = state \ {"Num"}

Matches(b, k, state) == /\ k = b.keysym \/ b.keysym = ALL_KEYS
                        /\ Match(b.mod, state)
                        /\ b.inputmode \cap inputmode # {}

ReachedMut(k) == {i \in DOMAIN table : \A j \in 1..i : table[j].keysym < k} \* stops at k

\* The places the loop looks at: up to the first greater keysym.
Reached(k) == {i \in DOMAIN table : \A j \in 1..i : table[j].keysym <= k}

Found(k, state) == {i \in Reached(k) : Matches(table[i], k, state)}

FirstFound(k, state) == CHOOSE i \in Found(k, state) : \A j \in Found(k, state) : i <= j

\* The table key, as the keysyms and modifiers it has entries for.  Which string
\* is sent depends on the keypad and cursor modes; that one is sent does not.
Cursor == XK.Up - 1..XK.Down
key == UNION {
  {XK.Return} \X {ALT, AnyMod},
  Cursor \X {SHIFT, ALT, ALT \cup SHIFT, CONTROL, TERMMOD, SETBOOKMARKMASK, TERMMOD \cup ALT, AnyMod},
  {XK.Insert, XK.Delete, XK.End, XK.Page_Up, XK.Page_Down} \X {CONTROL, SHIFT, AnyMod},
  {XK.Home} \X {SHIFT, AnyMod},
  {XK.BackSpace} \X {{}, ALT},
  {XK.ISO_Left_Tab} \X {SHIFT},
  (XK.F1..XK.F12) \X {{}, SHIFT, CONTROL, WIN, ALT} }

Mapped(k, state) == \E e \in key : e[1] = k /\ Match(e[2], state)

\* What kmap may send.  It looks in key for function keys only; the rest, when
\* not ASCII, is one byte of the codepage, or ~ when the codepage has no such
\* character.
kmap(k, state) == IF k >= 64768 THEN {IF Mapped(k, state) THEN <<"mapped">> ELSE <<>>}
                  ELSE IF k > 128 THEN {<<"codepage">>, <<"~">>} ELSE {<<>>}

\* The string of the input method, of length len.
Composed(state, len) ==
  IF len = 0 THEN <<>>
  ELSE IF len = 1 /\ "Alt" \in state
       THEN <<IF mode.eight THEN "eighth bit" ELSE "escape first">>
  ELSE <<"composed">>

\* What may go to the program when no function is bound: after ~ kmap returns
\* 0, so that the string follows.
Sent(k, state, len) ==
  IF help THEN {<<>>}
  ELSE {IF s \in {<<"mapped">>, <<"codepage">>} THEN s ELSE s \o Composed(state, len)
          : s \in kmap(k, state)}

Press(k, state, f, sent) == last' = [key |-> k, state |-> state, func |-> f, sent |-> sent]

KeyLocked(k, state) == /\ mode.kbdlock
                       /\ Press(k, state, "locked", <<>>)

\* The keys of the keyboard selection; with Control or Alt alone they are dropped.
KeySelects(k, state) ==
  /\ ~mode.kbdlock /\ mode.kbdselect
  /\ \/ /\ Match({}, state) \/ state \cap {"Shift", "Win"} # {}
        /\ Press(k, state, "trt_kbdselect", <<>>)
     \/ /\ ~Match({}, state) /\ state \cap {"Shift", "Win"} = {}
        /\ Press(k, state, "dropped", <<>>)

KeyBound(k, state) ==
  /\ ~mode.kbdlock /\ ~mode.kbdselect
  /\ Found(k, state) # {}
  /\ Press(k, state, table[FirstFound(k, state)].func, <<>>)

KeySent(k, state) ==
  /\ ~mode.kbdlock /\ ~mode.kbdselect
  /\ Found(k, state) = {}
  /\ \E len \in IF k < 256 THEN {1} ELSE IF k < 65500 THEN {0, 1} ELSE {0} :
       \E sent \in Sent(k, state, len) : Press(k, state, "none", sent)

\* Every key with a binding, and two without: a, and an umlaut.
Keys == ({declared[i].keysym : i \in DOMAIN declared} \ {ALL_KEYS}) \cup {97, 228}

kpress == /\ phase = "ready"
          /\ \E k \in Keys, state \in States :
               \/ KeyLocked(k, state)
               \/ KeySelects(k, state)
               \/ KeyBound(k, state)
               \/ KeySent(k, state)
          /\ phase' = "pressed"
          /\ UNCHANGED <<declared, table, pt, scan, bing, modeVars>>

\* The function bound to a key, and the program, change the modes before the
\* next press: less mode, the help, bits of twin.mode.  The help's Term is shown
\* with the bit of the help alone, since showhelp takes less mode's and less mode
\* is for the shell's screen.  A program that switches screens under the help
\* leaves that bit in inputmode, also for less mode and when the help, shown
\* again, has quit.
Modes == /\ phase = "pressed"
         /\ \/ /\ inputmode' \in {{"default"} \cup im : im \in SUBSET {"less", "help"}}
               /\ help' \in BOOLEAN
               /\ help' => inputmode' = {"default", "help"}
               /\ UNCHANGED mode
            \/ /\ \E f \in DOMAIN mode : mode' = [mode EXCEPT ![f] = ~@]
               /\ UNCHANGED <<inputmode, help>>
         /\ phase' = "ready"
         /\ last' = NoPress
         /\ UNCHANGED <<declared, table, pt, scan, bing>>

KeyNext == FindLeast \/ PlaceNext \/ RoundEnds \/ kpress \/ Modes

KeySpec == KeyInit /\ [][KeyNext]_keyVars

-----------------------------------------------------------------------------
(***************************************************************************)
(* sort_shortcuts loses no binding and repeats none: at every moment the   *)
(* table holds the declared ones, the places before pt are sorted, and     *)
(* when it is done all are.                                                *)
(***************************************************************************)
TableOK ==
  /\ Len(table) = Len(declared)
  /\ {table[i] : i \in DOMAIN table} = {declared[i] : i \in DOMAIN declared}
  /\ pt \in 1..Len(table) + 1 /\ scan \in 1..Len(table) + 1
  /\ phase \in {"find", "place", "ready", "pressed"}
  /\ \A i \in 1..pt - 1 : \A j \in i..Len(table) : table[i].keysym <= table[j].keysym
  /\ phase \in {"ready", "pressed"} => pt = Len(table) + 1

(***************************************************************************)
(* The declared bindings that kpress's condition is true of, those of      *)
(* ALL_KEYS among them, and the key's own.                                 *)
(***************************************************************************)
BoundFor(k, state) == {i \in DOMAIN declared : Matches(declared[i], k, state)}
OwnFor(k, state)   == {i \in BoundFor(k, state) : declared[i].keysym = k}

Handled == phase = "pressed" /\ ~mode.kbdlock /\ ~mode.kbdselect

(***************************************************************************)
(* A key that has a binding of its own for its modifiers and the input     *)
(* mode runs one of those, wherever it stands in the table, and is not     *)
(* sent to the program; a key that no binding matches runs nothing.        *)
(* (kpress searches a sorted table and stops early.)  Where a binding of   *)
(* ALL_KEYS alone matches, HelpAborts says what config.h means by it, and  *)
(* CatchAllMissed what the code does.                                      *)
(***************************************************************************)
PressFinds ==
  Handled =>
    LET Own == OwnFor(last.key, last.state)
    IN /\ Own # {} => last.sent = <<>> /\ \E i \in Own : declared[i].func = last.func
       /\ BoundFor(last.key, last.state) = {} => last.func = "none"

(***************************************************************************)
(* config.h 470: "abort precessing when in the help view".  The binding    *)
(* of ALL_KEYS is to keep every other key from the program.                *)
(***************************************************************************)
HelpAborts == Handled /\ "help" \in inputmode => last.sent = <<>>

(***************************************************************************)
(* The search stops in front of that binding, which has the greatest       *)
(* keysym: no key without a binding of its own runs a function, in the     *)
(* help either.                                                            *)
(***************************************************************************)
CatchAllMissed == Handled /\ OwnFor(last.key, last.state) = {} => last.func = "none"

(***************************************************************************)
(* config.h 406: the first matching binding is used, the table is matched  *)
(* in its order.                                                           *)
(***************************************************************************)
FirstMatches ==
  Handled =>
    LET Own == OwnFor(last.key, last.state)
    IN Own # {} => \E i \in Own : /\ declared[i].func = last.func
                                  /\ \A j \in Own : i <= j

=============================================================================
