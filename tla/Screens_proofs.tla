---------------------------- MODULE Screens_proofs ----------------------------
(***************************************************************************)
(* Theorems about Screens, for every set of window heights, every mode of  *)
(* switching, and all programs and users that keep to the two conditions   *)
(* of the run of TLC, stated here as QuietProgram and CarefulUsers.        *)
(***************************************************************************)
EXTENDS Screens, TLAPS

\* The program sends no RIS on the alternate screen, and while the help is
\* shown it does not switch screens, reset, or save the cursor.
QuietProgram == /\ Sent["alt"] \cap {"RIS"} = {}
                /\ Sent["help"] \cap {"ALT", "RIS", "DECSC"} = {}

\* A user opens the help on the shell's screen only, or resizes there only.
CarefulUsers == \A u \in Users : u.help \subseteq {"main"} \/ u.resize \subseteq {"main"}

\* What is left behind under the help fits the screen it will uncover.
UnderHelp ==
  term = "help" => /\ helpbit
                   /\ storedterm \in {"main", "alt"} /\ rows[storedterm] # 0
                   /\ "HELP" \notin storedinput
                   /\ storedterm = "alt" => "LESS" \notin storedinput

\* p_term is always there, and as high as the window if only it is resized.
MainSized == /\ rows["main"] # 0
             /\ user.resize \subseteq {"main"} => rows["main"] = window

IInv == /\ TypeOK /\ ViewSized /\ HelpKeys /\ LessOnMain /\ AltFlag
        /\ UnderHelp /\ MainSized /\ cy \in [Terms -> Int]

\* Where tmoveato and tcursor may put the cursor of a Term h rows high.
LEMMA LimitFacts ==
  ASSUME NEW h \in Heights, NEW x \in Int
  PROVE /\ h \in Nat /\ h >= 1
        /\ Limit(x, 0, h - 1) \in 0 .. h - 1
        /\ Loaded(x, h) \in 0 .. h - 1
BY ScreensAssumption DEF Limit, Loaded

\* Types in the form the steps below use.
LEMMA TypeFacts ==
  ASSUME IInv
  PROVE /\ term \in Terms /\ rows \in [Terms -> Heights \cup {0}]
        /\ rows[term] \in Heights /\ rows["main"] \in Heights
        /\ \A t \in Terms : rows[t] # 0 => rows[t] \in Heights
        /\ cy \in [Terms -> Int] /\ saved[0] \in Int /\ saved[1] \in Int
        /\ 0 \notin Heights
        /\ "main" \notin altbit /\ "help" \notin altbit
        /\ "alt" \in altbit <=> rows["alt"] # 0
<1>1. /\ term \in Terms /\ rows \in [Terms -> Heights \cup {0}] /\ rows[term] # 0
      /\ saved \in [{0, 1} -> Nat] /\ rows["main"] # 0 /\ cy \in [Terms -> Int]
  BY DEF IInv, TypeOK, MainSized
<1>2. Heights \subseteq Nat \ {0}
  BY ScreensAssumption
<1>3. "main" \notin altbit /\ "help" \notin altbit /\ ("alt" \in altbit <=> rows["alt"] # 0)
  BY DEF IInv, AltFlag
<1> QED
  BY <1>1, <1>2, <1>3 DEF Terms

\* The cursor part of TypeOK.
OnScreen(c, r) == \A t \in Terms : c[t] \in 0 .. (IF r[t] = 0 THEN 0 ELSE r[t] - 1)

\* If the height and cursor of one Term change, it is enough to look at that one.
LEMMA OnScreenKept ==
  ASSUME NEW c \in [Terms -> Int], NEW r \in [Terms -> Heights \cup {0}], OnScreen(c, r),
         NEW t \in Terms, NEW h \in Heights, NEW y \in 0 .. h - 1
  PROVE /\ OnScreen([c EXCEPT ![t] = y], [r EXCEPT ![t] = h])
        /\ [c EXCEPT ![t] = y] \in [Terms -> Int]
        /\ [r EXCEPT ![t] = h] \in [Terms -> Heights \cup {0}]
<1>1. h # 0 /\ y \in Int
  BY ScreensAssumption, LimitFacts
<1> DEFINE d == [c EXCEPT ![t] = y]
           q == [r EXCEPT ![t] = h]
<1>2. ASSUME NEW u \in Terms
      PROVE d[u] \in 0 .. (IF q[u] = 0 THEN 0 ELSE q[u] - 1)
  BY <1>1, <1>2 DEF OnScreen
<1>3. OnScreen(d, q)
  BY <1>2 DEF OnScreen
<1>4. d \in [Terms -> Int] /\ q \in [Terms -> Heights \cup {0}]
  BY <1>1
<1> QED
  BY <1>3, <1>4

\* The program's steps that stay on the visible Term: only its cursor and the
\* saved ones change, and RIS resets flags that are not set.
LEMMA CursorStep ==
  ASSUME IInv, UNCHANGED <<term, rows, altbit, helpbit, storedterm, inputmode, storedinput,
                           window, user>>,
         NEW y \in 0 .. rows[term] - 1, cy' = [cy EXCEPT ![term] = y],
         saved' \in [{0, 1} -> Nat]
  PROVE IInv'
<1>1. /\ term \in Terms /\ rows[term] \in Heights
      /\ cy \in [Terms -> Int] /\ rows \in [Terms -> Heights \cup {0}]
  BY TypeFacts
<1>2. OnScreen(cy, rows)
  BY DEF IInv, TypeOK, OnScreen
<1>3. [rows EXCEPT ![term] = rows[term]] = rows
  BY <1>1
<1>4. OnScreen(cy', rows) /\ cy' \in [Terms -> Int]
  <2> DEFINE h == rows[term]
  <2>1. h \in Heights /\ y \in 0 .. h - 1
    BY <1>1
  <2> HIDE DEF h
  <2>2. /\ OnScreen([cy EXCEPT ![term] = y], [rows EXCEPT ![term] = h])
        /\ [cy EXCEPT ![term] = y] \in [Terms -> Int]
    BY <1>1, <1>2, <2>1, OnScreenKept
  <2> QED
    BY <1>3, <2>2 DEF h
<1>5. TypeOK'
  BY <1>4 DEF IInv, TypeOK, OnScreen
<1> QED
  BY <1>4, <1>5 DEF IInv, ViewSized, HelpKeys, LessOnMain, AltFlag, UnderHelp, MainSized

\* The cursor of the visible Term is a row of the window.
LEMMA VisibleRow ==
  ASSUME IInv
  PROVE cy[term] \in 0 .. rows[term] - 1 /\ OnScreen(cy, rows)
<1>1. term \in Terms /\ rows[term] # 0
  BY TypeFacts
<1>2. OnScreen(cy, rows)
  BY DEF IInv, TypeOK, OnScreen
<1> QED
  BY <1>1, <1>2 DEF OnScreen

\* DECSC, DECRC, CUP and RIS.
LEMMA TtyKeeps ==
  ASSUME IInv, QuietProgram,
         SaveCursor \/ LoadCursor \/ (\E y \in 0 .. rows[term] - 1 : MoveCursor(y)) \/ Reset
  PROVE IInv'
<1>0. /\ term \in Terms /\ rows[term] \in Heights /\ rows[term] \in Nat /\ rows[term] >= 1
      /\ cy \in [Terms -> Int] /\ saved \in [{0, 1} -> Nat]
      /\ cy[term] \in Nat /\ cy[term] \in 0 .. rows[term] - 1
      /\ Slot(term, altbit) \in {0, 1}
  <2>1. rows[term] \in Heights
    BY TypeFacts
  <2> QED
    BY <2>1, TypeFacts, LimitFacts, VisibleRow DEF IInv, TypeOK, Slot
<1>1. CASE SaveCursor
  <2>1. cy' = [cy EXCEPT ![term] = cy[term]]
    BY <1>0, <1>1 DEF SaveCursor
  <2>2. saved' \in [{0, 1} -> Nat]
    BY <1>0, <1>1 DEF SaveCursor
  <2>3. UNCHANGED <<term, rows, altbit, helpbit, storedterm, inputmode, storedinput, window, user>>
    BY <1>1 DEF SaveCursor, Sends
  <2> QED
    BY <1>0, <2>1, <2>2, <2>3, CursorStep
<1>2. CASE LoadCursor
  <2> DEFINE y == Loaded(saved[Slot(term, altbit)], rows[term])
  <2>1. y \in 0 .. rows[term] - 1
    <3>1. saved[Slot(term, altbit)] \in Int
      BY <1>0
    <3> QED
      BY <1>0, <3>1, LimitFacts
  <2>2. cy' = [cy EXCEPT ![term] = y] /\ saved' = saved
        /\ UNCHANGED <<term, rows, altbit, helpbit, storedterm, inputmode, storedinput, window, user>>
    BY <1>2 DEF LoadCursor, Sends
  <2> HIDE DEF y
  <2> QED
    BY <1>0, <2>1, <2>2, CursorStep
<1>3. CASE \E y \in 0 .. rows[term] - 1 : MoveCursor(y)
  <2>1. PICK y \in 0 .. rows[term] - 1 : MoveCursor(y)
    BY <1>3
  <2> DEFINE z == Limit(y, 0, rows[term] - 1)
  <2>2. z \in 0 .. rows[term] - 1
    <3>1. y \in Int
      BY <1>0
    <3> QED
      BY <1>0, <3>1, LimitFacts
  <2>3. cy' = [cy EXCEPT ![term] = z] /\ saved' = saved
        /\ UNCHANGED <<term, rows, altbit, helpbit, storedterm, inputmode, storedinput, window, user>>
    BY <2>1 DEF MoveCursor, Sends
  <2> HIDE DEF z
  <2> QED
    BY <1>0, <2>2, <2>3, CursorStep
<1>4. CASE Reset
  <2>1. term = "main"
    BY <1>0, <1>4 DEF Reset, Sends, QuietProgram, Terms
  <2>2. altbit' = altbit /\ helpbit' = helpbit
    BY <1>4, <2>1, TypeFacts DEF Reset, IInv, TypeOK
  <2>3. /\ cy' = [cy EXCEPT ![term] = 0] /\ saved' \in [{0, 1} -> Nat]
        /\ UNCHANGED <<term, rows, storedterm, inputmode, storedinput, window, user>>
    BY <1>0, <1>4 DEF Reset, Sends
  <2>4. 0 \in 0 .. rows[term] - 1
    BY <1>0
  <2> QED
    BY <2>2, <2>3, <2>4, CursorStep
<1> QED
  BY <1>1, <1>2, <1>3, <1>4

\* Showing Term t as high as the window, with its cursor limited to it.
LEMMA Shown ==
  ASSUME IInv, NEW t \in Terms, NEW y \in 0 .. window - 1,
         NEW c \in [Terms -> Int], OnScreen(c, rows),
         term' = t, rows' = [rows EXCEPT ![t] = window], cy' = [c EXCEPT ![t] = y],
         saved' \in [{0, 1} -> Nat], storedterm' \in {"none", "main", "alt"},
         altbit' \subseteq Terms, helpbit' \in BOOLEAN,
         inputmode' \subseteq Inputs, storedinput' \subseteq Inputs,
         UNCHANGED <<window, user>>
  PROVE TypeOK' /\ ViewSized' /\ cy' \in [Terms -> Int]
<1>1. window \in Heights /\ window # 0 /\ rows \in [Terms -> Heights \cup {0}] /\ user \in Users
  BY TypeFacts DEF IInv, TypeOK
<1>2. OnScreen(cy', rows') /\ cy' \in [Terms -> Int] /\ rows' \in [Terms -> Heights \cup {0}]
  <2>1. /\ OnScreen([c EXCEPT ![t] = y], [rows EXCEPT ![t] = window])
        /\ [c EXCEPT ![t] = y] \in [Terms -> Int]
        /\ [rows EXCEPT ![t] = window] \in [Terms -> Heights \cup {0}]
    BY <1>1, OnScreenKept
  <2> QED
    BY <2>1
<1>3. rows'[t] = window
  BY <1>1
<1> QED
  BY <1>1, <1>2, <1>3 DEF TypeOK, ViewSized, OnScreen

\* 47, 1047 and 1049: what tsetmode does, with the Term it ends up on.
LEMMA SwitchKeeps ==
  ASSUME IInv, QuietProgram, NEW mode \in Modes, NEW set \in BOOLEAN, SwitchScreen(mode, set)
  PROVE IInv'
<1> DEFINE swap  == set = (term \notin altbit)
           t     == IF swap THEN Other ELSE term
           bits  == IF swap THEN SwappedBits(t) ELSE altbit
           h     == IF swap THEN SwappedHeight(t) ELSE rows[t]
           slot  == Slot(term, altbit)
           save1 == IF mode = 1049 /\ set THEN [saved EXCEPT ![slot] = cy[term]] ELSE saved
           cy1   == IF mode = 1049 /\ ~set THEN [cy EXCEPT ![term] = Loaded(saved[slot], rows[term])]
                                           ELSE cy
           save2 == IF swap THEN SavedByTnew(t, save1) ELSE save1
           y     == Limit(cy1[t], 0, h - 1)
           z     == IF mode = 1049 /\ ~set THEN Loaded(save2[Slot(t, bits)], h) ELSE y
<1>1. /\ "ALT" \in Sent[term] /\ UNCHANGED <<window, user>>
      /\ term' = t /\ altbit' = bits /\ rows' = [rows EXCEPT ![t] = h]
      /\ saved' = IF mode = 1049 /\ set THEN [save2 EXCEPT ![Slot(t, bits)] = y] ELSE save2
      /\ cy' = [cy1 EXCEPT ![t] = z]
      /\ inputmode' = IF swap /\ term # "alt" THEN Lessmode(term, "OFF") ELSE inputmode
      /\ UNCHANGED <<helpbit, storedterm, storedinput>>
  BY DEF SwitchScreen, Sends
<1>2. /\ term \in {"main", "alt"} /\ window \in Heights /\ rows[term] = window
      /\ saved \in [{0, 1} -> Nat] /\ cy \in [Terms -> Int] /\ rows \in [Terms -> Heights \cup {0}]
      /\ altbit \subseteq Terms /\ storedterm \in {"none", "main", "alt"} /\ helpbit \in BOOLEAN
      /\ inputmode \subseteq Inputs /\ storedinput \subseteq Inputs /\ slot \in {0, 1}
      /\ "main" \in Terms /\ "alt" \in Terms
  <2>1. term # "help"
    BY <1>1 DEF QuietProgram
  <2> QED
    BY <2>1, TypeFacts DEF IInv, TypeOK, ViewSized, Terms, Slot
\* Where it ends up: the flags tell the screens apart, and the size is the window's.
<1>3. /\ t \in {"main", "alt"} /\ h = window
      /\ t = "main" => bits = altbit
      /\ t = "alt" => bits = {"alt"}
      /\ swap => t # term /\ (term = "main" => set) /\ (term = "alt" => ~set)
      /\ ~swap => t = term
  <2>1. CASE term = "main"
    <3>1. swap <=> set
      BY <2>1, TypeFacts
    <3>2. CASE set
      <4>1. t = "alt" /\ swap
        BY <2>1, <3>1, <3>2 DEF Other
      <4>2. h = window
        BY <1>2, <2>1, <4>1 DEF SwappedHeight
      <4>3. bits = {"alt"}
        BY <4>1 DEF SwappedBits, IInv, AltFlag
      <4> QED
        BY <2>1, <3>2, <4>1, <4>2, <4>3
    <3>3. CASE ~set
      <4>1. t = "main" /\ ~swap
        BY <2>1, <3>1, <3>3
      <4> QED
        BY <1>2, <2>1, <4>1
    <3> QED
      BY <3>2, <3>3
  <2>2. CASE term = "alt"
    <3>1. altbit = {"alt"}
      BY <2>2, TypeFacts DEF IInv, AltFlag
    <3>2. swap <=> ~set
      BY <2>2, <3>1
    <3>3. CASE ~set
      <4>1. t = "main" /\ swap
        BY <2>2, <3>2, <3>3 DEF Other
      <4>2. h = window
        BY <1>2, <2>2, <4>1 DEF SwappedHeight
      <4>3. bits = altbit
        BY <4>1 DEF SwappedBits
      <4> QED
        BY <2>2, <3>3, <4>1, <4>2, <4>3
    <3>4. CASE set
      <4>1. t = "alt" /\ ~swap
        BY <2>2, <3>2, <3>4
      <4> QED
        BY <1>2, <2>2, <3>1, <4>1
    <3> QED
      BY <3>3, <3>4
  <2> QED
    BY <1>2, <2>1, <2>2
<1>4. cy1 \in [Terms -> Int] /\ OnScreen(cy1, rows)
  <2>1. OnScreen(cy, rows)
    BY VisibleRow
  <2>2. CASE mode = 1049 /\ ~set
    <3> DEFINE x == Loaded(saved[slot], rows[term])
    <3>1. x \in 0 .. window - 1
      BY <1>2, LimitFacts
    <3>2. cy1 = [cy EXCEPT ![term] = x]
      BY <2>2
    <3> HIDE DEF x, cy1, slot
    <3>3. /\ OnScreen([cy EXCEPT ![term] = x], [rows EXCEPT ![term] = window])
          /\ [cy EXCEPT ![term] = x] \in [Terms -> Int]
      BY <1>2, <2>1, <3>1, OnScreenKept
    <3>4. [rows EXCEPT ![term] = window] = rows
      BY <1>2
    <3> QED
      BY <3>2, <3>3, <3>4
  <2>3. CASE ~(mode = 1049 /\ ~set)
    BY <1>2, <2>1, <2>3
  <2> QED
    BY <2>2, <2>3
<1>5. save1 \in [{0, 1} -> Nat] /\ save2 \in [{0, 1} -> Nat]
  <2>1. cy[term] \in Nat
    <3>1. window \in Nat /\ cy[term] \in 0 .. window - 1
      BY <1>2, LimitFacts, VisibleRow
    <3> QED
      BY <3>1
  <2>2. save1 \in [{0, 1} -> Nat]
    BY <1>2, <2>1
  <2> HIDE DEF save1
  <2>3. [save1 EXCEPT ![0] = 0] \in [{0, 1} -> Nat]
    BY <2>2
  <2> QED
    BY <2>2, <2>3 DEF SavedByTnew
<1>6. y \in 0 .. window - 1 /\ z \in 0 .. window - 1 /\ Slot(t, bits) \in {0, 1}
  <2>1. cy1[t] \in Int /\ Slot(t, bits) \in {0, 1}
    BY <1>2, <1>3, <1>4 DEF Slot
  <2>2. save2[Slot(t, bits)] \in Int
    BY <1>5, <2>1
  <2> HIDE DEF cy1, save2, h, t, bits
  <2> QED
    BY <1>2, <1>3, <2>1, <2>2, LimitFacts
<1>7. saved' \in [{0, 1} -> Nat]
  <2>1. y \in Nat
    <3> HIDE DEF y
    <3> QED
      BY <1>2, <1>6, LimitFacts
  <2> HIDE DEF y, save2, bits, t
  <2> QED
    BY <1>1, <1>5, <1>6, <2>1
<1>8. /\ inputmode' \subseteq Inputs
      /\ "HELP" \in inputmode' <=> "HELP" \in inputmode
      /\ "LESS" \notin inputmode' \/ (t = "main" /\ term = "main")
  BY <1>1, <1>2, <1>3 DEF Lessmode, IInv, LessOnMain
<1> HIDE DEF swap, t, bits, h, slot, save1, cy1, save2, y, z
<1>9. rows' = [rows EXCEPT ![t] = window] /\ t \in Terms /\ bits \subseteq Terms
  BY <1>1, <1>2, <1>3
<1>10. TypeOK' /\ ViewSized' /\ cy' \in [Terms -> Int]
  <2>1. /\ storedterm' \in {"none", "main", "alt"} /\ helpbit' \in BOOLEAN
        /\ storedinput' \subseteq Inputs /\ altbit' \subseteq Terms
        /\ inputmode' \subseteq Inputs
    BY <1>1, <1>2, <1>8, <1>9
  <2>2. /\ term' = t /\ cy' = [cy1 EXCEPT ![t] = z] /\ z \in 0 .. window - 1
        /\ UNCHANGED <<window, user>>
    BY <1>1, <1>6
  <2> QED
    BY <1>4, <1>7, <1>9, <2>1, <2>2, Shown
<1>11. HelpKeys' /\ LessOnMain' /\ UnderHelp'
  BY <1>1, <1>2, <1>3, <1>8 DEF IInv, HelpKeys, LessOnMain, UnderHelp
<1>12. AltFlag' /\ MainSized'
  <2>1. window # 0
    BY <1>2, TypeFacts
  <2>2. CASE t = "main"
    BY <1>1, <1>2, <1>3, <1>9, <2>1, <2>2 DEF IInv, AltFlag, MainSized
  <2>3. CASE t = "alt"
    BY <1>1, <1>2, <1>3, <1>9, <2>1, <2>3 DEF IInv, AltFlag, MainSized
  <2> QED
    BY <1>3, <2>2, <2>3
<1> QED
  BY <1>10, <1>11, <1>12 DEF IInv

\* The help is shown over the shell's screen or the alternate one.
LEMMA ShowHelpKeeps ==
  ASSUME IInv, CarefulUsers, NEW key \in {"F1", "q"}, ShowHelp(key)
  PROVE IInv'
<1>0. /\ term \in {"main", "alt"} /\ term \in user.help /\ user \in Users
      /\ window \in Heights /\ rows[term] = window /\ cy \in [Terms -> Int]
      /\ rows \in [Terms -> Heights \cup {0}] /\ OnScreen(cy, rows)
      /\ saved \in [{0, 1} -> Nat] /\ altbit \subseteq Terms
      /\ inputmode \subseteq Inputs /\ "help" \in Terms
  BY TypeFacts, VisibleRow DEF ShowHelp, IInv, TypeOK, ViewSized, Terms
\* p_term is as high as the window: it is visible, or was resized alone.
<1>1. rows["main"] = window
  BY <1>0 DEF CarefulUsers, IInv, MainSized
<1>2. /\ term' = "help" /\ storedterm' = term /\ rows' = [rows EXCEPT !["help"] = window]
      /\ saved' = SavedByTnew("help", saved) /\ storedinput' = inputmode
      /\ inputmode' = HelpInput /\ helpbit' = TRUE /\ UNCHANGED <<altbit, window, user>>
  BY <1>0, <1>1 DEF ShowHelp
<1>3. PICK y \in 0 .. window - 1 : cy' = [cy EXCEPT !["help"] = y]
  <2>1. cy["help"] \in Int
    BY <1>0
  <2>2. Limit(cy["help"], 0, window - 1) \in 0 .. window - 1
    BY <1>0, <2>1, LimitFacts
  <2> QED
    BY <1>0, <1>1, <2>2 DEF ShowHelp
<1>4. saved' \in [{0, 1} -> Nat] /\ inputmode' \subseteq Inputs
  BY <1>0, <1>2 DEF SavedByTnew, HelpInput, Inputs
<1>5. TypeOK' /\ ViewSized' /\ cy' \in [Terms -> Int]
  <2>1. storedterm' \in {"none", "main", "alt"} /\ helpbit' \in BOOLEAN
        /\ storedinput' \subseteq Inputs /\ altbit' \subseteq Terms
    BY <1>0, <1>2
  <2> QED
    BY <1>0, <1>2, <1>3, <1>4, <2>1, Shown
<1>6. rows'["main"] = rows["main"] /\ rows'["alt"] = rows["alt"] /\ rows[term] # 0
  BY <1>0, <1>2, TypeFacts
<1>7. "HELP" \notin inputmode /\ (term = "alt" => "LESS" \notin inputmode)
  BY <1>0 DEF IInv, HelpKeys, LessOnMain
<1>8. HelpKeys' /\ LessOnMain' /\ UnderHelp'
  BY <1>0, <1>2, <1>6, <1>7 DEF HelpKeys, LessOnMain, UnderHelp, HelpInput
<1>9. AltFlag' /\ MainSized'
  BY <1>2, <1>6 DEF IInv, AltFlag, MainSized
<1> QED
  BY <1>5, <1>8, <1>9 DEF IInv

\* Quitting the help uncovers the screen under it, in the input mode it had.
LEMMA QuitHelpKeeps ==
  ASSUME IInv, NEW key \in {"F1", "q"}, QuitHelp(key)
  PROVE IInv'
<1>0. /\ term = "help" /\ storedterm \in {"main", "alt"} /\ rows[storedterm] # 0
      /\ window \in Heights /\ rows["help"] = window /\ cy \in [Terms -> Int]
      /\ rows \in [Terms -> Heights \cup {0}] /\ OnScreen(cy, rows)
      /\ saved \in [{0, 1} -> Nat] /\ altbit \subseteq Terms /\ helpbit \in BOOLEAN
      /\ storedinput \subseteq Inputs /\ storedterm \in Terms
  BY TypeFacts, VisibleRow DEF QuitHelp, IInv, TypeOK, ViewSized, UnderHelp, Terms
<1> DEFINE y == Limit(cy[storedterm], 0, window - 1)
<1>1. /\ term' = storedterm /\ rows' = [rows EXCEPT ![storedterm] = window]
      /\ cy' = [cy EXCEPT ![storedterm] = y] /\ inputmode' = RestoredInput
      /\ UNCHANGED <<altbit, helpbit, saved, storedterm, storedinput, window, user>>
  BY <1>0 DEF QuitHelp
<1>2. y \in 0 .. window - 1
  <2>1. cy[storedterm] \in Int
    BY <1>0
  <2> QED
    BY <1>0, <2>1, LimitFacts
<1> HIDE DEF y
<1>3. /\ inputmode' \subseteq Inputs /\ "HELP" \notin inputmode'
      /\ storedterm = "alt" => "LESS" \notin inputmode'
  BY <1>0, <1>1 DEF IInv, UnderHelp, RestoredInput
<1>4. TypeOK' /\ ViewSized' /\ cy' \in [Terms -> Int]
  <2>1. saved' \in [{0, 1} -> Nat] /\ storedterm' \in {"none", "main", "alt"}
        /\ helpbit' \in BOOLEAN /\ storedinput' \subseteq Inputs /\ altbit' \subseteq Terms
    BY <1>0, <1>1
  <2> QED
    BY <1>0, <1>1, <1>2, <1>3, <2>1, Shown
<1>5. HelpKeys' /\ LessOnMain' /\ UnderHelp'
  BY <1>0, <1>1, <1>3 DEF HelpKeys, LessOnMain, UnderHelp
<1>6. window # 0
  BY <1>0, TypeFacts
<1>7. AltFlag'
  BY <1>0, <1>1, <1>6 DEF IInv, AltFlag, Terms
<1>8. MainSized'
  BY <1>0, <1>1, <1>6 DEF IInv, MainSized, Terms
<1> QED
  BY <1>4, <1>5, <1>7, <1>8 DEF IInv

\* The keys of less mode do nothing but on the shell's screen.
LEMMA LessKeyKeeps ==
  ASSUME IInv, NEW mode \in {"ON", "OFF", "TOGGLE"}, LessKey(mode)
  PROVE IInv'
<1>1. UNCHANGED <<term, rows, cy, altbit, helpbit, saved, storedterm, storedinput, window, user>>
  BY DEF LessKey
<1>2. /\ inputmode' \subseteq Inputs
      /\ "HELP" \in inputmode' <=> "HELP" \in inputmode
      /\ term # "main" => inputmode' = inputmode
  <2>1. inputmode \subseteq Inputs
    BY DEF IInv, TypeOK
  <2>2. inputmode' = Lessmode(term, mode)
    BY DEF LessKey
  <2>3. term # "main" => inputmode' = inputmode
    BY <2>2 DEF Lessmode
  <2>4. \/ inputmode' = inputmode \/ inputmode' = inputmode \cup {"LESS"}
        \/ inputmode' = inputmode \ {"LESS"}
    <3>1. CASE term = "main" /\ mode = "ON"
      BY <2>2, <3>1 DEF Lessmode
    <3>2. CASE term = "main" /\ mode = "OFF"
      BY <2>2, <3>2 DEF Lessmode
    <3>3. CASE term = "main" /\ mode = "TOGGLE"
      BY <2>2, <3>3 DEF Lessmode
    <3> QED
      BY <2>3, <3>1, <3>2, <3>3
  <2> QED
    BY <2>1, <2>3, <2>4 DEF Inputs
<1> QED
  BY <1>1, <1>2 DEF IInv, TypeOK, ViewSized, HelpKeys, LessOnMain, AltFlag, UnderHelp, MainSized

\* A resize reaches the visible Term only.
LEMMA ResizeKeeps ==
  ASSUME IInv, NEW row \in Heights, Resize(row)
  PROVE IInv'
<1>0. /\ term \in Terms /\ rows \in [Terms -> Heights \cup {0}] /\ cy \in [Terms -> Int]
      /\ OnScreen(cy, rows) /\ row # 0 /\ rows[term] # 0
  BY TypeFacts, VisibleRow
<1> DEFINE y == Limit(cy[term], 0, row - 1)
<1>1. /\ window' = row /\ rows' = [rows EXCEPT ![term] = row] /\ cy' = [cy EXCEPT ![term] = y]
      /\ term \in user.resize
      /\ UNCHANGED <<term, altbit, helpbit, saved, storedterm, inputmode, storedinput, user>>
  BY DEF Resize
<1>2. y \in 0 .. row - 1
  <2>1. cy[term] \in Int
    BY <1>0
  <2> QED
    BY <2>1, LimitFacts
<1> HIDE DEF y
<1>3. OnScreen(cy', rows') /\ cy' \in [Terms -> Int] /\ rows' \in [Terms -> Heights \cup {0}]
  <2>1. /\ OnScreen([cy EXCEPT ![term] = y], [rows EXCEPT ![term] = row])
        /\ [cy EXCEPT ![term] = y] \in [Terms -> Int]
        /\ [rows EXCEPT ![term] = row] \in [Terms -> Heights \cup {0}]
    BY <1>0, <1>2, OnScreenKept
  <2> QED
    BY <1>1, <2>1
<1>4. rows'[term] = row /\ \A t \in Terms : rows'[t] = 0 <=> rows[t] = 0
  BY <1>0, <1>1
<1>5. TypeOK'
  BY <1>0, <1>1, <1>3, <1>4 DEF IInv, TypeOK, OnScreen
<1>6. ViewSized' /\ HelpKeys' /\ LessOnMain'
  BY <1>1, <1>4 DEF IInv, ViewSized, HelpKeys, LessOnMain
<1>7. AltFlag' /\ UnderHelp'
  BY <1>0, <1>1, <1>4 DEF IInv, AltFlag, UnderHelp, Terms
<1>8. MainSized'
  BY <1>0, <1>1, <1>4 DEF IInv, MainSized, Terms
<1> QED
  BY <1>3, <1>5, <1>6, <1>7, <1>8 DEF IInv

\* At the start the shell's screen is shown, as high as the window.
LEMMA InitFacts == Init => IInv
<1> SUFFICES ASSUME Init
             PROVE IInv
  OBVIOUS
<1>1. /\ window \in Heights /\ window # 0 /\ rows \in [Terms -> Heights \cup {0}]
      /\ rows["main"] = window /\ rows["alt"] = 0 /\ term = "main" /\ cy \in [Terms -> Int]
      /\ \A t \in Terms : cy[t] = 0
  BY ScreensAssumption DEF Init, Terms
<1>2. ASSUME NEW t \in Terms
      PROVE cy[t] \in 0 .. (IF rows[t] = 0 THEN 0 ELSE rows[t] - 1)
  <2>1. rows[t] \in {0, window} /\ window \in Nat
    BY <1>1, <1>2, LimitFacts DEF Init
  <2> QED
    BY <1>1, <2>1
<1>3. saved \in [{0, 1} -> Nat] /\ inputmode = {} /\ storedinput = {} /\ user \in Users
      /\ altbit = {} /\ helpbit = FALSE /\ storedterm = "none"
  BY DEF Init
<1>4. TypeOK
  BY <1>1, <1>2, <1>3 DEF TypeOK, Terms
<1> QED
  BY <1>1, <1>3, <1>4 DEF IInv, ViewSized, HelpKeys, LessOnMain, AltFlag, UnderHelp, MainSized

\* Every step keeps the invariant.
LEMMA NextKeeps ==
  ASSUME QuietProgram, CarefulUsers
  PROVE IInv /\ [Next]_vars => IInv'
<1> SUFFICES ASSUME IInv, [Next]_vars
             PROVE IInv'
  OBVIOUS
<1>1. CASE SaveCursor \/ LoadCursor \/ (\E y \in 0 .. rows[term] - 1 : MoveCursor(y)) \/ Reset
  BY <1>1, TtyKeeps
<1>2. CASE \E mode \in Modes, set \in BOOLEAN : SwitchScreen(mode, set)
  BY <1>2, SwitchKeeps
<1>3. CASE \E key \in {"F1", "q"} : ShowHelp(key) \/ QuitHelp(key)
  BY <1>3, ShowHelpKeeps, QuitHelpKeeps
<1>4. CASE \E mode \in {"ON", "OFF", "TOGGLE"} : LessKey(mode)
  BY <1>4, LessKeyKeeps
<1>5. CASE \E row \in Heights : Resize(row)
  BY <1>5, ResizeKeeps
<1>6. CASE UNCHANGED vars
  BY <1>6 DEF vars, IInv, TypeOK, ViewSized, HelpKeys, LessOnMain, AltFlag, UnderHelp, MainSized
<1> QED
  BY <1>1, <1>2, <1>3, <1>4, <1>5, <1>6 DEF Next, TtyNext, UserNext

\* So it holds in every state.
LEMMA Invariance ==
  ASSUME QuietProgram, CarefulUsers
  PROVE Spec => []IInv
BY InitFacts, NextKeeps, PTL DEF Spec

\* Every Term that was made has its cursor on its screen, in whatever order they
\* are resized, left and shown (tresize, tmoveato, tcursor).
THEOREM ScreensTyped ==
  ASSUME QuietProgram, CarefulUsers
  PROVE Spec => []TypeOK
<1>1. IInv => TypeOK
  BY DEF IInv
<1> QED
  BY <1>1, Invariance, PTL

\* The visible Term is as high as the window, although a resize reaches only the
\* Term that is visible then (cresize, tswapscreen, showhelp).
THEOREM WindowFilled ==
  ASSUME QuietProgram, CarefulUsers
  PROVE Spec => []ViewSized
<1>1. IInv => ViewSized
  BY DEF IInv
<1> QED
  BY <1>1, Invariance, PTL

\* Keys go to the help browser exactly while it is shown (showhelp, kpress).
THEOREM HelpKeysFit ==
  ASSUME QuietProgram, CarefulUsers
  PROVE Spec => []HelpKeys
<1>1. IInv => HelpKeys
  BY DEF IInv
<1> QED
  BY <1>1, Invariance, PTL

\* Less mode is never on while another Term than the shell's is visible
\* (lessmode_toggle, tswapscreen, showhelp).
THEOREM LessOnlyOnMain ==
  ASSUME QuietProgram, CarefulUsers
  PROVE Spec => []LessOnMain
<1>1. IInv => LessOnMain
  BY DEF IInv
<1> QED
  BY <1>1, Invariance, PTL

\* MODE_ALTSCREEN and p_alt say the same (tsetmode, tswapscreen).
THEOREM FlagOfAlt ==
  ASSUME QuietProgram, CarefulUsers
  PROVE Spec => []AltFlag
<1>1. IInv => AltFlag
  BY DEF IInv
<1> QED
  BY <1>1, Invariance, PTL

\* What CursorKept needs: once all Terms are made, the copy of the shell's cursor
\* is kept as long as the alternate screen is shown, or is under the help.
Kept ==
  /\ IInv
  /\ \A t \in Terms : rows[t] # 0
  /\ term = "alt" \/ (term = "help" /\ storedterm = "alt") => saved[0] = cy["main"]

\* DECSC and 1049h on the alternate screen have a copy of their own; 1049h on the
\* shell's screen saves its cursor before the screens are swapped.
LEMMA KeptBySwitch ==
  ASSUME QuietProgram, Kept, Modes \subseteq {1049},
         NEW mode \in Modes, NEW set \in BOOLEAN, SwitchScreen(mode, set)
  PROVE term' = "alt" => saved'[0] = cy'["main"]
<1> SUFFICES ASSUME term' = "alt"
             PROVE saved'[0] = cy'["main"]
  OBVIOUS
<1>1. /\ mode = 1049 /\ term \in {"main", "alt"} /\ ~Made("alt") /\ ~Made("main")
      /\ saved \in [{0, 1} -> Nat] /\ cy \in [Terms -> Int]
      /\ "main" \notin altbit /\ "alt" \in altbit
      /\ "main" \in Terms /\ "alt" \in Terms
  <2>1. "ALT" \in Sent[term]
    BY DEF SwitchScreen, Sends
  <2>2. IInv
    BY DEF Kept
  <2> QED
    BY <2>1, <2>2, TypeFacts DEF Kept, Made, QuietProgram, Terms, IInv, TypeOK
<1> DEFINE swap  == set = (term \notin altbit)
           t     == IF swap THEN Other ELSE term
           bits  == IF swap THEN SwappedBits(t) ELSE altbit
           h     == IF swap THEN SwappedHeight(t) ELSE rows[t]
           save1 == IF mode = 1049 /\ set THEN [saved EXCEPT ![Slot(term, altbit)] = cy[term]]
                                          ELSE saved
           cy1   == IF mode = 1049 /\ ~set
                    THEN [cy EXCEPT ![term] = Loaded(saved[Slot(term, altbit)], rows[term])]
                    ELSE cy
           save2 == IF swap THEN SavedByTnew(t, save1) ELSE save1
           y     == Limit(cy1[t], 0, h - 1)
           z     == IF mode = 1049 /\ ~set THEN Loaded(save2[Slot(t, bits)], h) ELSE y
<1>2. /\ term' = t /\ cy' = [cy1 EXCEPT ![t] = z]
      /\ saved' = IF mode = 1049 /\ set THEN [save2 EXCEPT ![Slot(t, bits)] = y] ELSE save2
  BY DEF SwitchScreen
<1>3. set
  BY <1>1, <1>2 DEF Other
<1>4. t = "alt" /\ "alt" \in bits /\ Slot(t, bits) = 1
  BY <1>1, <1>2 DEF SwappedBits, Slot
<1>5. cy1 = cy
  BY <1>3
<1>6. save2 = save1 /\ save1 = [saved EXCEPT ![Slot(term, altbit)] = cy[term]]
  <2>1. save1 = [saved EXCEPT ![Slot(term, altbit)] = cy[term]]
    BY <1>1, <1>3
  <2>2. ~Made(t)
    BY <1>1, <1>4
  <2> HIDE DEF save1, t, swap
  <2> QED
    BY <2>1, <2>2 DEF SavedByTnew
<1> HIDE DEF swap, t, bits, h, save1, cy1, save2, y, z
<1>7. saved' = [save1 EXCEPT ![1] = y] /\ cy' = [cy EXCEPT !["alt"] = z]
  BY ZenonT(60), <1>1, <1>2, <1>3, <1>4, <1>5, <1>6
<1>8. CASE term = "main"
  <2>1. Slot(term, altbit) = 0
    BY <1>1, <1>8 DEF Slot
  <2> QED
    BY <1>1, <1>6, <1>7, <1>8, <2>1
<1>9. CASE term = "alt"
  <2>1. Slot(term, altbit) = 1
    BY <1>1, <1>9 DEF Slot
  <2> QED
    BY <1>1, <1>6, <1>7, <1>9, <2>1 DEF Kept
<1> QED
  BY <1>1, <1>8, <1>9

\* Every other step leaves the copy and the shell's cursor alone while the
\* alternate screen, or the help over it, is visible.
LEMMA KeptByNext ==
  ASSUME QuietProgram, CarefulUsers, Modes \subseteq {1049}
  PROVE Kept /\ [Next]_vars => Kept'
<1> SUFFICES ASSUME Kept, [Next]_vars
             PROVE Kept'
  OBVIOUS
<1> DEFINE Away == term = "alt" \/ (term = "help" /\ storedterm = "alt")
<1>1. IInv /\ IInv'
  BY NextKeeps DEF Kept
<1>2. /\ term \in Terms /\ rows \in [Terms -> Heights \cup {0}] /\ cy \in [Terms -> Int]
      /\ \A t \in Terms : ~Made(t) /\ rows[t] \in Heights
      /\ 0 \notin Heights /\ saved \in [{0, 1} -> Nat] /\ "main" \notin altbit /\ "help" \notin altbit
      /\ "alt" \in altbit
  BY <1>1, TypeFacts DEF Kept, Made, IInv, TypeOK, Terms
<1>3. ASSUME UNCHANGED <<term, storedterm, rows>>, Away => saved'[0] = saved[0] /\ cy'["main"] = cy["main"]
      PROVE Kept'
  BY <1>1, <1>3 DEF Kept
<1>4. CASE SaveCursor \/ LoadCursor \/ (\E y \in 0 .. rows[term] - 1 : MoveCursor(y)) \/ Reset
  <2>1. UNCHANGED <<term, storedterm, rows>>
    BY <1>4 DEF SaveCursor, LoadCursor, MoveCursor, Reset, Sends
  <2>2. ASSUME Away
        PROVE cy'["main"] = cy["main"]
    BY <1>2, <1>4, <2>2 DEF SaveCursor, LoadCursor, MoveCursor, Reset, Terms
  <2>3. ASSUME Away
        PROVE saved'[0] = saved[0]
    <3>1. CASE SaveCursor
      <4>1. term = "alt"
        BY <2>3, <3>1 DEF SaveCursor, Sends, QuietProgram
      <4>2. Slot(term, altbit) = 1
        BY <1>2, <4>1 DEF Slot
      <4> QED
        BY <1>2, <3>1, <4>2 DEF SaveCursor
    <3>2. CASE LoadCursor \/ \E y \in 0 .. rows[term] - 1 : MoveCursor(y)
      BY <3>2 DEF LoadCursor, MoveCursor
    <3>3. CASE Reset
      BY <2>3, <3>3 DEF Reset, Sends, QuietProgram
    <3> QED
      BY <1>4, <3>1, <3>2, <3>3
  <2> QED
    BY <1>3, <2>1, <2>2, <2>3
<1>5. CASE \E mode \in Modes, set \in BOOLEAN : SwitchScreen(mode, set)
  <2>1. PICK mode \in Modes, set \in BOOLEAN : SwitchScreen(mode, set)
    BY <1>5
  <2>2. term' = "alt" => saved'[0] = cy'["main"]
    BY <2>1, KeptBySwitch
  <2>3. term' \in Terms /\ term' # "help" /\ \A u \in Terms \ {term'} : rows'[u] = rows[u]
    <3> DEFINE swap == set = (term \notin altbit)
               t == IF swap THEN Other ELSE term
               h == IF swap THEN SwappedHeight(t) ELSE rows[t]
    <3>1. "ALT" \in Sent[term]
      BY <2>1 DEF SwitchScreen, Sends
    <3>2. term \in {"main", "alt"}
      BY <1>2, <3>1 DEF QuietProgram, Terms
    <3>3. term' = t /\ rows' = [rows EXCEPT ![t] = h]
      BY <2>1 DEF SwitchScreen
    <3>4. t \in {"main", "alt"}
      BY <3>2 DEF Other
    <3> HIDE DEF t, h, swap
    <3> QED
      BY <1>2, <3>3, <3>4 DEF Terms
  <2>4. rows'[term'] # 0
    BY <1>1 DEF IInv, TypeOK
  <2>5. \A t \in Terms : rows'[t] # 0
    BY <1>2, <2>3, <2>4
  <2> QED
    BY <1>1, <2>2, <2>3, <2>5 DEF Kept
<1>6. CASE \E key \in {"F1", "q"} : ShowHelp(key)
  <2>1. PICK key \in {"F1", "q"} : ShowHelp(key)
    BY <1>6
  <2>2. /\ term' = "help" /\ storedterm' = term
        /\ \A u \in Terms \ {"help"} : rows'[u] = rows[u]
    BY <1>2, <2>1 DEF ShowHelp
  <2>3. saved' = saved
    BY <1>2, <2>1 DEF ShowHelp, SavedByTnew, Terms
  <2>4. cy'["main"] = cy["main"]
    <3>1. \E y : cy' = [cy EXCEPT !["help"] = y]
      BY <2>1 DEF ShowHelp
    <3> QED
      BY <1>2, <3>1 DEF Terms
  <2>5. rows'[term'] # 0
    BY <1>1 DEF IInv, TypeOK
  <2>6. \A t \in Terms : rows'[t] # 0
    BY <1>2, <2>2, <2>5 DEF Terms
  <2> QED
    BY <1>1, <2>2, <2>3, <2>4, <2>6 DEF Kept
<1>7. CASE \E key \in {"F1", "q"} : QuitHelp(key)
  <2>1. PICK key \in {"F1", "q"} : QuitHelp(key)
    BY <1>7
  <2>2. /\ term = "help" /\ term' = storedterm /\ UNCHANGED <<storedterm, saved>>
        /\ rows' = [rows EXCEPT ![storedterm] = rows["help"]]
        /\ storedterm \in {"main", "alt"}
        /\ storedterm = "alt" => cy'["main"] = cy["main"]
    BY <1>1, <1>2, <2>1 DEF QuitHelp, IInv, UnderHelp, Terms
  <2>3. \A t \in Terms : rows'[t] # 0
    BY <1>2, <2>2 DEF Terms
  <2> QED
    BY <1>1, <2>2, <2>3 DEF Kept
<1>8. CASE \E mode \in {"ON", "OFF", "TOGGLE"} : LessKey(mode)
  BY <1>3, <1>8 DEF LessKey
<1>9. CASE \E row \in Heights : Resize(row)
  <2>1. PICK row \in Heights : Resize(row)
    BY <1>9
  <2>2. /\ rows' = [rows EXCEPT ![term] = row] /\ UNCHANGED <<term, storedterm, saved>>
        /\ Away => cy'["main"] = cy["main"]
    BY <1>2, <2>1 DEF Resize, Terms
  <2>3. \A t \in Terms : rows'[t] # 0
    BY <1>2, <2>2
  <2> QED
    BY <1>1, <2>2, <2>3 DEF Kept
<1>10. CASE UNCHANGED vars
  BY <1>3, <1>10 DEF vars
<1> QED
  BY <1>4, <1>5, <1>6, <1>7, <1>8, <1>9, <1>10 DEF Next, TtyNext, UserNext

\* The copy that 1049l will load is the shell's cursor, whatever the program does
\* on the alternate screen and the user in the help (tcursor, tswapscreen, tnew).
THEOREM CursorIsKept ==
  ASSUME QuietProgram, CarefulUsers, Modes \subseteq {1049}
  PROVE Spec => CursorKept
<1> DEFINE Safe  == term = "alt" => saved[0] = cy["main"]
           Start == (\A t \in Terms : rows[t] # 0) /\ term = "main"
<1>1. IInv /\ Start => Kept
  BY DEF Kept
<1>2. Kept => Safe
  BY DEF Kept
<1>3. Kept /\ [Next]_vars => Kept'
  BY KeptByNext
<1>4. CursorKept <=> [](Start => []Safe)
  BY DEF CursorKept
<1> HIDE DEF Safe, Start
<1> QED
  BY <1>1, <1>2, <1>3, <1>4, Invariance, PTL DEF Spec
===============================================================================
