--------------------------- MODULE Scrollback_proofs ---------------------------
(***************************************************************************)
(* Theorems about Scrollback, for every size of the ring, of the screen    *)
(* and of the ring of marks, for all bookmarks, and for programs that      *)
(* scroll lines off the screen and back to it.                             *)
(***************************************************************************)
EXTENDS Scrollback, TLAPS

Mark == 0 .. Marks - 1
Scans == [dir : {"none", "up", "down"}, t : -Marks .. Marks]

\* ScrInHistory of a view that is s lines back.
InRange(s) ==
  /\ ~circled => -(reversed + Ahead) <= s /\ s <= histindex + reversed
  /\ circled /\ reversed = 0 /\ ~strayed => -Ahead <= s /\ s <= H

\* A bookmark is not set or not further from the lines written than a view can be,
\* and the one Shift+Return waits for is the cursor's line.
BookmarksWritten ==
  /\ ~circled => \A i \in {0} \cup Bookmarks : scrollmarks[i] = 0 \/ 1 - reversed <= scrollmarks[i]
  /\ ~circled => \A i \in Bookmarks : scrollmarks[i] <= histindex + 1 + reversed + Ahead
  /\ enterlessmode /\ reversed = 0 /\ ~strayed => 0 <= scrollmarks[0]

\* MarksOrdered for any two marks of the whole ring: the place of the next mark
\* holds the oldest one.  It counts, since a deletion makes it the oldest of the
\* searched ones.
AllOrdered ==
  ~circled => \A i \in 1 .. Marks - 1 : \A j \in i + 1 .. Marks :
                retmarks[Back(j)] # 0 => retmarks[Back(i)] > retmarks[Back(j)]

IInv == TypeOK /\ ScrInHistory /\ BookmarksWritten /\ AllOrdered

\* What the constants are.
LEMMA ConstantFacts ==
  /\ H \in Nat /\ H >= 1 /\ Height \in Nat /\ 1 <= Height /\ Height <= H - 1
  /\ Marks \in Nat /\ Marks >= 2 /\ MaxLines \in Nat /\ MaxReverse \in Nat
  /\ Ahead \in Int /\ 0 <= Ahead /\ (0 \in Bookmarks => Height - 2 <= Ahead)
BY ScrollbackAssumption DEF Ahead

\* The remainder that masking an index with the ring's size computes.
LEMMA ModType ==
  ASSUME NEW a \in Int, NEW n \in Nat \ {0}
  PROVE a % n \in 0 .. n - 1
OBVIOUS

\* An index one turn below the ring is masked to the one a turn further up.
LEMMA ModBack ==
  ASSUME NEW m \in Nat \ {0}, NEW c \in 0 .. m - 1, NEW k \in 0 .. m
  PROVE (c - k) % m = IF k <= c THEN c - k ELSE c - k + m
<1> DEFINE r == (c - k) % m  q == (c - k) \div m
<1>1. c - k = m * q + r /\ r \in 0 .. m - 1 /\ q \in Int /\ c \in Int /\ k \in Int /\ m \in Int
  OBVIOUS
<1> HIDE DEF r, q
<1>2. CASE q >= 1
  <2>1. m * q >= m
    BY <1>1, <1>2
  <2> QED
    BY <1>1, <2>1
<1>3. CASE q = 0
  BY <1>1, <1>3 DEF r
<1>4. CASE q = -1
  BY <1>1, <1>4 DEF r
<1>5. CASE q <= -2
  <2>1. m * q <= -2 * m
    BY <1>1, <1>5
  <2> QED
    BY <1>1, <2>1
<1> QED
  BY <1>1, <1>2, <1>3, <1>4, <1>5

\* The place after an index of the ring.
LEMMA ModNext ==
  ASSUME NEW m \in Nat \ {0}, NEW c \in 0 .. m - 1
  PROVE (c + 1) % m = IF c = m - 1 THEN 0 ELSE c + 1
<1> DEFINE r == (c + 1) % m  q == (c + 1) \div m
<1>1. c + 1 = m * q + r /\ r \in 0 .. m - 1 /\ q \in Int /\ c \in Int /\ m \in Int
  OBVIOUS
<1> HIDE DEF r, q
<1>2. CASE q >= 2
  <2>1. m * q >= 2 * m
    BY <1>1, <1>2
  <2> QED
    BY <1>1, <2>1
<1>3. CASE q = 1
  BY <1>1, <1>3 DEF r
<1>4. CASE q = 0
  BY <1>1, <1>4 DEF r
<1>5. CASE q <= -1
  <2>1. m * q <= -m
    BY <1>1, <1>5
  <2> QED
    BY <1>1, <2>1
<1> QED
  BY <1>1, <1>2, <1>3, <1>4, <1>5

\* The places of the marks, and where a scan may start and go.
LEMMA PlaceFacts ==
  ASSUME current_retmark \in Mark
  PROVE /\ Mark \subseteq Int
        /\ \A a \in Int : a % Marks \in Mark
        /\ \A r \in Mark : ScanUp(r) \in Scans /\ ScanDown(r) \in Scans
        /\ 1 \in Mark /\ 0 \in Mark
<1>1. Marks \in Nat \ {0}
  BY ConstantFacts
<1>2. \A a \in Int : a % Marks \in Mark
  BY <1>1, ModType DEF Mark
<1>3. Mark \subseteq Int /\ 1 \in Mark /\ 0 \in Mark
  BY ConstantFacts DEF Mark
<1>4. ASSUME NEW r \in Mark
      PROVE ScanUp(r) \in Scans /\ ScanDown(r) \in Scans
  <2>1. From(r) \in Int /\ 1 <= From(r) /\ From(r) <= Marks /\ current_retmark \in Int
    BY <1>4, ConstantFacts DEF From, Mark
  <2>2. current_retmark - From(r) \in -Marks .. Marks
    BY <2>1, ConstantFacts DEF Mark
  <2>3. Back(From(r)) \in Mark
    BY <1>2, <2>1 DEF Back
  <2>4. Back(From(r)) \in -Marks .. Marks
    BY <2>3, ConstantFacts DEF Mark
  <2> QED
    BY <2>2, <2>4 DEF ScanUp, ScanDown, Scans
<1> QED
  BY <1>2, <1>3, <1>4

\* Types in the form the steps below use.
LEMMA TypeFacts ==
  ASSUME IInv
  PROVE /\ histindex \in Int /\ 0 <= histindex /\ histindex <= H - 1 /\ circled \in BOOLEAN
        /\ scr \in Int /\ cy \in Int /\ 0 <= cy /\ cy <= Height - 1
        /\ \A t \in Mark : retmarks[t] \in Int /\ 0 <= retmarks[t]
        /\ retmarks \in [Mark -> 0 .. H + Height - 2]
        /\ current_retmark \in Mark /\ scrolled_retmark \in Mark
        /\ scan \in Scans
        /\ scrollmarks \in [{0} \cup Bookmarks -> Int]
        /\ less \in BOOLEAN /\ enterlessmode \in BOOLEAN
        /\ reversed \in Int /\ 0 <= reversed /\ count \in Int /\ strayed \in BOOLEAN
<1>1. TypeOK
  BY DEF IInv
<1>2. \A t \in Mark : retmarks[t] \in 0 .. H + Height - 2
  BY <1>1 DEF TypeOK, Mark
<1> QED
  BY <1>1, <1>2, ConstantFacts DEF TypeOK, Mark, Scans

\* Whatever scrolls the view keeps it in its range and starts a scan, or none.
LEMMA ScrollFacts ==
  ASSUME IInv, NEW r \in Mark, Scroll \/ ScrollForInput \/ scrolltobottom(r) \/ scrolltotop
  PROVE scr' \in Int /\ scan' \in Scans /\ InRange(scr')
<1>1. /\ \A q \in Mark : ScanUp(q) \in Scans /\ ScanDown(q) \in Scans
      /\ scrolled_retmark \in Mark /\ scan \in Scans
  BY TypeFacts, PlaceFacts
<1>2. /\ histindex \in Int /\ 0 <= histindex /\ histindex <= H - 1 /\ scr \in Int
      /\ circled \in BOOLEAN /\ reversed \in Int /\ 0 <= reversed
      /\ Ahead \in Int /\ 0 <= Ahead /\ H \in Int /\ 0 <= H
  BY TypeFacts, ConstantFacts
<1>3. InRange(scr)
  BY DEF IInv, ScrInHistory, InRange
<1>4. ASSUME NEW s \in Int, 0 <= s, s <= H
      PROVE AtMostWritten(s) \in Int /\ InRange(AtMostWritten(s))
  BY <1>2, <1>4 DEF AtMostWritten, InRange
<1>5. ASSUME NEW n \in Nat, kscrollup(n)
      PROVE scr' \in Int /\ scan' \in Scans /\ InRange(scr')
  <2>1. CASE 0 <= scr /\ scr <= H - n
    <3>1. scr + n \in Int /\ 0 <= scr + n /\ scr + n <= H
      BY <1>2, <2>1
    <3>2. scr' = AtMostWritten(scr + n) /\ scan' = ScanUp(scrolled_retmark)
      BY <1>5, <2>1 DEF kscrollup
    <3> QED
      BY <1>1, <1>4, <3>1, <3>2
  <2>2. CASE ~(0 <= scr /\ scr <= H - n)
    <3>1. scr' = scr /\ scan' = scan
      BY <1>5, <2>2 DEF kscrollup
    <3> QED
      BY <1>1, <1>2, <1>3, <3>1
  <2> QED
    BY <2>1, <2>2
<1>6. ASSUME NEW n \in Int, kscrolldown(n), 0 <= n
      PROVE scr' \in Int /\ scan' \in Scans /\ InRange(scr')
  <2>1. CASE scr > 0
    <3>1. scr' = scr - Lower(n, scr) /\ scan' = ScanDown(scrolled_retmark)
      BY <1>6, <2>1 DEF kscrolldown
    <3>2. Lower(n, scr) \in Int /\ 0 <= Lower(n, scr) /\ Lower(n, scr) <= scr
      BY <1>2, <1>6, <2>1 DEF Lower
    <3>3. scr' \in Int /\ 0 <= scr' /\ scr' <= scr
      BY <1>2, <3>1, <3>2
    <3> QED
      BY <1>1, <1>2, <1>3, <3>1, <3>3 DEF InRange
  <2>2. CASE ~(scr > 0)
    <3>1. scr' = scr /\ scan' = scan
      BY <1>6, <2>2 DEF kscrolldown
    <3> QED
      BY <1>1, <1>2, <1>3, <3>1
  <2> QED
    BY <2>1, <2>2
<1>7. ASSUME NEW q \in Mark, scrolltobottom(q)
      PROVE scr' \in Int /\ scan' \in Scans /\ InRange(scr')
  <2>1. CASE scr # 0
    <3>1. scr' = 0 /\ scan' = ScanDown(q)
      BY <1>7, <2>1 DEF scrolltobottom
    <3> QED
      BY <1>1, <1>2, <3>1 DEF InRange
  <2>2. CASE scr = 0
    <3>1. scr' = scr /\ scan' = scan
      BY <1>7, <2>2 DEF scrolltobottom
    <3> QED
      BY <1>1, <1>2, <1>3, <3>1
  <2> QED
    BY <2>1, <2>2
<1>8. CASE scrolltotop
  <2>1. scr' = AtMostWritten(H) /\ scan' = ScanUp(scrolled_retmark)
    BY <1>8 DEF scrolltotop
  <2> QED
    BY <1>1, <1>2, <1>4, <2>1
<1>9. CASE ScrollForInput
  <2>1. CASE ~less
    <3>1. kscrolldown(scr)
      BY <1>9, <2>1 DEF ScrollForInput
    <3>2. CASE 0 <= scr
      BY <1>2, <1>6, <3>1, <3>2
    <3>3. CASE ~(0 <= scr)
      <4>1. scr' = scr /\ scan' = scan
        BY <1>2, <3>1, <3>3 DEF kscrolldown
      <4> QED
        BY <1>1, <1>2, <1>3, <4>1
    <3> QED
      BY <3>2, <3>3
  <2>2. CASE less
    <3>1. scr' = scr /\ scan' = scan
      BY <1>9, <2>2 DEF ScrollForInput
    <3> QED
      BY <1>1, <1>2, <1>3, <3>1
  <2> QED
    BY <2>1, <2>2
<1>10. CASE \E n \in 1 .. Height : kscrollup(n) \/ kscrolldown(n)
  <2>1. PICK n \in 1 .. Height : kscrollup(n) \/ kscrolldown(n)
    BY <1>10
  <2>2. n \in Nat /\ n \in Int /\ 0 <= n
    BY ConstantFacts
  <2> QED
    BY <1>5, <1>6, <2>1, <2>2
<1> QED
  BY <1>1, <1>7, <1>8, <1>9, <1>10 DEF Scroll

\* A range is one for the step if nothing else of it changes.
LEMMA RangeStep ==
  ASSUME UNCHANGED <<histindex, circled, reversed>>, strayed' = strayed, InRange(scr')
  PROVE ScrInHistory'
BY DEF InRange, ScrInHistory

\* Steps that leave the lines and the marks alone.
LEMMA ViewStep ==
  ASSUME IInv, UNCHANGED <<histindex, circled, retmarks, current_retmark, count, reversed, cy>>,
         scr' \in Int, ScrInHistory', strayed' \in BOOLEAN,
         scan' \in Scans, scrolled_retmark' \in Mark,
         less' \in BOOLEAN, enterlessmode' \in BOOLEAN,
         scrollmarks' \in [{0} \cup Bookmarks -> Int], BookmarksWritten'
  PROVE IInv'
<1>1. TypeOK'
  BY DEF IInv, TypeOK, Scans, Mark
<1>2. AllOrdered'
  BY DEF IInv, AllOrdered, Back
<1> QED
  BY <1>1, <1>2 DEF IInv

\* Where the marks are: the k'th one back, counted from the current place.
LEMMA BackFacts ==
  ASSUME current_retmark \in Mark
  PROVE /\ \A k \in 0 .. Marks :
             /\ Back(k) = IF k <= current_retmark THEN current_retmark - k
                                                  ELSE current_retmark - k + Marks
             /\ Back(k) \in Mark
        /\ \A k \in 1 .. Marks - 1 : Back(k) # current_retmark
<1>1. Marks \in Nat \ {0} /\ Marks >= 2 /\ Marks \in Int
  BY ConstantFacts
<1>2. current_retmark \in 0 .. Marks - 1
  BY DEF Mark
<1>3. ASSUME NEW k \in 0 .. Marks
      PROVE /\ Back(k) = IF k <= current_retmark THEN current_retmark - k
                                                 ELSE current_retmark - k + Marks
            /\ Back(k) \in Mark
  <2>1. Back(k) = IF k <= current_retmark THEN current_retmark - k
                                          ELSE current_retmark - k + Marks
    BY <1>1, <1>2, ModBack DEF Back
  <2> QED
    BY <1>1, <1>2, <2>1 DEF Mark
<1>4. ASSUME NEW k \in 1 .. Marks - 1
      PROVE Back(k) # current_retmark
  BY <1>1, <1>2, <1>3, <1>4
<1> QED
  BY <1>3, <1>4

\* Return: the new mark is below the last one.
LEMMA SetFacts ==
  ASSUME IInv, set_retmark, UNCHANGED circled
  PROVE /\ retmarks' \in [Mark -> 0 .. H + Height - 2]
        /\ current_retmark' \in Mark /\ scrolled_retmark' \in Mark
        /\ AllOrdered'
<1> DEFINE c == current_retmark
           v == histindex + cy
<1>1. /\ c \in Mark /\ scrolled_retmark \in Mark /\ 0 \in Mark /\ Mark \subseteq Int
      /\ retmarks \in [Mark -> 0 .. H + Height - 2]
      /\ v \in 0 .. H + Height - 2 /\ v \in Int
      /\ \A t \in Mark : retmarks[t] \in Int
      /\ circled \in BOOLEAN
  BY TypeFacts, PlaceFacts, ConstantFacts
<1>2. CASE ~BelowLastMark
  BY <1>1, <1>2 DEF set_retmark, marks, IInv, AllOrdered, Back
<1>3. CASE BelowLastMark
  <2>1. /\ retmarks' = [retmarks EXCEPT ![c] = v]
        /\ current_retmark' = (c + 1) % Marks /\ scrolled_retmark' = 0
    BY <1>3 DEF set_retmark
  <2>2. Marks \in Nat \ {0} /\ Marks >= 2 /\ Marks \in Int /\ c \in 0 .. Marks - 1
    BY <1>1, ConstantFacts DEF Mark
  <2>3. current_retmark' = IF c = Marks - 1 THEN 0 ELSE c + 1
    BY <2>1, <2>2, ModNext
  <2>4. current_retmark' \in 0 .. Marks - 1
    BY <2>2, <2>3
  <2>5. ASSUME NEW j \in 1 .. Marks
        PROVE Back(j)' = IF j = 1 THEN c ELSE Back(j - 1)
    <3>1. Back(j)' = IF j <= current_retmark' THEN current_retmark' - j
                                              ELSE current_retmark' - j + Marks
      BY <2>2, <2>4, ModBack DEF Back
    <3>2. j # 1 => Back(j - 1) = IF j - 1 <= c THEN c - (j - 1) ELSE c - (j - 1) + Marks
      BY <1>1, <2>2, BackFacts
    <3> QED
      BY <2>2, <2>3, <3>1, <3>2
  <2>6. ASSUME ~circled, NEW i \in 1 .. Marks - 1, NEW j \in i + 1 .. Marks,
               retmarks'[Back(j)'] # 0
        PROVE retmarks'[Back(i)'] > retmarks'[Back(j)']
    <3>0. j \in 2 .. Marks /\ j - 1 \in 1 .. Marks - 1 /\ j - 1 \in 0 .. Marks /\ i < j
      BY <2>2
    <3>1. Back(j)' = Back(j - 1) /\ Back(j - 1) \in Mark /\ Back(j - 1) # c
      BY <1>1, <2>2, <2>5, <3>0, BackFacts
    <3>2. retmarks'[Back(j)'] = retmarks[Back(j - 1)]
      BY <1>1, <2>1, <3>1
    <3>3. CASE i = 1
      <4>1. retmarks'[Back(i)'] = v
        BY <1>1, <2>1, <2>2, <2>5, <3>3
      <4>2. retmarks[Back(1)] < v
        BY <1>3, <2>6 DEF BelowLastMark
      <4>3. Back(1) \in Mark
        BY <1>1, <2>2, BackFacts
      <4>4. CASE j = 2
        <5>1. j - 1 = 1
          BY <4>4
        <5> QED
          BY <3>2, <4>1, <4>2, <5>1
      <4>5. CASE j # 2
        <5>1. j - 1 \in 1 + 1 .. Marks /\ 1 \in 1 .. Marks - 1
          BY <2>2, <3>0, <4>5
        <5>2. retmarks[Back(1)] > retmarks[Back(j - 1)]
          BY <2>6, <3>2, <5>1 DEF IInv, AllOrdered
        <5>3. retmarks[Back(1)] \in Int /\ retmarks[Back(j - 1)] \in Int /\ v \in Int
          BY <1>1, <3>1, <4>3
        <5>4. v > retmarks[Back(j - 1)]
          <6> HIDE DEF v
          <6> QED
            BY <4>2, <5>2, <5>3
        <5> QED
          BY <3>2, <4>1, <5>4
      <4> QED
        BY <4>4, <4>5
    <3>4. CASE i # 1
      <4>1. i - 1 \in 1 .. Marks - 1 /\ i - 1 \in 0 .. Marks /\ j - 1 \in (i - 1) + 1 .. Marks
        BY <2>2, <3>4
      <4>2. Back(i)' = Back(i - 1) /\ Back(i - 1) \in Mark /\ Back(i - 1) # c
        BY <1>1, <2>2, <2>5, <3>4, <4>1, BackFacts
      <4>3. retmarks'[Back(i)'] = retmarks[Back(i - 1)]
        BY <1>1, <2>1, <4>2
      <4>4. retmarks[Back(j - 1)] # 0 => retmarks[Back(i - 1)] > retmarks[Back(j - 1)]
        BY <2>6, <4>1 DEF IInv, AllOrdered
      <4> QED
        BY <2>6, <3>2, <4>3, <4>4
    <3> QED
      BY <3>3, <3>4
  <2>7. AllOrdered'
    BY <2>6 DEF AllOrdered
  <2> QED
    BY <1>1, <2>1, <2>4, <2>7 DEF Mark
<1> QED
  BY <1>2, <1>3

\* tmoveato deletes the newest marks: the older ones stay in their order.
LEMMA DeletionKeeps ==
  ASSUME IInv, tmoveato
  PROVE IInv'
<1> DEFINE c == current_retmark
<1>1. PICK n \in 0 .. Marks - 1 :
        /\ current_retmark' = Back(n)
        /\ retmarks' = [t \in Mark |-> IF \E i \in 1 .. n : t = Back(i) THEN 0 ELSE retmarks[t]]
  BY DEF tmoveato, Mark
<1>2. /\ scan = Idle /\ cy' = 0
      /\ UNCHANGED <<histindex, circled, scr, scrolled_retmark, scrollmarks, enterlessmode,
                     less, scan, count, reversed, strayed>>
  BY DEF tmoveato, hist
<1>3. /\ Marks \in Nat \ {0} /\ Marks >= 2 /\ c \in 0 .. Marks - 1 /\ c \in Mark
      /\ n \in 0 .. Marks /\ n \in Int /\ Marks \in Int /\ c \in Int
      /\ retmarks \in [Mark -> 0 .. H + Height - 2] /\ circled \in BOOLEAN
  BY ConstantFacts, TypeFacts DEF Mark
<1>4. /\ \A k \in 0 .. Marks :
           /\ Back(k) = IF k <= c THEN c - k ELSE c - k + Marks
           /\ Back(k) \in Mark
  BY <1>3, BackFacts
<1>5. Back(n) = (IF n <= c THEN c - n ELSE c - n + Marks) /\ Back(n) \in 0 .. Marks - 1
  BY <1>3, <1>4 DEF Mark
<1>6. ASSUME NEW j \in 1 .. Marks
      PROVE Back(j)' = IF n + j <= Marks THEN Back(n + j) ELSE Back(n + j - Marks)
  <2>1. Back(j)' = (Back(n) - j) % Marks
    BY <1>1 DEF Back
  <2>2. j \in 0 .. Marks /\ j \in Int
    BY <1>3
  <2>3. Back(j)' = IF j <= Back(n) THEN Back(n) - j ELSE Back(n) - j + Marks
    BY <1>3, <1>5, <2>1, <2>2, ModBack
  <2>4. CASE n + j <= Marks
    <3>1. n + j \in 0 .. Marks
      BY <1>3, <2>2, <2>4
    <3>2. Back(n + j) = IF n + j <= c THEN c - (n + j) ELSE c - (n + j) + Marks
      BY <1>4, <3>1
    <3> QED
      BY <1>3, <1>5, <1>6, <2>2, <2>3, <2>4, <3>2
  <2>5. CASE ~(n + j <= Marks)
    <3>1. n + j - Marks \in 0 .. Marks
      BY <1>3, <2>2, <2>5
    <3>2. Back(n + j - Marks) = IF n + j - Marks <= c THEN c - (n + j - Marks)
                                                      ELSE c - (n + j - Marks) + Marks
      BY <1>4, <3>1
    <3> QED
      BY <1>3, <1>5, <1>6, <2>2, <2>3, <2>5, <3>2
  <2> QED
    BY <2>4, <2>5
<1>7. ASSUME ~circled, NEW i \in 1 .. Marks - 1, NEW j \in i + 1 .. Marks,
             retmarks'[Back(j)'] # 0
      PROVE retmarks'[Back(i)'] > retmarks'[Back(j)']
  <2>1. i \in 1 .. Marks /\ j \in 1 .. Marks /\ i \in Int /\ j \in Int /\ i < j
    BY <1>3
  <2>2. n + j <= Marks
    <3> SUFFICES ASSUME ~(n + j <= Marks)
                 PROVE FALSE
      OBVIOUS
    <3>1. Back(j)' = Back(n + j - Marks)
      BY <1>6, <2>1
    <3>2. n + j - Marks \in 1 .. n /\ n + j - Marks \in 0 .. Marks
      BY <1>3, <2>1
    <3>3. Back(j)' \in Mark
      BY <1>4, <3>1, <3>2
    <3>4. retmarks'[Back(j)'] = 0
      BY <1>1, <3>1, <3>2, <3>3
    <3> QED
      BY <1>7, <3>4
  <2>3. n + i \in 1 .. Marks - 1 /\ n + i \in 0 .. Marks /\ n + j \in 0 .. Marks
        /\ n + j \in (n + i) + 1 .. Marks
    BY <1>3, <2>1, <2>2
  <2>4. Back(i)' = Back(n + i) /\ Back(j)' = Back(n + j)
    <3>1. n + i <= Marks
      BY <1>3, <2>3
    <3> QED
      BY <1>6, <2>1, <2>2, <3>1
  <2>5. Back(n + i) \in Mark /\ Back(n + j) \in Mark
    BY <1>4, <2>3
  <2>6. retmarks'[Back(n + j)] = retmarks[Back(n + j)] /\ retmarks[Back(n + j)] # 0
    BY <1>1, <1>7, <2>4, <2>5
  <2>7. ASSUME NEW k \in 1 .. n
        PROVE Back(n + i) # Back(k)
    <3>1. k \in 0 .. Marks /\ k < n + i /\ k >= 1 /\ k \in Int
      BY <1>3, <2>1
    <3>2. Back(k) = IF k <= c THEN c - k ELSE c - k + Marks
      BY <1>4, <3>1
    <3>3. Back(n + i) = IF n + i <= c THEN c - (n + i) ELSE c - (n + i) + Marks
      BY <1>4, <2>3
    <3> QED
      BY <1>3, <2>1, <2>3, <3>1, <3>2, <3>3
  <2>8. retmarks'[Back(n + i)] = retmarks[Back(n + i)]
    BY <1>1, <2>5, <2>7
  <2>9. retmarks[Back(n + i)] > retmarks[Back(n + j)]
    BY <1>7, <2>3, <2>6 DEF IInv, AllOrdered
  <2> QED
    BY <2>4, <2>6, <2>8, <2>9
<1>8. AllOrdered'
  BY <1>2, <1>7 DEF AllOrdered
<1>9. TypeOK'
  <2>1. current_retmark' \in Mark
    BY <1>1, <1>3, <1>4
  <2>2. retmarks' \in [Mark -> 0 .. H + Height - 2]
    BY <1>1, <1>3, ConstantFacts
  <2> QED
    BY <1>2, <2>1, <2>2, ConstantFacts DEF IInv, TypeOK, Mark
<1>10. ScrInHistory' /\ BookmarksWritten'
  BY <1>2 DEF IInv, ScrInHistory, BookmarksWritten
<1> QED
  BY <1>8, <1>9, <1>10 DEF IInv

\* A line of output: the view moves on with the lines, or less mode shows the
\* command's line.
LEMMA LineFeedKeeps ==
  ASSUME IInv, LineFeed
  PROVE IInv'
<1>0. /\ histindex \in 0 .. H - 1 /\ histindex \in Int /\ H \in Nat \ {0} /\ circled \in BOOLEAN
      /\ scr \in Int /\ cy \in 0 .. Height - 1 /\ cy \in Int /\ Height \in Int
      /\ less \in BOOLEAN /\ enterlessmode \in BOOLEAN /\ strayed \in BOOLEAN
      /\ scrollmarks \in [{0} \cup Bookmarks -> Int] /\ scrollmarks[0] \in Int
      /\ reversed \in Int /\ 0 <= reversed /\ count \in -reversed .. MaxLines
      /\ Ahead \in Int /\ 0 <= Ahead /\ MaxLines \in Int
  BY TypeFacts, ConstantFacts DEF IInv, TypeOK
<1>1. UNCHANGED <<retmarks, current_retmark, scrolled_retmark, scrollmarks, scan, reversed, strayed>>
  BY DEF LineFeed, marks
<1>2. CASE /\ cy < Height - 1 /\ cy' = cy + 1
           /\ UNCHANGED <<histindex, circled, scr, enterlessmode, less, count>>
  <2>1. cy' \in 0 .. Height - 1
    BY <1>0, <1>2
  <2> QED
    BY <1>1, <1>2, <2>1
    DEF IInv, TypeOK, ScrInHistory, BookmarksWritten, AllOrdered, Back
<1>3. CASE cy = Height - 1 /\ count + reversed < MaxLines /\ UNCHANGED cy
           /\ histindex' = (histindex + 1) % H
           /\ circled' = (circled \/ histindex' = 0)
           /\ count' = count + 1
           /\ scr' = (IF EnterLess THEN histindex' - scrollmarks[0]
                      ELSE IF 0 < scr /\ scr < H THEN Lower(scr + 1, H - 1) ELSE scr)
           /\ less' = (less \/ EnterLess)
           /\ enterlessmode' = (enterlessmode /\ ~EnterLess)
  <2>1. histindex' = IF histindex = H - 1 THEN 0 ELSE histindex + 1
    BY <1>0, <1>3, ModNext
  <2>2. histindex' \in 0 .. H - 1 /\ histindex' \in Int /\ circled' \in BOOLEAN
    BY <1>0, <1>3, <2>1
  <2>3. ~circled' => ~circled /\ histindex' = histindex + 1 /\ histindex + 1 <= H - 1
    <3>1. ~circled' => ~circled /\ histindex' # 0
      BY <1>0, <1>3
    <3>2. histindex' # 0 => histindex' = histindex + 1 /\ histindex + 1 <= H - 1
      BY <1>0, <2>1
    <3> QED
      BY <3>1, <3>2
  <2>4. count' \in -reversed' .. MaxLines
    BY <1>0, <1>1, <1>3
  <2>5. EnterLess \in BOOLEAN /\ (EnterLess => enterlessmode /\ histindex' > scrollmarks[0])
    BY <1>0, <2>2 DEF EnterLess
  <2>6. scr' \in Int
    BY <1>0, <1>3, <2>2 DEF Lower
  <2>7. ASSUME ~circled'
        PROVE -(reversed + Ahead) <= scr' /\ scr' <= histindex' + reversed
    <3>1. /\ -(reversed + Ahead) <= scr /\ scr <= histindex + reversed
          /\ scrollmarks[0] = 0 \/ 1 - reversed <= scrollmarks[0]
      BY <2>3, <2>7 DEF IInv, ScrInHistory, BookmarksWritten
    <3>2. CASE EnterLess
      BY <1>0, <1>3, <2>2, <2>5, <3>1, <3>2
    <3>3. CASE ~EnterLess /\ 0 < scr /\ scr < H
      <4>1. scr' = Lower(scr + 1, H - 1)
        BY <1>3, <3>3
      <4>2. scr' >= 0 /\ scr' <= scr + 1
        BY <1>0, <3>3, <4>1 DEF Lower
      <4> QED
        BY <1>0, <2>3, <2>6, <2>7, <3>1, <4>2
    <3>4. CASE ~EnterLess /\ ~(0 < scr /\ scr < H)
      <4>1. scr' = scr
        BY <1>3, <3>4
      <4> QED
        BY <1>0, <2>3, <2>7, <3>1, <4>1
    <3> QED
      BY <3>2, <3>3, <3>4
  <2>8. ASSUME reversed = 0, ~strayed
        PROVE -Ahead <= scr' /\ scr' <= H
    <3>1. -Ahead <= scr /\ scr <= H /\ (EnterLess => 0 <= scrollmarks[0])
      <4>1. CASE circled
        BY <1>0, <2>5, <2>8, <4>1 DEF IInv, ScrInHistory, BookmarksWritten
      <4>2. CASE ~circled
        BY <1>0, <2>5, <2>8, <4>2 DEF IInv, ScrInHistory, BookmarksWritten
      <4> QED
        BY <1>0, <4>1, <4>2
    <3>2. CASE EnterLess
      BY <1>0, <1>3, <2>2, <2>5, <3>1, <3>2
    <3>3. CASE ~EnterLess
      BY <1>0, <1>3, <3>1, <3>3 DEF Lower
    <3> QED
      BY <3>2, <3>3
  <2>9. BookmarksWritten'
    <3>1. ~circled' => /\ \A i \in {0} \cup Bookmarks : scrollmarks[i] = 0 \/ 1 - reversed <= scrollmarks[i]
                       /\ \A i \in Bookmarks : scrollmarks[i] <= histindex + 1 + reversed + Ahead
      BY <2>3 DEF IInv, BookmarksWritten
    <3>2. \A i \in Bookmarks : scrollmarks[i] \in Int
      BY <1>0
    <3>3. ~circled' => \A i \in Bookmarks : scrollmarks[i] <= histindex' + 1 + reversed + Ahead
      BY <1>0, <2>3, <3>1, <3>2
    <3>4. enterlessmode' => enterlessmode
      BY <1>3
    <3>5. enterlessmode' /\ reversed = 0 /\ ~strayed => 0 <= scrollmarks[0]
      BY <3>4 DEF IInv, BookmarksWritten
    <3> QED
      BY <1>1, <3>1, <3>3, <3>5 DEF BookmarksWritten
  <2>10. AllOrdered'
    BY <1>1, <2>3 DEF IInv, AllOrdered, Back
  <2>11. TypeOK'
    <3>1. less' \in BOOLEAN /\ enterlessmode' \in BOOLEAN
      BY <1>0, <1>3, <2>5
    <3> QED
      BY <1>0, <1>1, <1>3, <2>2, <2>4, <2>6, <3>1 DEF IInv, TypeOK
  <2>12. ScrInHistory'
    BY <1>1, <2>7, <2>8 DEF ScrInHistory
  <2> QED
    BY <2>9, <2>10, <2>11, <2>12 DEF IInv
<1> QED
  BY <1>2, <1>3 DEF LineFeed

\* A line that comes back: the history is a line shorter, or goes on at the ring's end,
\* under a view and bookmarks that do not move.
LEMMA ReverseKeeps ==
  ASSUME IInv, ReverseIndex
  PROVE IInv'
<1>0. /\ histindex \in 0 .. H - 1 /\ histindex \in Int /\ H \in Nat \ {0} /\ circled \in BOOLEAN
      /\ scr \in Int /\ reversed \in 0 .. MaxReverse /\ reversed \in Int
      /\ count \in -reversed .. MaxLines /\ count \in Int
      /\ scrollmarks \in [{0} \cup Bookmarks -> Int]
      /\ Ahead \in Int /\ 0 <= Ahead /\ MaxReverse \in Int /\ MaxLines \in Int
  BY TypeFacts, ConstantFacts DEF IInv, TypeOK
<1>1. /\ UNCHANGED <<circled, scr, cy, retmarks, current_retmark, scrolled_retmark, scrollmarks,
                     enterlessmode, less, scan, strayed>>
      /\ reversed' = reversed + 1 /\ count' = count - 1 /\ reversed < MaxReverse
      /\ histindex' = (histindex - 1) % H
  BY DEF ReverseIndex, marks
<1>2. histindex' = IF histindex = 0 THEN H - 1 ELSE histindex - 1
  <2>1. 1 \in 0 .. H
    BY <1>0
  <2>2. (histindex - 1) % H = IF 1 <= histindex THEN histindex - 1 ELSE histindex - 1 + H
    BY <1>0, <2>1, ModBack
  <2> QED
    BY <1>0, <1>1, <2>2
<1>3. histindex' \in 0 .. H - 1 /\ histindex' \in Int /\ histindex' + reversed' >= histindex + reversed
  BY <1>0, <1>1, <1>2
<1>4. TypeOK'
  <2>1. reversed' \in 0 .. MaxReverse /\ count' \in -reversed' .. MaxLines
    BY <1>0, <1>1
  <2> QED
    BY <1>1, <1>3, <2>1 DEF IInv, TypeOK
<1>5. ScrInHistory'
  BY <1>0, <1>1, <1>3 DEF IInv, ScrInHistory
<1>6. BookmarksWritten'
  <2>1. /\ \A i \in {0} \cup Bookmarks : scrollmarks[i] \in Int
        /\ reversed' \in Int /\ reversed' > reversed /\ reversed' # 0
    BY <1>0, <1>1
  <2> QED
    BY <1>0, <1>1, <1>3, <2>1 DEF IInv, BookmarksWritten
<1>7. AllOrdered'
  BY <1>1 DEF IInv, AllOrdered, Back
<1> QED
  BY <1>4, <1>5, <1>6, <1>7 DEF IInv

\* The rounds of the scans.
LEMMA ScanKeeps ==
  ASSUME IInv, Scanning
  PROVE IInv'
<1>0. /\ current_retmark \in Mark /\ current_retmark \in Int /\ scrolled_retmark \in Mark
      /\ scan \in Scans /\ scan.t \in Int /\ scr \in Int
      /\ 1 \in Mark /\ Mark \subseteq Int /\ \A a \in Int : a % Marks \in Mark
      /\ Idle \in Scans
  BY TypeFacts, PlaceFacts, ConstantFacts DEF Scans, Idle
<1>1. /\ UNCHANGED <<histindex, circled, retmarks, current_retmark, count, cy, scr, less,
                     enterlessmode, scrollmarks, reversed, strayed>>
  BY DEF Scanning, ScanUpStep, ScanDownStep, marks, hist
<1>2. scan' \in Scans /\ scrolled_retmark' \in Mark
  <2>1. CASE ScanUpStep
    <3>1. scan.dir = "up" /\ scan.t % Marks \in Mark /\ scan.t % Marks \in Int
      BY <1>0, <2>1 DEF ScanUpStep
    <3>2. [scan EXCEPT !.t = (scan.t % Marks) - 1] \in Scans
      <4>1. (scan.t % Marks) - 1 \in -Marks .. Marks
        BY <3>1, ConstantFacts DEF Mark
      <4> QED
        BY <1>0, <4>1 DEF Scans
    <3>3. (current_retmark - (scan.t % Marks)) % Marks \in Mark
      <4>1. current_retmark - (scan.t % Marks) \in Int
        BY <1>0, <3>1
      <4> QED
        BY <1>0, <4>1
    <3>4. scan' \in {Idle, [scan EXCEPT !.t = (scan.t % Marks) - 1]}
          /\ scrolled_retmark' \in {scrolled_retmark, (current_retmark - (scan.t % Marks)) % Marks}
      BY <2>1 DEF ScanUpStep
    <3> QED
      BY <1>0, <3>2, <3>3, <3>4
  <2>2. CASE ScanDownStep
    <3>1. scan.t + 1 \in Int /\ (scan.t + 1) % Marks \in Mark
      BY <1>0
    <3>2. [scan EXCEPT !.t = (scan.t + 1) % Marks] \in Scans
      <4>1. (scan.t + 1) % Marks \in -Marks .. Marks
        BY <3>1, ConstantFacts DEF Mark
      <4> QED
        BY <1>0, <4>1 DEF Scans
    <3>3. (current_retmark - scan.t + 1) % Marks \in Mark
      <4>1. current_retmark - scan.t + 1 \in Int
        BY <1>0
      <4> QED
        BY <1>0, <4>1
    <3>4. scan' \in {Idle, [scan EXCEPT !.t = (scan.t + 1) % Marks]}
          /\ scrolled_retmark' \in {scrolled_retmark, 1, (current_retmark - scan.t + 1) % Marks}
      BY <2>2 DEF ScanDownStep
    <3> QED
      BY <1>0, <3>2, <3>3, <3>4
  <2> QED
    BY <2>1, <2>2 DEF Scanning
<1>3. /\ scr' \in Int /\ ScrInHistory' /\ strayed' \in BOOLEAN
      /\ less' \in BOOLEAN /\ enterlessmode' \in BOOLEAN
      /\ scrollmarks' \in [{0} \cup Bookmarks -> Int] /\ BookmarksWritten'
  BY <1>1, TypeFacts DEF IInv, ScrInHistory, BookmarksWritten
<1> QED
  BY <1>1, <1>2, <1>3, ViewStep

\* A key that sets a mark, or not, and scrolls down, or not.
LEMMA KeyStep ==
  ASSUME IInv, UNCHANGED <<histindex, circled, count, reversed, strayed, cy>>,
         set_retmark \/ UNCHANGED <<retmarks, current_retmark, scrolled_retmark>>,
         scr' \in Int, InRange(scr'), scan' \in Scans,
         less' \in BOOLEAN, enterlessmode' \in BOOLEAN,
         scrollmarks' \in [{0} \cup Bookmarks -> Int], BookmarksWritten'
  PROVE IInv'
<1>1. /\ retmarks' \in [Mark -> 0 .. H + Height - 2]
      /\ current_retmark' \in Mark /\ scrolled_retmark' \in Mark
      /\ AllOrdered'
  <2>1. CASE set_retmark
    BY <2>1, SetFacts
  <2>2. CASE UNCHANGED <<retmarks, current_retmark, scrolled_retmark>>
    BY <2>2, TypeFacts DEF IInv, AllOrdered, Back
  <2> QED
    BY <2>1, <2>2
<1>2. TypeOK'
  BY <1>1 DEF IInv, TypeOK, Scans, Mark
<1>3. ScrInHistory'
  BY RangeStep
<1> QED
  BY <1>1, <1>2, <1>3 DEF IInv

\* Return, Shift+Return, and the keys of less mode.
LEMMA KeysKeep ==
  ASSUME IInv, Return \/ enterscroll \/ LessKey
  PROVE IInv'
<1>0. /\ histindex \in Int /\ 0 <= histindex /\ cy \in Int /\ 0 <= cy /\ cy <= Height - 1
      /\ scr \in Int /\ scan \in Scans /\ scrolled_retmark \in Mark
      /\ less \in BOOLEAN /\ enterlessmode \in BOOLEAN /\ reversed \in Int /\ 0 <= reversed
      /\ scrollmarks \in [{0} \cup Bookmarks -> Int]
      /\ Ahead \in Int /\ 0 <= Ahead /\ (0 \in Bookmarks => Height - 2 <= Ahead) /\ Height \in Int
  BY TypeFacts, ConstantFacts
<1>1. CASE Return
  <2>1. set_retmark \/ UNCHANGED <<retmarks, current_retmark, scrolled_retmark>>
    BY <1>1 DEF Return, MarkCommand, marks
  <2>2. UNCHANGED <<histindex, circled, count, reversed, strayed, cy, less, enterlessmode, scrollmarks>>
    BY <1>1 DEF Return, hist
  <2>3. scr' \in Int /\ scan' \in Scans /\ InRange(scr')
    BY <1>0, <1>1, ScrollFacts DEF Return
  <2>4. BookmarksWritten'
    BY <2>2 DEF IInv, BookmarksWritten
  <2>5. /\ less' \in BOOLEAN /\ enterlessmode' \in BOOLEAN
        /\ scrollmarks' \in [{0} \cup Bookmarks -> Int]
    BY <1>0, <2>2
  <2> QED
    BY <2>1, <2>2, <2>3, <2>4, <2>5, KeyStep
<1>2. CASE enterscroll
  <2>1. /\ set_retmark \/ UNCHANGED <<retmarks, current_retmark, scrolled_retmark>>
        /\ UNCHANGED <<histindex, circled, count, reversed, strayed, cy, less>>
        /\ enterlessmode' = TRUE
        /\ scrollmarks' = [scrollmarks EXCEPT ![0] = histindex + cy]
    BY <1>2 DEF enterscroll, MarkCommand, marks, hist
  <2>2. scr' \in Int /\ scan' \in Scans /\ InRange(scr')
    BY <1>0, <1>2, ScrollFacts DEF enterscroll
  <2>3. scrollmarks' \in [{0} \cup Bookmarks -> Int] /\ scrollmarks'[0] = histindex + cy
        /\ \A i \in Bookmarks : i # 0 => scrollmarks'[i] = scrollmarks[i]
    BY <1>0, <2>1
  <2>4. /\ scrollmarks'[0] \in Int /\ 0 <= scrollmarks'[0]
        /\ 0 \in Bookmarks => scrollmarks'[0] <= histindex + 1 + reversed + Ahead
    BY <1>0, <2>3
  <2>5. BookmarksWritten'
    <3>1. ASSUME NEW i \in {0} \cup Bookmarks, ~circled
          PROVE /\ scrollmarks'[i] = 0 \/ 1 - reversed <= scrollmarks'[i]
                /\ i \in Bookmarks => scrollmarks'[i] <= histindex + 1 + reversed + Ahead
      <4>1. CASE i = 0
        BY <1>0, <2>4, <4>1
      <4>2. CASE i # 0
        BY <2>3, <3>1, <4>2 DEF IInv, BookmarksWritten
      <4> QED
        BY <4>1, <4>2
    <3> QED
      BY <2>1, <2>4, <3>1 DEF BookmarksWritten
  <2>6. less' \in BOOLEAN /\ enterlessmode' \in BOOLEAN
    BY <1>0, <2>1
  <2> QED
    BY <2>1, <2>2, <2>3, <2>5, <2>6, KeyStep
<1>3. CASE LessKey
  <2>1. UNCHANGED <<histindex, circled, retmarks, current_retmark, count, reversed, strayed, cy,
                    scrolled_retmark, scrollmarks, enterlessmode>>
    BY <1>3 DEF LessKey, marks, hist
  <2>2. less' \in BOOLEAN
    BY <1>0, <1>3 DEF LessKey
  <2>3. scr' \in Int /\ scan' \in Scans /\ InRange(scr')
    <3>1. CASE UNCHANGED <<scr, scan>>
      BY <1>0, <3>1 DEF IInv, ScrInHistory, InRange
    <3>2. CASE Scroll \/ scrolltobottom(scrolled_retmark)
      BY <1>0, <3>2, ScrollFacts
    <3> QED
      BY <1>3, <3>1, <3>2 DEF LessKey
  <2>4. BookmarksWritten'
    BY <2>1 DEF IInv, BookmarksWritten
  <2>5. enterlessmode' \in BOOLEAN /\ scrollmarks' \in [{0} \cup Bookmarks -> Int]
    BY <1>0, <2>1
  <2> QED
    BY <2>1, <2>2, <2>3, <2>4, <2>5, KeyStep
<1> QED
  BY <1>1, <1>2, <1>3

\* The bookmarks of the user.
LEMMA BookmarksKeep ==
  ASSUME IInv, NEW i \in Bookmarks, set_scrollmark(i) \/ scrollmark(i)
  PROVE IInv'
<1>0. /\ histindex \in Int /\ 0 <= histindex /\ histindex <= H - 1 /\ H \in Int
      /\ scr \in Int /\ scan \in Scans /\ strayed \in BOOLEAN /\ circled \in BOOLEAN
      /\ scrolled_retmark \in Mark /\ less \in BOOLEAN /\ enterlessmode \in BOOLEAN
      /\ scrollmarks \in [{0} \cup Bookmarks -> Int] /\ scrollmarks[i] \in Int
      /\ reversed \in Int /\ 0 <= reversed /\ Ahead \in Int /\ 0 <= Ahead
  BY TypeFacts, ConstantFacts
<1>1. UNCHANGED <<histindex, circled, retmarks, current_retmark, count, reversed, cy,
                  scrolled_retmark, scan, less, enterlessmode>>
  BY DEF set_scrollmark, scrollmark, marks
<1>2. CASE set_scrollmark(i)
  <2>1. /\ scr' = scr /\ scrollmarks' = [scrollmarks EXCEPT ![i] = histindex - scr + 1]
        /\ strayed' = (strayed \/ (i = 0 /\ enterlessmode))
    BY <1>2 DEF set_scrollmark
  <2>2. /\ scrollmarks' \in [{0} \cup Bookmarks -> Int]
        /\ scrollmarks'[i] = histindex - scr + 1
        /\ \A j \in {0} \cup Bookmarks : j # i => scrollmarks'[j] = scrollmarks[j]
    BY <1>0, <2>1
  <2>3. BookmarksWritten'
    <3>1. ASSUME ~circled, NEW j \in {0} \cup Bookmarks
          PROVE /\ scrollmarks'[j] = 0 \/ 1 - reversed <= scrollmarks'[j]
                /\ j \in Bookmarks => scrollmarks'[j] <= histindex + 1 + reversed + Ahead
      <4>1. CASE j = i
        <5>1. -(reversed + Ahead) <= scr /\ scr <= histindex + reversed
          BY <3>1 DEF IInv, ScrInHistory
        <5> QED
          BY <1>0, <2>2, <4>1, <5>1
      <4>2. CASE j # i
        BY <2>2, <3>1, <4>2 DEF IInv, BookmarksWritten
      <4> QED
        BY <4>1, <4>2
    <3>2. enterlessmode /\ reversed = 0 /\ ~strayed' => 0 <= scrollmarks'[0]
      <4>1. enterlessmode /\ ~strayed' => i # 0 /\ ~strayed
        BY <2>1
      <4>2. i # 0 => scrollmarks'[0] = scrollmarks[0]
        BY <2>2
      <4> QED
        BY <4>1, <4>2 DEF IInv, BookmarksWritten
    <3> QED
      BY <1>1, <3>1, <3>2 DEF BookmarksWritten
  <2>4. ScrInHistory'
    BY <1>1, <2>1 DEF IInv, ScrInHistory
  <2>5. strayed' \in BOOLEAN /\ less' \in BOOLEAN /\ enterlessmode' \in BOOLEAN
    BY <1>0, <1>1, <2>1
  <2> QED
    BY <1>0, <1>1, <2>1, <2>2, <2>3, <2>4, <2>5, ViewStep
<1>3. CASE scrollmark(i)
  <2>1. /\ scrollmarks' = scrollmarks /\ strayed' = (strayed \/ circled)
        /\ scr' = histindex - scrollmarks[i] + (IF scrollmarks[i] # 0 THEN 1 ELSE 0)
    BY <1>3 DEF scrollmark
  <2>2. scr' \in Int
    BY <1>0, <2>1
  <2>3. ScrInHistory'
    <3>1. ASSUME ~circled
          PROVE -(reversed + Ahead) <= scr' /\ scr' <= histindex + reversed
      <4>1. /\ scrollmarks[i] = 0 \/ 1 - reversed <= scrollmarks[i]
            /\ scrollmarks[i] <= histindex + 1 + reversed + Ahead
        BY <3>1 DEF IInv, BookmarksWritten
      <4>2. CASE scrollmarks[i] = 0
        BY <1>0, <2>1, <4>2
      <4>3. CASE scrollmarks[i] # 0
        BY <1>0, <2>1, <4>1, <4>3
      <4> QED
        BY <4>2, <4>3
    <3> QED
      BY <1>0, <1>1, <2>1, <3>1 DEF ScrInHistory
  <2>4. BookmarksWritten'
    BY <1>1, <2>1 DEF IInv, BookmarksWritten
  <2>5. strayed' \in BOOLEAN /\ less' \in BOOLEAN /\ enterlessmode' \in BOOLEAN
    BY <1>0, <1>1, <2>1
  <2> QED
    BY <1>0, <1>1, <2>1, <2>2, <2>3, <2>4, <2>5, ViewStep
<1> QED
  BY <1>2, <1>3

\* 0 to 9, Tab and Backspace: retmark.
LEMMA RetmarkKeeps ==
  ASSUME IInv, \/ \E n \in 1 .. Marks - 1 : RetmarkNumber(n)
               \/ RetmarkDown \/ RetmarkBottom \/ RetmarkUp
  PROVE IInv'
<1>0. /\ histindex \in Int /\ 0 <= histindex /\ histindex <= H - 1 /\ scr \in Int /\ scan \in Scans
      /\ scrolled_retmark \in Mark /\ 0 \in Mark /\ current_retmark \in Mark
      /\ \A t \in Mark : retmarks[t] \in Int /\ 0 <= retmarks[t]
      /\ circled \in BOOLEAN /\ strayed \in BOOLEAN /\ reversed \in Int /\ 0 <= reversed
      /\ H \in Nat \ {0} /\ Ahead \in Int /\ 0 <= Ahead
  BY TypeFacts, PlaceFacts, ConstantFacts
<1>1. /\ UNCHANGED <<histindex, circled, retmarks, current_retmark, count, reversed, strayed, cy>>
      /\ UNCHANGED <<scrollmarks, enterlessmode>> /\ less' = TRUE
  BY DEF RetmarkNumber, RetmarkDown, RetmarkBottom, RetmarkUp, retmark, marks, hist
<1>2. ASSUME NEW s \in Int, s <= histindex \/ InRange(s)
      PROVE NotNegative(s) \in Int /\ InRange(NotNegative(s))
  <2>1. s % H \in 0 .. H - 1
    BY <1>0
  <2> DEFINE m == s % H
  <2>2. m \in Int /\ 0 <= m /\ m <= H - 1
    BY <1>0, <2>1
  <2>3. NotNegative(s) = IF s >= 0 THEN s ELSE IF circled THEN m ELSE 0
    BY DEF NotNegative
  <2> HIDE DEF m
  <2> QED
    BY <1>0, <1>2, <2>2, <2>3 DEF InRange
<1>3. ASSUME NEW i \in 1 .. Marks - 1, ToMark(i)
      PROVE scr' \in Int /\ scan' \in Scans /\ scrolled_retmark' \in Mark /\ InRange(scr')
  <2>1. i \in 0 .. Marks /\ i \in Int
    BY ConstantFacts
  <2>2. Back(i) \in Mark
    BY <1>0, <2>1, BackFacts
  <2>3. histindex - retmarks[Back(i)] \in Int /\ histindex - retmarks[Back(i)] <= histindex
    BY <1>0, <2>2
  <2>4. i % Marks \in Mark
    BY <1>0, <2>1, PlaceFacts
  <2> QED
    BY <1>0, <1>2, <1>3, <2>3, <2>4 DEF ToMark
<1>4. ASSUME ToBottom
      PROVE scr' \in Int /\ scan' \in Scans /\ scrolled_retmark' \in Mark /\ InRange(scr')
  BY <1>0, <1>4, ScrollFacts DEF ToBottom
<1>5. scr' \in Int /\ scan' \in Scans /\ scrolled_retmark' \in Mark /\ InRange(scr')
  <2>1. CASE \E n \in 1 .. Marks - 1 : RetmarkNumber(n)
    BY <1>3, <2>1 DEF RetmarkNumber
  <2>2. CASE RetmarkDown
    BY <1>3, <1>4, <2>2 DEF RetmarkDown
  <2>3. CASE RetmarkBottom
    BY <1>4, <2>3 DEF RetmarkBottom
  <2>4. CASE RetmarkUp
    <3>1. CASE scrolltotop /\ UNCHANGED scrolled_retmark
      BY <1>0, <3>1, ScrollFacts
    <3>2. CASE \E i \in 1 .. Marks - 1 : ToMark(i)
      BY <1>3, <3>2
    <3>3. CASE scr' = NotNegative(scr) /\ UNCHANGED <<scan, scrolled_retmark>>
      <4>1. InRange(scr)
        BY DEF IInv, ScrInHistory, InRange
      <4> QED
        BY <1>0, <1>2, <3>3, <4>1
    <3> QED
      BY <2>4, <3>1, <3>2, <3>3 DEF RetmarkUp
  <2> QED
    BY <2>1, <2>2, <2>3, <2>4
<1>6. BookmarksWritten' /\ ScrInHistory'
  BY <1>1, <1>5, RangeStep DEF IInv, BookmarksWritten
<1>7. /\ less' \in BOOLEAN /\ enterlessmode' \in BOOLEAN /\ strayed' \in BOOLEAN
      /\ scrollmarks' \in [{0} \cup Bookmarks -> Int]
  BY <1>0, <1>1, TypeFacts
<1> QED
  BY <1>1, <1>5, <1>6, <1>7, ViewStep

\* At the start nothing is marked and nothing saved.
LEMMA InitFacts == Init => IInv
<1> SUFFICES ASSUME Init
             PROVE IInv
  OBVIOUS
<1>1. TypeOK
  <2>1. /\ 0 \in 0 .. H - 1 /\ 0 \in 0 .. Height - 1 /\ 0 \in 0 .. Marks - 1
        /\ 0 \in -0 .. MaxLines /\ 0 \in 0 .. MaxReverse /\ 0 \in 0 .. H + Height - 2 /\ 0 \in -Marks .. Marks
    BY ConstantFacts
  <2>2. retmarks \in [0 .. Marks - 1 -> 0 .. H + Height - 2]
    BY <2>1 DEF Init
  <2>3. scrollmarks \in [{0} \cup Bookmarks -> Int]
    BY DEF Init
  <2>4. scan \in [dir : {"none", "up", "down"}, t : -Marks .. Marks]
    BY <2>1 DEF Init, Idle
  <2> QED
    BY <2>1, <2>2, <2>3, <2>4 DEF Init, TypeOK
<1>2. ScrInHistory /\ BookmarksWritten
  BY ConstantFacts DEF Init, ScrInHistory, BookmarksWritten
<1>3. AllOrdered
  <2>1. ASSUME NEW i \in 1 .. Marks - 1, NEW j \in i + 1 .. Marks
        PROVE retmarks[Back(j)] = 0
    <3>1. current_retmark \in Mark /\ j \in 0 .. Marks
      BY ConstantFacts DEF Init, Mark
    <3>2. Back(j) \in Mark
      BY <3>1, BackFacts
    <3> QED
      BY <3>2 DEF Init, Mark
  <2> QED
    BY <2>1 DEF AllOrdered
<1> QED
  BY <1>1, <1>2, <1>3 DEF IInv

\* Every step keeps the invariant.
LEMMA NextKeeps == IInv /\ [Next]_vars => IInv'
<1> SUFFICES ASSUME IInv, [Next]_vars
             PROVE IInv'
  OBVIOUS
<1>1. CASE LineFeed
  BY <1>1, LineFeedKeeps
<1>2. CASE ReverseIndex
  BY <1>2, ReverseKeeps
<1>3. CASE \E y \in 0 .. Height - 1 : tmoveto(y)
  <2>1. PICK y \in 0 .. Height - 1 : tmoveto(y)
    BY <1>3
  <2>2. cy' \in 0 .. Height - 1
        /\ UNCHANGED <<histindex, circled, scr, marks, scrolled_retmark, scrollmarks,
                       enterlessmode, less, scan, hist>>
    BY <2>1 DEF tmoveto
  <2> QED
    BY <2>2 DEF marks, hist, IInv, TypeOK, ScrInHistory, BookmarksWritten, AllOrdered, Back
<1>4. CASE tmoveato
  BY <1>4, DeletionKeeps
<1>5. CASE Return \/ enterscroll \/ LessKey
  BY <1>5, KeysKeep
<1>6. CASE \E i \in Bookmarks : set_scrollmark(i) \/ scrollmark(i)
  BY <1>6, BookmarksKeep
<1>7. CASE \/ \E n \in 1 .. Marks - 1 : RetmarkNumber(n)
           \/ RetmarkDown \/ RetmarkBottom \/ RetmarkUp
  BY <1>7, RetmarkKeeps
<1>8. CASE Scanning
  BY <1>8, ScanKeeps
<1>9. CASE UNCHANGED vars
  BY <1>9 DEF vars, marks, IInv, TypeOK, ScrInHistory, BookmarksWritten, AllOrdered, Back
<1> QED
  BY <1>1, <1>2, <1>3, <1>4, <1>5, <1>6, <1>7, <1>8, <1>9 DEF Next

\* So the invariant holds in every state.
LEMMA Invariance == Spec => []IInv
BY InitFacts, NextKeeps, PTL DEF Spec

\* The turns of the ring, in lines: what a count of lines loses when it is masked,
\* forwards or back.
Turns == {q * H : q \in Int}

LEMMA TurnFacts ==
  /\ 0 \in Turns /\ Turns \subseteq Int
  /\ \A x \in Turns : x + H \in Turns /\ x - H \in Turns /\ (x # 0 => x >= H \/ x <= -H)
  /\ \A x, y \in Turns : x - y \in Turns
<1>0. H \in Nat /\ H >= 1
  BY ConstantFacts
<1>1. ASSUME NEW q \in Int
      PROVE /\ q * H \in Int /\ q * H + H = (q + 1) * H /\ q * H - H = (q - 1) * H
            /\ q # 0 => q * H >= H \/ q * H <= -H
  <2>1. q * H \in Int /\ q * H + H = (q + 1) * H /\ q * H - H = (q - 1) * H
    BY <1>0
  <2>2. q >= 1 => q * H >= H
    <3>1. q * H = (q - 1) * H + H
      BY <1>0
    <3>2. q >= 1 => q - 1 \in Nat /\ (q - 1) * H \in Nat
      BY <1>0
    <3> QED
      BY <1>0, <2>1, <3>1, <3>2
  <2>3. q <= -1 => q * H <= -H
    <3>1. q * H = -((-1 - q) * H) - H
      BY <1>0
    <3>2. q <= -1 => -1 - q \in Nat /\ (-1 - q) * H \in Nat
      BY <1>0
    <3> QED
      BY <1>0, <2>1, <3>1, <3>2
  <2> QED
    BY <2>1, <2>2, <2>3
<1>2. 0 \in Turns
  <2>1. 0 = 0 * H
    BY <1>0
  <2> QED
    BY <2>1 DEF Turns
<1>3. Turns \subseteq Int
  BY <1>1 DEF Turns
<1>4. ASSUME NEW x \in Turns
      PROVE x + H \in Turns /\ x - H \in Turns /\ (x # 0 => x >= H \/ x <= -H)
  <2>1. PICK q \in Int : x = q * H
    BY DEF Turns
  <2>2. x + H = (q + 1) * H /\ x - H = (q - 1) * H /\ q + 1 \in Int /\ q - 1 \in Int
    BY <1>1, <2>1
  <2>3. x # 0 => q # 0
    BY <1>0, <2>1
  <2> QED
    BY <1>1, <2>1, <2>2, <2>3 DEF Turns
<1>5. ASSUME NEW x \in Turns, NEW y \in Turns
      PROVE x - y \in Turns
  <2>1. PICK q \in Int : x = q * H
    BY DEF Turns
  <2>2. PICK p \in Int : y = p * H
    BY DEF Turns
  <2>3. x - y = (q - p) * H /\ q - p \in Int
    BY <1>0, <2>1, <2>2
  <2> QED
    BY <2>3 DEF Turns
<1> QED
  BY <1>2, <1>3, <1>4, <1>5

\* A number below the ring's size, less some turns, is masked to itself.
LEMMA TurnsMasked ==
  ASSUME NEW x \in Turns, NEW a \in 0 .. H - 1
  PROVE (a - x) % H = a
<1>0. H \in Nat \ {0} /\ H \in Int /\ a \in Int
  BY ConstantFacts
<1>1. PICK q \in Int : x = q * H
  BY DEF Turns
<1>2. x \in Int
  BY TurnFacts
<1> DEFINE r == (a - x) % H  p == (a - x) \div H
<1>3. a - x = H * p + r /\ r \in 0 .. H - 1 /\ p \in Int
  BY <1>0, <1>2
<1> HIDE DEF r, p
<1>4. CASE p + q = 0
  <2>1. H * p = -(q * H)
    BY <1>0, <1>1, <1>3, <1>4
  <2> QED
    BY <1>0, <1>1, <1>2, <1>3, <2>1 DEF r
<1>5. CASE p + q >= 1
  <2>1. H * p + q * H = H * (p + q) /\ H * (p + q) >= H
    BY <1>0, <1>1, <1>3, <1>5
  <2> QED
    BY <1>0, <1>1, <1>2, <1>3, <2>1
<1>6. CASE p + q <= -1
  <2>1. H * p + q * H = H * (p + q) /\ H * (p + q) <= -H
    BY <1>0, <1>1, <1>3, <1>6
  <2> QED
    BY <1>0, <1>1, <1>2, <1>3, <2>1
<1> QED
  BY <1>1, <1>3, <1>4, <1>5, <1>6

\* A command's line and its mark differ by turns of the ring; before it has wrapped
\* forwards, by no fewer than were lost since.
Counted(t) ==
  retmarks[t] # 0 =>
    /\ commandline[t] - retmarks[t] \in Turns
    /\ ~circled => count - histindex <= commandline[t] - retmarks[t]

\* The lines scrolled off and the commands' lines are what histindex and the marks
\* are, but for the turns of the ring that those have lost.
LinesCounted ==
  /\ count - histindex \in Turns
  /\ ~circled => count <= histindex
  /\ commandline \in [Mark -> Int]
  /\ \A t \in Mark : Counted(t)

\* The line of the command that Shift+Return waits for has not left the screen.
CommandBelow ==
  enterlessmode /\ ~circled /\ count = histindex /\ ~strayed => histindex <= scrollmarks[0]

CInv == IInv /\ CommandBelow /\ LinesCounted

\* The marks and the lines, if both count a line more or less, or a turn is lost.
LEMMA MarksStep ==
  ASSUME CInv, UNCHANGED <<retmarks, commandline>>, ~circled' => ~circled,
         count' - histindex' <= count - histindex \/ circled', count' - histindex' \in Turns,
         ~circled' => count' <= histindex', count' \in Int, histindex' \in Int
  PROVE LinesCounted'
<1>1. /\ commandline \in [Mark -> Int] /\ \A t \in Mark : Counted(t)
      /\ \A t \in Mark : retmarks[t] \in Int
      /\ count \in Int /\ histindex \in Int
  BY TypeFacts DEF CInv, LinesCounted
<1>2. ASSUME NEW t \in Mark
      PROVE Counted(t)'
  <2>1. /\ retmarks'[t] = retmarks[t] /\ commandline'[t] = commandline[t]
        /\ retmarks[t] \in Int /\ commandline[t] \in Int
    BY <1>1
  <2>2. /\ retmarks[t] # 0 => commandline[t] - retmarks[t] \in Turns
        /\ retmarks[t] # 0 /\ ~circled => count - histindex <= commandline[t] - retmarks[t]
    BY <1>1 DEF Counted
  <2>3. retmarks[t] # 0 /\ ~circled' => count' - histindex' <= commandline[t] - retmarks[t]
    <3>1. ~circled' => ~circled /\ count' - histindex' <= count - histindex
      OBVIOUS
    <3> DEFINE d == count - histindex  e == count' - histindex'  m == commandline[t] - retmarks[t]
    <3>2. d \in Int /\ e \in Int /\ m \in Int
      BY <1>1, <2>1
    <3> HIDE DEF d, e, m
    <3> QED
      BY <2>2, <3>1, <3>2 DEF d, e, m
  <2> QED
    BY <2>1, <2>2, <2>3 DEF Counted
<1> QED
  BY <1>1, <1>2 DEF LinesCounted

\* A line of output that scrolls wraps histindex or not, and a turn is lost with it.
LEMMA LineFeedCounts ==
  ASSUME CInv, LineFeed
  PROVE CommandBelow' /\ LinesCounted'
<1>0. /\ histindex \in 0 .. H - 1 /\ histindex \in Int /\ H \in Nat \ {0} /\ circled \in BOOLEAN
      /\ count \in Int /\ enterlessmode \in BOOLEAN /\ scrollmarks[0] \in Int
  BY TypeFacts, ConstantFacts DEF CInv, IInv, TypeOK
<1>1. UNCHANGED <<retmarks, current_retmark, commandline, scrollmarks, strayed>>
  BY DEF LineFeed, marks
<1>2. CASE UNCHANGED <<histindex, circled, enterlessmode, count>>
  BY <1>1, <1>2 DEF CInv, CommandBelow, LinesCounted, Counted
<1>3. CASE /\ histindex' = (histindex + 1) % H
           /\ circled' = (circled \/ histindex' = 0)
           /\ count' = count + 1
           /\ enterlessmode' = (enterlessmode /\ ~EnterLess)
  <2>1. histindex' = IF histindex = H - 1 THEN 0 ELSE histindex + 1
    BY <1>0, <1>3, ModNext
  <2>2. CommandBelow'
    <3> SUFFICES ASSUME enterlessmode'
                 PROVE histindex' <= scrollmarks[0]
      BY <1>1 DEF CommandBelow
    <3>1. enterlessmode /\ ~EnterLess
      BY <1>3
    <3>2. ~(histindex' > scrollmarks[0]) /\ histindex' \in Int
      BY <1>0, <2>1, <3>1 DEF EnterLess
    <3> QED
      BY <1>0, <3>2
  <2>3. count - histindex \in Turns /\ (~circled => count <= histindex)
    BY DEF CInv, LinesCounted
  <2>4. histindex' \in Int /\ count' \in Int /\ (~circled' => ~circled)
    BY <1>0, <1>3, <2>1
  <2>5. CASE histindex = H - 1
    <3>1. count' - histindex' = (count - histindex) + H /\ circled'
      <4>1. histindex' = 0 /\ count' = count + 1 /\ circled'
        BY <1>3, <2>1, <2>5
      <4> QED
        BY <1>0, <2>5, <4>1
    <3>2. count' - histindex' \in Turns
      <4>1. (count - histindex) + H \in Turns
        BY <2>3, TurnFacts
      <4> QED
        BY <3>1, <4>1
    <3>3. LinesCounted'
      BY <1>1, <2>4, <3>1, <3>2, MarksStep
    <3> QED
      BY <2>2, <3>3
  <2>6. CASE histindex # H - 1
    <3>1. count' - histindex' = count - histindex /\ (count <= histindex => count' <= histindex')
      <4>1. histindex' = histindex + 1 /\ count' = count + 1
        BY <1>3, <2>1, <2>6
      <4> QED
        BY <1>0, <4>1
    <3>2. /\ count' - histindex' <= count - histindex /\ count' - histindex' \in Turns
          /\ ~circled' => count' <= histindex'
      <4>1. count' - histindex' \in Turns
        BY <2>3, <3>1
      <4>2. ~circled' => count' <= histindex'
        BY <2>3, <2>4, <3>1
      <4>3. count - histindex \in Int
        BY <1>0
      <4> QED
        BY <3>1, <4>1, <4>2, <4>3
    <3>3. LinesCounted'
      BY <1>1, <2>4, <3>2, MarksStep
    <3> QED
      BY <2>2, <3>3
  <2> QED
    BY <2>5, <2>6
<1> QED
  BY <1>2, <1>3 DEF LineFeed

\* A line that comes back takes both numbers back, or, from the ring's first line, a
\* turn of the ring is lost with it.
LEMMA ReverseCounts ==
  ASSUME CInv, ReverseIndex
  PROVE CommandBelow' /\ LinesCounted'
<1>0. /\ histindex \in 0 .. H - 1 /\ histindex \in Int /\ H \in Nat \ {0} /\ H \in Int
      /\ circled \in BOOLEAN /\ count \in Int /\ scrollmarks[0] \in Int
  BY TypeFacts, ConstantFacts DEF CInv, IInv, TypeOK
<1>1. /\ UNCHANGED <<retmarks, commandline, scrollmarks, strayed, circled, enterlessmode>>
      /\ count' = count - 1 /\ histindex' = (histindex - 1) % H
  BY DEF ReverseIndex, marks
<1>2. histindex' = IF histindex = 0 THEN H - 1 ELSE histindex - 1
  <2>1. 1 \in 0 .. H
    BY <1>0
  <2>2. (histindex - 1) % H = IF 1 <= histindex THEN histindex - 1 ELSE histindex - 1 + H
    BY <1>0, <2>1, ModBack
  <2> QED
    BY <1>0, <1>1, <2>2
<1>3. /\ count - histindex \in Turns /\ (~circled => count <= histindex)
      /\ enterlessmode /\ ~circled /\ count = histindex /\ ~strayed => histindex <= scrollmarks[0]
  BY DEF CInv, LinesCounted, CommandBelow
<1>4. count' \in Int /\ histindex' \in Int
  BY <1>0, <1>1, <1>2
<1>5. CASE histindex = 0
  <2>1. count' - histindex' = (count - histindex) - H
    BY <1>0, <1>1, <1>2, <1>5
  <2>2. count' - histindex' \in Turns
    BY <1>3, <2>1, TurnFacts
  <2>3. /\ count' - histindex' <= count - histindex
        /\ ~circled => count' <= histindex' /\ count' # histindex'
    BY <1>0, <1>1, <1>2, <1>3, <1>5, <2>1
  <2>4. LinesCounted'
    BY <1>1, <1>4, <2>2, <2>3, MarksStep
  <2>5. CommandBelow'
    BY <1>1, <2>3 DEF CommandBelow
  <2> QED
    BY <2>4, <2>5
<1>6. CASE histindex # 0
  <2>1. count' - histindex' = count - histindex /\ histindex' <= histindex
    BY <1>0, <1>1, <1>2, <1>6
  <2>2. /\ count' - histindex' <= count - histindex /\ count' - histindex' \in Turns
        /\ ~circled => count' <= histindex'
        /\ count' = histindex' => count = histindex
    BY <1>0, <1>1, <1>2, <1>3, <1>6, <2>1
  <2>3. LinesCounted'
    BY <1>1, <1>4, <2>2, MarksStep
  <2>4. CommandBelow'
    BY <1>0, <1>1, <1>3, <1>4, <2>1, <2>2 DEF CommandBelow
  <2> QED
    BY <2>3, <2>4
<1> QED
  BY <1>5, <1>6

\* Return notes both numbers of the line; deleting a mark forgets both.
LEMMA MarksCounted ==
  ASSUME CInv, UNCHANGED <<histindex, circled, count>>,
         set_retmark \/ tmoveato \/ UNCHANGED <<retmarks, commandline>>
  PROVE LinesCounted'
<1>0. /\ histindex \in Int /\ cy \in Int /\ count \in Int
      /\ current_retmark \in Mark /\ retmarks \in [Mark -> 0 .. H + Height - 2]
  BY TypeFacts DEF CInv
<1>1. /\ count - histindex \in Turns /\ (~circled => count <= histindex)
      /\ commandline \in [Mark -> Int] /\ \A t \in Mark : Counted(t)
  BY DEF CInv, LinesCounted
<1>2. CASE UNCHANGED <<retmarks, commandline>>
  BY <1>1, <1>2 DEF LinesCounted, Counted
<1>3. CASE tmoveato
  <2>1. PICK n \in 0 .. Marks - 1 :
          /\ retmarks' = [t \in Mark |-> IF \E i \in 1 .. n : t = Back(i) THEN 0 ELSE retmarks[t]]
          /\ commandline' = [t \in Mark |-> IF \E i \in 1 .. n : t = Back(i) THEN 0
                                            ELSE commandline[t]]
    BY <1>3 DEF tmoveato, Mark
  <2>2. commandline' \in [Mark -> Int]
    BY <1>1, <2>1
  <2>3. ASSUME NEW t \in Mark
        PROVE Counted(t)'
    <3>1. CASE \E i \in 1 .. n : t = Back(i)
      BY <2>1, <3>1 DEF Counted
    <3>2. CASE ~\E i \in 1 .. n : t = Back(i)
      <4>1. retmarks'[t] = retmarks[t] /\ commandline'[t] = commandline[t]
        BY <2>1, <3>2
      <4> QED
        BY <1>1, <4>1 DEF Counted
    <3> QED
      BY <3>1, <3>2
  <2> QED
    BY <1>1, <2>2, <2>3 DEF LinesCounted
<1>4. CASE set_retmark
  <2>1. CASE ~BelowLastMark
    BY <1>2, <1>4, <2>1 DEF set_retmark, marks
  <2>2. CASE BelowLastMark
    <3> DEFINE c == current_retmark
    <3>1. /\ retmarks' = [retmarks EXCEPT ![c] = histindex + cy]
          /\ commandline' = [commandline EXCEPT ![c] = count + cy]
      BY <1>4, <2>2 DEF set_retmark
    <3>2. commandline' \in [Mark -> Int]
      BY <1>0, <1>1, <3>1
    <3>3. ASSUME NEW t \in Mark
          PROVE Counted(t)'
      <4>1. CASE t = c
        <5>1. commandline'[t] - retmarks'[t] = count - histindex
          BY <1>0, <1>1, <3>1, <4>1
        <5> QED
          BY <1>0, <1>1, <5>1 DEF Counted
      <4>2. CASE t # c
        <5>1. commandline'[t] = commandline[t] /\ retmarks'[t] = retmarks[t]
          BY <1>0, <1>1, <3>1, <4>2
        <5> QED
          BY <1>1, <5>1 DEF Counted
      <4> QED
        BY <4>1, <4>2
    <3> QED
      BY <1>1, <3>2, <3>3 DEF LinesCounted
  <2> QED
    BY <2>1, <2>2
<1> QED
  BY <1>2, <1>3, <1>4

\* At the start no line was scrolled off.
LEMMA InitCounted == Init => CInv
<1> SUFFICES ASSUME Init
             PROVE CInv
  OBVIOUS
<1>1. count - histindex \in Turns /\ (~circled => count <= histindex)
  BY TurnFacts DEF Init
<1>2. commandline \in [Mark -> Int] /\ \A t \in Mark : retmarks[t] = 0
  BY DEF Init, Mark
<1>3. LinesCounted
  BY <1>1, <1>2 DEF LinesCounted, Counted
<1>4. CommandBelow
  BY DEF Init, CommandBelow
<1> QED
  BY <1>3, <1>4, InitFacts DEF CInv

\* Steps other than a scrolled line change a bookmark and wait for its line only as
\* Shift+Return and the user's keys do.
LEMMA BookmarkStep ==
  ASSUME CInv, UNCHANGED <<histindex, circled, count>>,
         \/ enterscroll
         \/ \E i \in Bookmarks : set_scrollmark(i) \/ scrollmark(i)
         \/ UNCHANGED <<scrollmarks, enterlessmode, strayed>>
  PROVE CommandBelow'
<1>0. /\ histindex \in Int /\ cy \in Int /\ 0 <= cy
      /\ scrollmarks \in [{0} \cup Bookmarks -> Int]
      /\ enterlessmode /\ ~circled /\ count = histindex /\ ~strayed => histindex <= scrollmarks[0]
  BY TypeFacts DEF CInv, CommandBelow
<1>1. CASE enterscroll
  <2>1. scrollmarks'[0] = histindex + cy
    BY <1>0, <1>1 DEF enterscroll
  <2> QED
    BY <1>0, <2>1 DEF CommandBelow
<1>2. CASE \E i \in Bookmarks : set_scrollmark(i)
  <2>1. PICK i \in Bookmarks : set_scrollmark(i)
    BY <1>2
  <2>2. enterlessmode' = enterlessmode /\ strayed' = (strayed \/ (i = 0 /\ enterlessmode))
        /\ (i # 0 => scrollmarks'[0] = scrollmarks[0])
    BY <1>0, <2>1 DEF set_scrollmark
  <2> QED
    BY <1>0, <2>2 DEF CommandBelow
<1>3. CASE \E i \in Bookmarks : scrollmark(i)
  <2>1. scrollmarks' = scrollmarks /\ enterlessmode' = enterlessmode /\ (strayed => strayed')
    BY <1>3 DEF scrollmark
  <2> QED
    BY <1>0, <2>1 DEF CommandBelow
<1>4. CASE UNCHANGED <<scrollmarks, enterlessmode, strayed>>
  BY <1>0, <1>4 DEF CommandBelow
<1> QED
  BY <1>1, <1>2, <1>3, <1>4

\* Every step keeps both.
LEMMA NextCounts == CInv /\ [Next]_vars => CInv'
<1> SUFFICES ASSUME CInv, [Next]_vars
             PROVE CInv'
  OBVIOUS
<1>1. IInv'
  BY NextKeeps DEF CInv
<1>2. CASE LineFeed
  BY <1>1, <1>2, LineFeedCounts DEF CInv
<1>3. CASE ReverseIndex
  BY <1>1, <1>3, ReverseCounts DEF CInv
<1>4. CASE ~LineFeed /\ ~ReverseIndex
  <2>1. /\ UNCHANGED <<histindex, circled, count>>
        /\ set_retmark \/ tmoveato \/ UNCHANGED <<retmarks, commandline>>
        /\ \/ enterscroll
           \/ \E i \in Bookmarks : set_scrollmark(i) \/ scrollmark(i)
           \/ UNCHANGED <<scrollmarks, enterlessmode, strayed>>
    <3>1. CASE tmoveato \/ \E y \in 0 .. Height - 1 : tmoveto(y)
      BY <3>1 DEF tmoveato, tmoveto, marks, hist
    <3>2. CASE Return \/ enterscroll \/ LessKey
      BY <3>2 DEF Return, enterscroll, LessKey, MarkCommand, marks, hist
    <3>3. CASE \E i \in Bookmarks : set_scrollmark(i) \/ scrollmark(i)
      BY <3>3 DEF set_scrollmark, scrollmark, marks
    <3>4. CASE \/ \E n \in 1 .. Marks - 1 : RetmarkNumber(n)
               \/ RetmarkDown \/ RetmarkBottom \/ RetmarkUp
      BY <3>4 DEF RetmarkNumber, RetmarkDown, RetmarkBottom, RetmarkUp, retmark, marks, hist
    <3>5. CASE Scanning
      BY <3>5 DEF Scanning, ScanUpStep, ScanDownStep, marks, hist
    <3>6. CASE UNCHANGED vars
      BY <3>6 DEF vars, marks
    <3> QED
      BY <1>4, <3>1, <3>2, <3>3, <3>4, <3>5, <3>6 DEF Next
  <2>2. LinesCounted'
    BY <2>1, MarksCounted
  <2>3. CommandBelow'
    BY <2>1, BookmarkStep
  <2> QED
    BY <1>1, <2>2, <2>3 DEF CInv
<1> QED
  BY <1>2, <1>3, <1>4

\* So both hold in every state.
LEMMA CountedAlways == Spec => []CInv
BY InitCounted, NextCounts, PTL DEF Spec

\* Indexes, marks and scans stay in range: every access to retmarks, scrollmarks
\* and the ring is masked where it has to be.  (retmarks.c, scroll.c.)
THEOREM MarksTyped == Spec => []TypeOK
<1>1. IInv => TypeOK
  BY DEF IInv
<1> QED
  BY <1>1, Invariance, PTL

\* However keys, marks, bookmarks and less mode move the view while lines are added
\* and come back, it leaves the lines that were written by no more than a line for
\* each reverse index, and by the rows between the second one and the cursor when
\* Shift+Return's line is in a bookmark the user goes to; in a ring that has wrapped
\* it stays in the ring, until a bookmark is gone to there.
\* (kscrollup, kscrolldown, scrolltotop, scrollmark, retmark, tscrollup, tscrolldown.)
THEOREM ViewInHistory == Spec => []ScrInHistory
<1>1. IInv => ScrInHistory
  BY DEF IInv
<1> QED
  BY <1>1, Invariance, PTL

\* The searches of retmark find the marks in the order of their lines, for rings of
\* marks of any size that fill, start over and lose marks to the cursor, and for
\* lines that come back to the screen.  (set_retmark, tmoveato, tscrolldown.)
THEOREM MarksInOrder == Spec => []MarksOrdered
<1>1. IInv => MarksOrdered
  <2> SUFFICES ASSUME IInv, ~circled, NEW i \in 1 .. Marks - 2
               PROVE retmarks[Back(i + 1)] # 0 => retmarks[Back(i)] > retmarks[Back(i + 1)]
    BY DEF MarksOrdered
  <2>1. i \in 1 .. Marks - 1 /\ i + 1 \in i + 1 .. Marks
    BY ConstantFacts
  <2> QED
    BY <2>1 DEF IInv, AllOrdered
<1> QED
  BY <1>1, Invariance, PTL

\* What the two searches know of a mark.
LEMMA DistanceFacts ==
  ASSUME IInv, NEW j \in 1 .. Marks - 1
  PROVE /\ j \in Int /\ Back(j) \in Mark /\ retmarks[Back(j)] \in Int /\ 0 <= retmarks[Back(j)]
        /\ Distance(j) \in Int /\ Distance(j) = histindex - retmarks[Back(j)]
<1>1. current_retmark \in Mark /\ j \in 0 .. Marks /\ j \in Int
  BY TypeFacts, ConstantFacts
<1> QED
  BY <1>1, TypeFacts, BackFacts DEF Distance

\* Tab shows the next mark below the view, or the bottom, and skips none: the search
\* from the oldest mark meets them in the order of their lines.  (retmark.)
THEOREM TabStops == Spec => TabNearest
<1>1. ASSUME IInv, RetmarkDown, ~circled,
             NEW k \in 1 .. Marks - 1, scr' < Distance(k), Distance(k) < scr
      PROVE FALSE
  <2>1. Below(k)
    BY <1>1 DEF Below, Distance
  <2>2. PICK i \in 1 .. Marks - 1 :
          Below(i) /\ (\A j \in i + 1 .. Marks - 1 : ~Below(j)) /\ ToMark(i)
    BY <1>1, <2>1 DEF RetmarkDown
  <2>3. k <= i /\ k \in Int /\ i \in Int
    BY <2>1, <2>2, ConstantFacts
  <2>4. /\ Distance(i) \in Int /\ Distance(i) = histindex - retmarks[Back(i)]
        /\ Distance(k) \in Int /\ Distance(k) = histindex - retmarks[Back(k)]
        /\ retmarks[Back(i)] \in Int /\ retmarks[Back(k)] \in Int /\ 0 <= retmarks[Back(k)]
        /\ histindex \in Int
    BY <1>1, DistanceFacts, TypeFacts
  <2>5. scr' >= Distance(i) /\ scr' \in Int
    BY <1>1, <2>2, <2>4 DEF ToMark, NotNegative
  <2>6. CASE k = i
    BY <1>1, <2>4, <2>5, <2>6
  <2>7. CASE k < i /\ retmarks[Back(i)] = 0
    BY <1>1, <2>4, <2>5, <2>7
  <2>8. CASE k < i /\ retmarks[Back(i)] # 0
    <3>1. i \in k + 1 .. Marks
      BY <2>3, <2>8, ConstantFacts
    <3>2. retmarks[Back(k)] > retmarks[Back(i)]
      BY <1>1, <2>8, <3>1 DEF IInv, AllOrdered
    <3>3. Distance(k) < Distance(i)
      BY <2>4, <3>2
    <3> QED
      BY <1>1, <2>4, <2>5, <3>3
  <2> QED
    BY <2>3, <2>6, <2>7, <2>8
<1>2. IInv /\ [Next]_vars =>
        [RetmarkDown /\ ~circled
           => ~\E i \in 1 .. Marks - 1 : scr' < Distance(i) /\ Distance(i) < scr]_vars
  BY <1>1
<1> QED
  BY <1>2, Invariance, PTL DEF Spec, TabNearest

\* Backspace shows the next mark above the view and skips none.  (retmark.)
THEOREM BackspaceStops == Spec => BackspaceNearest
<1>1. ASSUME IInv, RetmarkUp, ~circled, histindex >= Height, NEW k \in 1 .. Marks - 1,
             retmarks[Back(k)] # 0, 0 <= Distance(k), scr < Distance(k), Distance(k) < scr'
      PROVE FALSE
  <2>0. /\ histindex \in Int /\ scr \in Int /\ Height \in Int
        /\ Distance(k) \in Int /\ Distance(k) = histindex - retmarks[Back(k)]
        /\ retmarks[Back(k)] \in Int
    BY <1>1, TypeFacts, ConstantFacts, DistanceFacts
  <2>1. Above(k)
    BY <1>1, <2>0 DEF Above
  <2>2. PICK i \in 1 .. Marks - 1 :
          Above(i) /\ (\A j \in 1 .. i - 1 : ~Above(j)) /\ ToMark(i)
    BY <1>1, <2>0, <2>1 DEF RetmarkUp
  <2>3. i <= k /\ k \in Int /\ i \in Int
    BY <2>1, <2>2, ConstantFacts
  <2>4. /\ Distance(i) \in Int /\ Distance(i) = histindex - retmarks[Back(i)]
        /\ retmarks[Back(i)] \in Int
    BY <1>1, DistanceFacts
  <2>5. scr' = IF Distance(i) >= 0 THEN Distance(i) ELSE 0
    BY <1>1, <2>2, <2>4 DEF ToMark, NotNegative
  <2>6. CASE k = i
    BY <1>1, <2>0, <2>4, <2>5, <2>6
  <2>7. CASE i < k
    <3>1. k \in i + 1 .. Marks
      BY <2>3, <2>7, ConstantFacts
    <3>2. retmarks[Back(i)] > retmarks[Back(k)]
      BY <1>1, <3>1 DEF IInv, AllOrdered
    <3>3. Distance(i) < Distance(k)
      BY <2>0, <2>4, <3>2
    <3> QED
      BY <1>1, <2>0, <2>4, <2>5, <3>3
  <2> QED
    BY <2>3, <2>6, <2>7
<1>2. IInv /\ [Next]_vars =>
        [RetmarkUp /\ ~circled /\ histindex >= Height
           => ~\E i \in 1 .. Marks - 1 :
                /\ retmarks[Back(i)] # 0 /\ 0 <= Distance(i)
                /\ scr < Distance(i) /\ Distance(i) < scr']_vars
  BY <1>1
<1> QED
  BY <1>2, Invariance, PTL DEF Spec, BackspaceNearest

\* A mark's number shows the line its command was entered on, however often the ring
\* has wrapped and whatever came back to the screen, as long as the ring holds that
\* line: what histindex and the mark have lost to the masks comes back in the wrapping
\* of a negative difference.  (retmark.)
THEOREM NumberShowsCommand == Spec => RetmarkShows
<1>1. ASSUME CInv, NEW n \in 1 .. Marks - 1, RetmarkNumber(n), retmarks[Back(n)] # 0,
             0 < count - commandline[Back(n)], count - commandline[Back(n)] < H
      PROVE scr' = count - commandline[Back(n)]
  <2> DEFINE t == Back(n)
             age == count - commandline[t]
             d == histindex - retmarks[t]
             x == (count - histindex) - (commandline[t] - retmarks[t])
  <2>0. t \in Mark
    BY <1>1, DistanceFacts DEF CInv
  <2>1. /\ histindex \in Int /\ histindex <= H - 1 /\ count \in Int /\ commandline[t] \in Int
        /\ retmarks[t] \in Int /\ 0 <= retmarks[t] /\ H \in Int /\ H >= 1
    BY <1>1, <2>0, TypeFacts, ConstantFacts DEF CInv, LinesCounted
  <2>2. /\ count - histindex \in Turns /\ commandline[t] - retmarks[t] \in Turns
        /\ ~circled => count - histindex <= commandline[t] - retmarks[t]
    BY <1>1, <2>0 DEF CInv, LinesCounted, Counted
  <2>3. scr' = NotNegative(d)
    BY <1>1 DEF RetmarkNumber, ToMark
  <2>4. 0 < age /\ age < H
    BY <1>1
  <2> HIDE DEF t
  <2>5. age \in Int /\ d = age - x /\ (~circled => x <= 0) /\ d <= H - 1
    BY <2>1, <2>2, SMTT(30)
  <2>6. x \in Turns
    BY <2>2, TurnFacts
  <2> HIDE DEF age, d, x
  <2>7. d % H = age
    <3>1. age \in 0 .. H - 1
      BY <2>1, <2>4, <2>5
    <3> QED
      BY <2>5, <2>6, <3>1, TurnsMasked
  <2>8. x \in Int /\ (x # 0 => x >= H \/ x <= -H)
    BY <2>6, TurnFacts
  <2>9. CASE x = 0
    <3>1. d = age /\ d >= 0
      BY <2>4, <2>5, <2>9
    <3> QED
      BY <2>3, <3>1 DEF NotNegative, age, t
  <2>10. CASE x >= H
    <3>1. ~(d >= 0) /\ circled
      BY <2>1, <2>4, <2>5, <2>8, <2>10
    <3> QED
      BY <2>3, <2>7, <3>1 DEF NotNegative, age, t
  <2>11. ~(x <= -H)
    BY <2>1, <2>4, <2>5, <2>8
  <2> QED
    BY <2>8, <2>9, <2>10, <2>11 DEF age, t
<1>2. CInv /\ [Next]_vars =>
        [\A n \in 1 .. Marks - 1 :
           LET age == count - commandline[Back(n)]
           IN RetmarkNumber(n) /\ retmarks[Back(n)] # 0 /\ 0 < age /\ age < H => scr' = age]_vars
  BY <1>1
<1> QED
  BY <1>2, CountedAlways, PTL DEF Spec, RetmarkShows

\* Less mode is entered when the command's line is the first above the screen, and the
\* view then starts with that line, unless the user put another line into bookmark 0
\* or the ring's index was masked.  (enterscroll, tscrollup.)
THEOREM LessAtCommand == Spec => EnterAtCommand
<1>1. ASSUME CInv, LineFeed, ~less, less', ~strayed, ~circled', histindex' = count'
      PROVE scr' = 1
  <2>1. /\ histindex \in 0 .. H - 1 /\ histindex \in Int /\ H \in Nat \ {0} /\ scrollmarks[0] \in Int
        /\ circled \in BOOLEAN /\ count \in Int
    BY <1>1, TypeFacts, ConstantFacts DEF CInv, IInv, TypeOK
  <2>2. /\ histindex' = (histindex + 1) % H
        /\ circled' = (circled \/ histindex' = 0)
        /\ count' = count + 1
        /\ EnterLess /\ scr' = histindex' - scrollmarks[0]
    BY <1>1 DEF LineFeed
  <2>3. histindex' = IF histindex = H - 1 THEN 0 ELSE histindex + 1
    BY <2>1, <2>2, ModNext
  <2>4. ~circled /\ histindex' = histindex + 1
    BY <1>1, <2>1, <2>2, <2>3
  <2>5. count = histindex
    <3>1. histindex + 1 = count + 1
      BY <1>1, <2>2, <2>4
    <3> QED
      BY <2>1, <3>1
  <2>6. enterlessmode /\ histindex' > scrollmarks[0]
    BY <2>2 DEF EnterLess
  <2>7. histindex <= scrollmarks[0]
    BY <1>1, <2>4, <2>5, <2>6 DEF CInv, CommandBelow
  <2> QED
    BY <2>1, <2>2, <2>4, <2>6, <2>7
<1>2. CInv /\ [Next]_vars =>
        [LineFeed /\ ~less /\ less' /\ ~strayed /\ ~circled' /\ histindex' = count' => scr' = 1]_vars
  BY <1>1
<1> QED
  BY <1>2, CountedAlways, PTL DEF Spec, EnterAtCommand
================================================================================
