--------------------------- MODULE LineRing_proofs ---------------------------
EXTENDS LineRing, TLAPS

LEMMA ModRange ==
  ASSUME NEW a \in Int, NEW n \in Nat \ {0}
  PROVE  a % n \in 0 .. n - 1
  OBVIOUS

LEMMA ModDistinct ==
  ASSUME NEW a \in Int, NEW b \in Int, NEW n \in Nat \ {0},
         a % n = b % n, a - b < n, b - a < n
  PROVE  a = b
<1> DEFINE r == a % n  p == a \div n  q == b \div n
<1>1. r \in Int /\ p \in Int /\ q \in Int
  OBVIOUS
<1>2. a = n * p + r /\ b = n * q + r
  OBVIOUS
<1> HIDE DEF r, p, q
<1>3. n * (q + 1) = n * q + n /\ n * (p + 1) = n * p + n
  BY <1>1
<1>4. n * p < n * (q + 1) /\ n * q < n * (p + 1)
  BY <1>1, <1>2, <1>3
<1>5. p < q + 1 /\ q < p + 1
  BY <1>1, <1>4
<1>6. p = q
  BY <1>1, <1>5
<1>7. QED
  BY <1>2, <1>6

(* The part of TypeOK and NoSharing that speaks of the ring and the rows,  *)
(* and the part that speaks of sizes and positions.                        *)
StoreOK ==
  /\ hist \in [Slots -> Buf \cup {NULL}]
  /\ histindex \in Slots
  /\ circled \in BOOLEAN
  /\ line \in [Rows -> Buf]
  /\ heap \subseteq Buf
  /\ width \in [Buf -> Nat]
  /\ text \in [Buf -> Texts]
  /\ scr \in 0 .. H
  /\ NoSharing

PlaceOK ==
  /\ rows \in RowSizes /\ cols \in ColSizes
  /\ colalloc \in Nat /\ cols <= colalloc
  /\ cy \in Rows
  /\ top \in Rows /\ bottom \in Rows /\ top <= bottom

IInv == StoreOK /\ PlaceOK

Distinct(l) == \A x, y \in Rows : l[x] = l[y] => x = y

LEMMA IInvImplies == IInv <=> TypeOK /\ NoSharing
  BY DEF IInv, StoreOK, PlaceOK, TypeOK

LEMMA RowsNat ==
  ASSUME PlaceOK
  PROVE  /\ H \in Nat \ {0} /\ NULL \notin Buf
         /\ rows \in Nat \ {0} /\ rows < H
         /\ top \in Nat /\ bottom \in Nat /\ bottom < rows /\ top <= bottom
         /\ cols \in Nat /\ colalloc \in Nat
  BY RingAssumption DEF PlaceOK, Rows

LEMMA LimitRange ==
  ASSUME NEW x \in Int, NEW lo \in Int, NEW hi \in Int, lo <= hi
  PROVE  Limit(x, lo, hi) \in lo .. hi
  BY DEF Limit

LEMMA CountRange ==
  ASSUME PlaceOK, NEW orig \in Rows, orig <= bottom, NEW k \in Int
  PROVE  Limit(k, 0, bottom - orig + 1) \in 0 .. bottom - orig + 1
<1>1. bottom - orig + 1 \in Int /\ 0 <= bottom - orig + 1
  BY RowsNat DEF Rows
<1>2. QED
  BY <1>1 DEF Limit

LEMMA NextSlot ==
  ASSUME PlaceOK, histindex \in Slots
  PROVE  (histindex + 1) % H \in Slots /\ (histindex + H - 1) % H \in Slots
<1>1. H \in Nat \ {0} /\ histindex + 1 \in Int /\ histindex + H - 1 \in Int
  BY RowsNat DEF Slots
<1>2. QED
  BY <1>1, ModRange DEF Slots

LEMMA ClearedType ==
  ASSUME text \in [Buf -> Texts], NEW l, NEW y1, NEW y2
  PROVE  Cleared(l, y1, y2) \in [Buf -> Texts]
  BY DEF Cleared, Texts

(* Moving the rows of a region only permutes them: no row loses its line   *)
(* and no two rows get the same one.                                       *)
LEMMA MovedUpPermutes ==
  ASSUME PlaceOK, NEW l \in [Rows -> Buf], NEW orig \in Rows, orig <= bottom,
         NEW n \in 0 .. bottom - orig + 1
  PROVE  /\ MovedUp(l, orig, n) \in [Rows -> Buf]
         /\ \A y \in Rows : \E x \in Rows : MovedUp(l, orig, n)[y] = l[x]
         /\ Distinct(l) => Distinct(MovedUp(l, orig, n))
<1> DEFINE p(y) == IF n = 0 \/ y < orig \/ y > bottom THEN y
                   ELSE IF y + n <= bottom THEN y + n
                   ELSE orig + ((y - orig) % n)
<1>0. /\ rows \in Nat /\ bottom \in Nat /\ bottom < rows /\ orig \in Nat /\ n \in Nat
      /\ n <= bottom - orig + 1 /\ Rows = 0 .. rows - 1
  BY RowsNat DEF Rows
<1>1. ASSUME NEW y \in Rows, n # 0
      PROVE  (y - orig) % n \in 0 .. n - 1
  BY <1>0, <1>1, ModRange
<1>5. ASSUME NEW y \in Rows
      PROVE  /\ p(y) \in Int
             /\ (n = 0 \/ y < orig \/ y > bottom) => p(y) = y
             /\ (n # 0 /\ orig <= y /\ y <= bottom) => p(y) \in orig .. bottom
  BY <1>0, <1>1
<1>2. \A y \in Rows : p(y) \in Rows
  BY <1>0, <1>5
<1>3. MovedUp(l, orig, n) = [y \in Rows |-> l[p(y)]]
  BY DEF MovedUp
<1>4. ASSUME NEW x \in Rows, NEW y \in Rows, p(x) = p(y)
      PROVE  x = y
  <2>1. CASE n = 0 \/ x < orig \/ x > bottom \/ y < orig \/ y > bottom
    <3> HIDE DEF p
    <3>1. QED
      BY <1>0, <1>5, <1>4, <2>1
  <2>2. CASE n # 0 /\ x \in orig .. bottom /\ y \in orig .. bottom
              /\ (x + n <= bottom \/ y + n <= bottom)
    BY <1>0, <1>1, <1>4, <2>2
  <2>3. CASE n # 0 /\ x \in orig .. bottom /\ y \in orig .. bottom
              /\ x + n > bottom /\ y + n > bottom
    <3>1. orig + ((x - orig) % n) = orig + ((y - orig) % n)
      BY <1>0, <1>4, <2>3
    <3>2. (x - orig) % n \in Int /\ (y - orig) % n \in Int
      BY <1>1, <2>3
    <3>3. (x - orig) % n = (y - orig) % n
      BY <1>0, <3>1, <3>2
    <3>4. (x - orig) \in Int /\ (y - orig) \in Int /\ (x - orig) - (y - orig) < n /\ (y - orig) - (x - orig) < n
      BY <1>0, <2>3
    <3>5. n \in Nat \ {0}
      BY <1>0, <2>3
    <3>6. x - orig = y - orig
      BY <3>3, <3>4, <3>5, ModDistinct
    <3>7. QED
      BY <1>0, <3>6
  <2>4. QED
    BY <1>0, <2>1, <2>2, <2>3
<1> HIDE DEF p
<1>6. QED
  BY <1>2, <1>3, <1>4 DEF Distinct

LEMMA MovedDownPermutes ==
  ASSUME PlaceOK, NEW l \in [Rows -> Buf], NEW orig \in Rows, orig <= bottom,
         NEW n \in 0 .. bottom - orig + 1
  PROVE  /\ MovedDown(l, orig, n) \in [Rows -> Buf]
         /\ \A y \in Rows : \E x \in Rows : MovedDown(l, orig, n)[y] = l[x]
         /\ Distinct(l) => Distinct(MovedDown(l, orig, n))
<1> DEFINE p(y) == IF n = 0 \/ y < orig \/ y > bottom THEN y
                   ELSE IF y - n >= orig THEN y - n
                   ELSE bottom - ((bottom - y) % n)
<1>0. /\ rows \in Nat /\ bottom \in Nat /\ bottom < rows /\ orig \in Nat /\ n \in Nat
      /\ n <= bottom - orig + 1 /\ Rows = 0 .. rows - 1
  BY RowsNat DEF Rows
<1>1. ASSUME NEW y \in Rows, n # 0
      PROVE  (bottom - y) % n \in 0 .. n - 1
  BY <1>0, <1>1, ModRange
<1>5. ASSUME NEW y \in Rows
      PROVE  /\ p(y) \in Int
             /\ (n = 0 \/ y < orig \/ y > bottom) => p(y) = y
             /\ (n # 0 /\ orig <= y /\ y <= bottom) => p(y) \in orig .. bottom
  BY <1>0, <1>1
<1>2. \A y \in Rows : p(y) \in Rows
  BY <1>0, <1>5
<1>3. MovedDown(l, orig, n) = [y \in Rows |-> l[p(y)]]
  BY DEF MovedDown
<1>4. ASSUME NEW x \in Rows, NEW y \in Rows, p(x) = p(y)
      PROVE  x = y
  <2>1. CASE n = 0 \/ x < orig \/ x > bottom \/ y < orig \/ y > bottom
    <3> HIDE DEF p
    <3>1. QED
      BY <1>0, <1>5, <1>4, <2>1
  <2>2. CASE n # 0 /\ x \in orig .. bottom /\ y \in orig .. bottom
              /\ (x - n >= orig \/ y - n >= orig)
    BY <1>0, <1>1, <1>4, <2>2
  <2>3. CASE n # 0 /\ x \in orig .. bottom /\ y \in orig .. bottom
              /\ x - n < orig /\ y - n < orig
    <3>1. bottom - ((bottom - x) % n) = bottom - ((bottom - y) % n)
      BY <1>0, <1>4, <2>3
    <3>2. (bottom - x) % n \in Int /\ (bottom - y) % n \in Int
      BY <1>1, <2>3
    <3>3. (bottom - x) % n = (bottom - y) % n
      BY <1>0, <3>1, <3>2
    <3>4. (bottom - x) \in Int /\ (bottom - y) \in Int /\ (bottom - x) - (bottom - y) < n /\ (bottom - y) - (bottom - x) < n
      BY <1>0, <2>3
    <3>5. n \in Nat \ {0}
      BY <1>0, <2>3
    <3>6. bottom - x = bottom - y
      BY <3>3, <3>4, <3>5, ModDistinct
    <3>7. QED
      BY <1>0, <3>6
  <2>4. QED
    BY <1>0, <2>1, <2>2, <2>3
<1> HIDE DEF p
<1>6. QED
  BY <1>2, <1>3, <1>4 DEF Distinct

(* NoSharing of any ring hs, screen l and set hp of live buffers.          *)
Apart(hs, l, hp) ==
  /\ \A i, j \in Slots : hs[i] = hs[j] /\ hs[i] # NULL => i = j
  /\ Distinct(l)
  /\ \A i \in Slots, y \in Rows : hs[i] # l[y]
  /\ \A i \in Slots : hs[i] \in hp \cup {NULL}
  /\ \A y \in Rows : l[y] \in hp

(* A line given to a slot for that slot's line, or for a new one, leaves   *)
(* every line in one place.                                                *)
LEMMA ExchangeApart ==
  ASSUME StoreOK, PlaceOK, NEW h \in Slots, NEW y \in Rows, NEW new \in BOOLEAN,
         ~new => hist[h] # NULL,
         NEW b \in (IF new THEN Buf \ heap ELSE {hist[h]}),
         Exchange(h, y, b, new)
  PROVE  /\ hist' \in [Slots -> Buf \cup {NULL}] /\ histindex' \in Slots
         /\ heap' \subseteq Buf /\ width' \in [Buf -> Nat]
         /\ [line EXCEPT ![y] = b] \in [Rows -> Buf]
         /\ Apart(hist', [line EXCEPT ![y] = b], heap')
<1> DEFINE l == [line EXCEPT ![y] = b]
<1>1. b \in Buf /\ b # NULL /\ (b \in heap => b = hist[h])
  BY RowsNat DEF StoreOK
<1>2. l \in [Rows -> Buf] /\ hist' \in [Slots -> Buf \cup {NULL}] /\ histindex' \in Slots
  BY <1>1 DEF StoreOK, Exchange
<1>3. heap' \subseteq Buf /\ width' \in [Buf -> Nat]
  BY <1>1, RowsNat DEF StoreOK, Exchange
<1>4. /\ \A i \in Slots : hist'[i] = IF i = h THEN line[y] ELSE hist[i]
      /\ \A x \in Rows : l[x] = IF x = y THEN b ELSE line[x]
      /\ heap' = heap \cup {b}
  BY DEF StoreOK, Exchange
<1>5. Apart(hist', l, heap')
  <2>1. \A i, j \in Slots : hist'[i] = hist'[j] /\ hist'[i] # NULL => i = j
    BY <1>4 DEF StoreOK, NoSharing
  <2>2. Distinct(l)
    BY <1>1, <1>4 DEF StoreOK, NoSharing, Distinct
  <2>3. \A i \in Slots, x \in Rows : hist'[i] # l[x]
    BY <1>1, <1>4 DEF StoreOK, NoSharing
  <2>4. \A i \in Slots : hist'[i] \in heap' \cup {NULL}
    BY <1>4 DEF StoreOK, NoSharing
  <2>5. \A x \in Rows : l[x] \in heap'
    BY <1>4 DEF StoreOK, NoSharing
  <2>6. QED
    BY <2>1, <2>2, <2>3, <2>4, <2>5 DEF Apart
<1>6. QED
  BY <1>2, <1>3, <1>5

LEMMA NoSharingApart == NoSharing <=> Apart(hist, line, heap)
  BY DEF NoSharing, Apart, Distinct

(* A screen whose lines are those of l in another order.                   *)
LEMMA PermutedApart ==
  ASSUME rows' = rows, NEW l, Apart(hist', l, heap'),
         \A y \in Rows : \E x \in Rows : line'[y] = l[x],
         Distinct(l) => Distinct(line')
  PROVE  NoSharing'
<1>1. Rows' = Rows /\ Slots' = Slots
  BY DEF Rows, Slots
<1>2. Distinct(line')
  BY DEF Apart
<1>3. QED
  BY <1>1, <1>2 DEF Apart, NoSharing, Distinct

LEMMA ScrollUpStore ==
  ASSUME StoreOK, PlaceOK, UNCHANGED size, NEW l \in [Rows -> Buf],
         Apart(hist', l, heap'),
         NEW orig \in Rows, orig <= bottom, NEW n \in 0 .. bottom - orig + 1,
         ScrollUp(l, orig, n)
  PROVE  /\ line' \in [Rows' -> Buf] /\ text' \in [Buf -> Texts] /\ scr' \in 0 .. H
         /\ NoSharing'
<1>1. rows' = rows /\ Rows' = Rows
  BY DEF size, Rows
<1>2. line' = MovedUp(l, orig, n) /\ text' = Cleared(l, orig, orig + n - 1)
  BY DEF ScrollUp
<1>3. line' \in [Rows' -> Buf]
  BY <1>1, <1>2, MovedUpPermutes
<1>4. text' \in [Buf -> Texts]
  BY <1>2, ClearedType DEF StoreOK
<1>5. scr' \in 0 .. H
  BY RowsNat DEF ScrollUp, StoreOK, Lower
<1>6. NoSharing'
  BY <1>1, <1>2, MovedUpPermutes, PermutedApart
<1>7. QED
  BY <1>3, <1>4, <1>5, <1>6

LEMMA ScrollDownStore ==
  ASSUME StoreOK, PlaceOK, UNCHANGED size, NEW l \in [Rows -> Buf],
         Apart(hist', l, heap'),
         NEW orig \in Rows, orig <= bottom, NEW n \in 0 .. bottom - orig + 1,
         ScrollDown(l, orig, n)
  PROVE  /\ line' \in [Rows' -> Buf] /\ text' \in [Buf -> Texts] /\ scr' \in 0 .. H
         /\ NoSharing'
<1>1. rows' = rows /\ Rows' = Rows
  BY DEF size, Rows
<1>2. line' = MovedDown(l, orig, n) /\ text' = Cleared(l, bottom - n + 1, bottom)
  BY DEF ScrollDown
<1>3. line' \in [Rows' -> Buf]
  BY <1>1, <1>2, MovedDownPermutes
<1>4. text' \in [Buf -> Texts]
  BY <1>2, ClearedType DEF StoreOK
<1>5. scr' \in 0 .. H
  BY DEF ScrollDown, StoreOK
<1>6. NoSharing'
  BY <1>1, <1>2, MovedDownPermutes, PermutedApart
<1>7. QED
  BY <1>3, <1>4, <1>5, <1>6

LEMMA UpStore ==
  ASSUME StoreOK, PlaceOK, UNCHANGED size, NEW orig \in Rows, orig <= bottom,
         NEW k \in Int, tscrollup(orig, k, TRUE) \/ tscrollup(orig, k, FALSE)
  PROVE  StoreOK'
<1> DEFINE n == Limit(k, 0, bottom - orig + 1)
           h == (histindex + 1) % H
           new == hist[h] = NULL \/ (h = 0 /\ ~circled)
<1>1. n \in 0 .. bottom - orig + 1
  BY CountRange
<1>2. h \in Slots
  BY NextSlot DEF StoreOK
<1>3. Slots' = Slots
  BY DEF Slots
<1> HIDE DEF n, h
<1>4. CASE tscrollup(orig, k, TRUE)
  <2>1. PICK b \in (IF new THEN Buf \ heap ELSE {hist[h]}) :
           /\ Exchange(h, orig, b, new)
           /\ ScrollUp([line EXCEPT ![orig] = b], orig, n)
    BY <1>4 DEF tscrollup, n, h
  <2>2. circled' \in BOOLEAN
    BY <1>4 DEF tscrollup, StoreOK
  <2>3. new \in BOOLEAN /\ (~new => hist[h] # NULL)
    OBVIOUS
  <2> HIDE DEF new
  <2>4. /\ hist' \in [Slots -> Buf \cup {NULL}] /\ histindex' \in Slots
        /\ heap' \subseteq Buf /\ width' \in [Buf -> Nat]
        /\ [line EXCEPT ![orig] = b] \in [Rows -> Buf]
        /\ Apart(hist', [line EXCEPT ![orig] = b], heap')
    BY <1>2, <2>1, <2>3, ExchangeApart
  <2>5. QED
    BY <1>1, <1>3, <2>1, <2>2, <2>4, ScrollUpStore DEF StoreOK
<1>5. CASE tscrollup(orig, k, FALSE)
  <2>1. ScrollUp(line, orig, n) /\ UNCHANGED store
    BY <1>5 DEF tscrollup, n
  <2>2. Apart(hist', line, heap') /\ line \in [Rows -> Buf]
    BY <2>1, NoSharingApart DEF StoreOK, store
  <2>3. QED
    BY <1>1, <1>3, <2>1, <2>2, ScrollUpStore DEF StoreOK, store
<1>6. QED
  BY <1>4, <1>5
LEMMA DownStore ==
  ASSUME StoreOK, PlaceOK, UNCHANGED size, NEW orig \in Rows, orig <= bottom,
         NEW k \in Int, tscrolldown(orig, k, TRUE) \/ tscrolldown(orig, k, FALSE)
  PROVE  StoreOK'
<1> DEFINE n == Limit(k, 0, bottom - orig + 1)
           h == (histindex + H - 1) % H
           new == hist[h] = NULL
<1>1. n \in 0 .. bottom - orig + 1
  BY CountRange
<1>2. h \in Slots
  BY NextSlot DEF StoreOK
<1>3. Slots' = Slots
  BY DEF Slots
<1> HIDE DEF n, h
<1>4. CASE tscrolldown(orig, k, TRUE)
  <2>1. PICK b \in (IF new THEN Buf \ heap ELSE {hist[h]}) :
           /\ Exchange(h, bottom, b, new)
           /\ ScrollDown([line EXCEPT ![bottom] = b], orig, n)
    BY <1>4 DEF tscrolldown, n, h
  <2>2. circled' \in BOOLEAN
    BY <1>4 DEF tscrolldown, StoreOK
  <2>3. new \in BOOLEAN /\ (~new => hist[h] # NULL)
    OBVIOUS
  <2> HIDE DEF new
  <2>4. /\ hist' \in [Slots -> Buf \cup {NULL}] /\ histindex' \in Slots
        /\ heap' \subseteq Buf /\ width' \in [Buf -> Nat]
        /\ [line EXCEPT ![bottom] = b] \in [Rows -> Buf]
        /\ Apart(hist', [line EXCEPT ![bottom] = b], heap')
    BY <1>2, <2>1, <2>3, ExchangeApart DEF PlaceOK
  <2>5. QED
    BY <1>1, <1>3, <2>1, <2>2, <2>4, ScrollDownStore DEF StoreOK
<1>5. CASE tscrolldown(orig, k, FALSE)
  <2>1. ScrollDown(line, orig, n) /\ UNCHANGED store
    BY <1>5 DEF tscrolldown, n
  <2>2. Apart(hist', line, heap') /\ line \in [Rows -> Buf]
    BY <2>1, NoSharingApart DEF StoreOK, store
  <2>3. QED
    BY <1>1, <1>3, <2>1, <2>2, ScrollDownStore DEF StoreOK, store
<1>6. QED
  BY <1>4, <1>5

(* A resize keeps a window of the screen's lines, frees the others and     *)
(* fills new rows, and empty slots it enlarges, with new lines.            *)
LEMMA ResizeIInv ==
  ASSUME IInv, NEW col \in ColSizes, NEW row \in RowSizes, tresize(col, row)
  PROVE  IInv'
<1> DEFINE drop   == IF cy >= row THEN cy - row + 1 ELSE 0
           minrow == Lower(row, rows)
           kept   == [y \in 0 .. minrow - 1 |-> line[y + drop]]
           grown  == IF ~(col > colalloc) THEN {}
                     ELSE 0 .. (IF circled THEN H ELSE histindex) - 1
           empty  == {i \in grown : hist[i] = NULL}
           added  == minrow .. row - 1
           asked  == {<<"hist", i>> : i \in empty} \cup {<<"line", y>> : y \in added}
           freed  == {line[y] : y \in Rows} \ {kept[y] : y \in 0 .. minrow - 1}
           wider  == IF col > colalloc THEN {kept[y] : y \in 0 .. minrow - 1}
                                            \cup {hist[i] : i \in grown}
                     ELSE {}
<1>1. /\ row \in Nat \ {0} /\ row < H /\ col \in Nat /\ cy \in 0 .. rows - 1
      /\ rows \in Nat \ {0} /\ H \in Nat \ {0} /\ colalloc \in Nat /\ histindex \in 0 .. H - 1
  BY RowsNat, RingAssumption DEF IInv, PlaceOK, StoreOK, Rows, Slots
<1>2. minrow \in 1 .. rows /\ minrow <= row /\ drop \in Nat
  BY <1>1 DEF Lower
<1>3. ASSUME NEW y \in 0 .. minrow - 1 PROVE y + drop \in Rows
  BY <1>1 DEF Lower, Rows
<1>4. /\ colalloc' = Higher(colalloc, col) /\ cols' = col /\ rows' = row
      /\ tsetscroll(0, row - 1) /\ cy' = Limit(cy, 0, row - 1)
      /\ UNCHANGED <<histindex, circled, scr>>
  BY DEF tresize
<1>5. Rows' = 0 .. row - 1 /\ Slots' = Slots
  BY <1>4 DEF Rows, Slots
<1>6. PICK f \in Mallocs(asked) :
        /\ line' = [y \in 0 .. row - 1 |-> IF y < minrow THEN kept[y] ELSE f[<<"line", y>>]]
        /\ hist' = [i \in Slots |-> IF i \in empty THEN f[<<"hist", i>>] ELSE hist[i]]
        /\ heap' = (heap \ freed) \cup {f[i] : i \in DOMAIN f}
        /\ width' = [b \in Buf |-> IF b \in {f[i] : i \in DOMAIN f} \cup wider
                                   THEN colalloc' ELSE width[b]]
        /\ text' = [b \in Buf |-> IF b \notin {f[i] : i \in DOMAIN f} THEN text[b]
                                  ELSE IF \E i \in empty : f[<<"hist", i>>] = b THEN Uninit
                                  ELSE Blank]
  BY DEF tresize
<1>7. /\ DOMAIN f = asked
      /\ \A i \in asked : f[i] \in Buf /\ f[i] \notin heap
      /\ \A i, j \in asked : f[i] = f[j] => i = j
  BY DEF Mallocs
<1>8. /\ \A i \in empty : <<"hist", i>> \in asked
      /\ \A y \in added : <<"line", y>> \in asked
  OBVIOUS
<1>9. \A y \in 0 .. minrow - 1 : /\ kept[y] = line[y + drop] /\ kept[y] \in Buf
                                 /\ kept[y] \in heap \ freed
  BY <1>3 DEF IInv, StoreOK, NoSharing
<1>10. \A x, y \in 0 .. minrow - 1 : kept[x] = kept[y] => x = y
  BY <1>1, <1>2, <1>3, <1>9 DEF IInv, StoreOK, NoSharing
<1>11. \A i \in Slots, y \in 0 .. minrow - 1 : hist[i] # kept[y]
  BY <1>3, <1>9 DEF IInv, StoreOK, NoSharing
<1>12. \A i \in Slots : hist[i] \notin freed
  BY DEF IInv, StoreOK, NoSharing
<1>13. \A y \in 0 .. row - 1 : y < minrow \/ y \in added
  BY <1>1, <1>2
<1>14. grown \subseteq Slots /\ empty \subseteq Slots
  BY <1>1 DEF Slots
<1>15. \A y \in 0 .. row - 1 : y < minrow => y \in 0 .. minrow - 1
  BY <1>1, <1>2
<1>16. \A y \in 0 .. row - 1 : line'[y] = IF y < minrow THEN kept[y] ELSE f[<<"line", y>>]
  BY <1>6
<1>17. \A i \in Slots : hist'[i] = IF i \in empty THEN f[<<"hist", i>>] ELSE hist[i]
  BY <1>6
<1>18. heap' = (heap \ freed) \cup {f[i] : i \in asked}
  BY <1>6, <1>7
<1>19. NULL \notin Buf
  BY RingAssumption
<1> HIDE DEF drop, minrow, kept, grown, added, asked, freed, wider
<1>20. line' \in [Rows' -> Buf]
  BY <1>5, <1>6, <1>7, <1>8, <1>9, <1>13, <1>15
<1>21. hist' \in [Slots -> Buf \cup {NULL}]
  BY <1>6, <1>7, <1>8 DEF IInv, StoreOK
<1>22. heap' \subseteq Buf
  BY <1>7, <1>18 DEF IInv, StoreOK
<1>23. width' \in [Buf -> Nat]
  BY <1>1, <1>4, <1>6 DEF IInv, StoreOK, Higher
<1>24. text' \in [Buf -> Texts]
  BY <1>6 DEF IInv, StoreOK, Texts
<1>25. NoSharing'
  <2>1. \A i, j \in Slots : hist'[i] = hist'[j] /\ hist'[i] # NULL => i = j
    <3> SUFFICES ASSUME NEW i \in Slots, NEW j \in Slots, hist'[i] = hist'[j], hist'[i] # NULL
                 PROVE  i = j
      OBVIOUS
    <3>1. CASE i \in empty /\ j \in empty
      BY <1>7, <1>8, <1>17, <3>1
    <3>2. CASE i \in empty /\ j \notin empty
      BY <1>7, <1>8, <1>17, <3>2 DEF IInv, StoreOK, NoSharing
    <3>3. CASE i \notin empty /\ j \in empty
      BY <1>7, <1>8, <1>17, <3>3 DEF IInv, StoreOK, NoSharing
    <3>4. CASE i \notin empty /\ j \notin empty
      BY <1>17, <3>4 DEF IInv, StoreOK, NoSharing
    <3>5. QED
      BY <3>1, <3>2, <3>3, <3>4
  <2>2. \A x, y \in 0 .. row - 1 : line'[x] = line'[y] => x = y
    <3> SUFFICES ASSUME NEW x \in 0 .. row - 1, NEW y \in 0 .. row - 1, line'[x] = line'[y]
                 PROVE  x = y
      OBVIOUS
    <3>1. CASE x < minrow /\ y < minrow
      BY <1>10, <1>15, <1>16, <3>1
    <3>2. CASE x < minrow /\ ~(y < minrow)
      BY ZenonT(60), <1>7, <1>8, <1>9, <1>13, <1>15, <1>16, <3>2
    <3>3. CASE ~(x < minrow) /\ y < minrow
      BY ZenonT(60), <1>7, <1>8, <1>9, <1>13, <1>15, <1>16, <3>3
    <3>4. CASE ~(x < minrow) /\ ~(y < minrow)
      <4>1. x \in added /\ y \in added
        BY <1>13, <3>4
      <4>2. f[<<"line", x>>] = f[<<"line", y>>]
        BY <1>16, <3>4
      <4>3. <<"line", x>> = <<"line", y>>
        BY <1>7, <1>8, <4>1, <4>2
      <4>4. QED
        BY <4>3
    <3>5. QED
      BY <3>1, <3>2, <3>3, <3>4
  <2>3. \A i \in Slots, y \in 0 .. row - 1 : hist'[i] # line'[y]
    <3> SUFFICES ASSUME NEW i \in Slots, NEW y \in 0 .. row - 1
                 PROVE  hist'[i] # line'[y]
      OBVIOUS
    <3>1. CASE i \in empty /\ y < minrow
      <4>1. hist'[i] \notin heap
        BY <1>7, <1>8, <1>17, <3>1
      <4>2. line'[y] \in heap
        BY <1>9, <1>15, <1>16, <3>1
      <4>3. QED
        BY <4>1, <4>2
    <3>2. CASE i \in empty /\ ~(y < minrow)
      BY ZenonT(60), <1>7, <1>8, <1>13, <1>16, <1>17, <3>2
    <3>3. CASE i \notin empty /\ y < minrow
      BY <1>11, <1>15, <1>16, <1>17, <3>3
    <3>4. CASE i \notin empty /\ ~(y < minrow)
      <4>1. hist'[i] \in heap \cup {NULL}
        BY <1>17, <3>4 DEF IInv, StoreOK, NoSharing
      <4>2. y \in added /\ line'[y] = f[<<"line", y>>]
        BY <1>13, <1>16, <3>4
      <4>3. line'[y] \in Buf /\ line'[y] \notin heap
        BY <1>7, <1>8, <4>2
      <4>4. QED
        BY <1>19, <4>1, <4>3
    <3>5. QED
      BY <3>1, <3>2, <3>3, <3>4
  <2>4. \A i \in Slots : hist'[i] \in heap' \cup {NULL}
    BY ZenonT(60), <1>7, <1>8, <1>12, <1>17, <1>18 DEF IInv, StoreOK, NoSharing
  <2>5. \A y \in 0 .. row - 1 : line'[y] \in heap'
    BY <1>8, <1>9, <1>13, <1>15, <1>16, <1>18
  <2>6. QED
    BY <1>5, <2>1, <2>2, <2>3, <2>4, <2>5 DEF NoSharing
<1>26. PlaceOK'
  <2>1. top' = 0 /\ bottom' = row - 1
    BY <1>1, <1>4 DEF tsetscroll, Limit, Lower, Higher
  <2>2. cy' \in 0 .. row - 1
    BY <1>1, <1>4 DEF Limit
  <2>3. colalloc' \in Nat /\ cols' <= colalloc'
    BY <1>1, <1>4 DEF Higher
  <2>4. QED
    BY <1>1, <1>4, <1>5, <2>1, <2>2, <2>3 DEF PlaceOK
<1>27. QED
  BY <1>4, <1>5, <1>20, <1>21, <1>22, <1>23, <1>24, <1>25, <1>26 DEF IInv, StoreOK

LEMMA InitIInv == Init => IInv
<1> SUFFICES ASSUME Init PROVE IInv
  OBVIOUS
<1>1. PICK f \in [-1 .. rows - 1 -> Buf] :
        /\ \A i, j \in -1 .. rows - 1 : f[i] = f[j] => i = j
        /\ hist = [i \in Slots |-> IF i = 0 THEN f[-1] ELSE NULL]
        /\ line = [y \in Rows |-> f[y]]
        /\ heap = {f[i] : i \in -1 .. rows - 1}
  BY DEF Init
<1>2. rows \in Nat \ {0} /\ cols \in Nat \ {0} /\ H \in Nat \ {0} /\ NULL \notin Buf
  BY RingAssumption DEF Init
<1>3. PlaceOK
  BY <1>2 DEF Init, PlaceOK, Rows
<1>4. hist \in [Slots -> Buf \cup {NULL}] /\ line \in [Rows -> Buf] /\ heap \subseteq Buf
  BY <1>1, <1>2 DEF Slots, Rows
<1>5. NoSharing
  BY <1>1, <1>2 DEF NoSharing, Slots, Rows
<1>6. width \in [Buf -> Nat] /\ text \in [Buf -> Texts]
  BY <1>2 DEF Init, Texts
<1>7. histindex = 0 /\ scr = 0 /\ circled = FALSE
  BY DEF Init
<1>8. histindex \in Slots /\ scr \in 0 .. H
  BY <1>2, <1>7 DEF Slots
<1>9. circled \in BOOLEAN
  BY <1>7, Zenon
<1>10. QED
  BY <1>3, <1>4, <1>5, <1>6, <1>8, <1>9 DEF IInv, StoreOK

LEMMA SetscrollPlace ==
  ASSUME rows \in Nat \ {0}, rows' = rows, NEW t \in Int, NEW b \in Int, tsetscroll(t, b)
  PROVE  top' \in Rows' /\ bottom' \in Rows' /\ top' <= bottom'
  BY DEF tsetscroll, Limit, Lower, Higher, Rows

(* A step that leaves the ring and the rows alone.                         *)
LEMMA SameStore ==
  ASSUME StoreOK, UNCHANGED <<store, line, text, size>>, scr' \in 0 .. H
  PROVE  StoreOK'
  BY DEF StoreOK, NoSharing, store, size, Rows, Slots

LEMMA TtyIInv == IInv /\ TtyNext => IInv'
<1> SUFFICES ASSUME IInv, TtyNext PROVE IInv'
  OBVIOUS
<1>1. /\ StoreOK /\ PlaceOK /\ rows \in Nat \ {0} /\ cy \in Rows /\ scr \in 0 .. H
      /\ top \in Rows /\ bottom \in Rows /\ top <= bottom
  BY RowsNat DEF IInv, PlaceOK, StoreOK
<1>2. ASSUME NEW t \in Chars \cup {Blank}, Write(t)
      PROVE  IInv'
  <2>1. PlaceOK'
    BY <1>1, <1>2 DEF Write, PlaceOK, size, Rows
  <2>2. StoreOK'
    BY <1>1, <1>2 DEF Write, StoreOK, NoSharing, store, size, Rows, Slots, Texts
  <2>3. QED
    BY <2>1, <2>2 DEF IInv
<1>3. ASSUME NEW y \in Given, MoveCursor(y)
      PROVE  IInv'
  <2>1. PlaceOK'
    BY <1>1, <1>3 DEF MoveCursor, PlaceOK, size, Rows, Given, Limit
  <2>2. StoreOK'
    BY <1>1, <1>3, SameStore DEF MoveCursor
  <2>3. QED
    BY <2>1, <2>2 DEF IInv
<1>4. ASSUME LineFeed
      PROVE  IInv'
  <2>1. UNCHANGED size /\ UNCHANGED <<size, top, bottom>>
    BY <1>4 DEF LineFeed, size
  <2>2. ASSUME tscrollup(top, 1, TRUE), UNCHANGED cy
        PROVE  IInv'
    <3>1. 1 \in Int /\ UNCHANGED size
      BY <2>1
    <3>2. tscrollup(top, 1, TRUE) \/ tscrollup(top, 1, FALSE)
      BY <2>2
    <3>3. StoreOK'
      BY <1>1, <3>1, <3>2, UpStore
    <3>4. PlaceOK'
      BY <1>1, <2>1, <2>2 DEF PlaceOK, size, Rows
    <3>5. QED
      BY <3>3, <3>4 DEF IInv
  <2>3. ASSUME cy' = Limit(cy + 1, 0, rows - 1), UNCHANGED <<store, line, text, scr>>
        PROVE  IInv'
    <3>1. StoreOK'
      BY <1>1, <2>1, <2>3, SameStore
    <3>2. PlaceOK'
      BY <1>1, <2>1, <2>3 DEF PlaceOK, size, Rows, Limit
    <3>3. QED
      BY <3>1, <3>2 DEF IInv
  <2>4. QED
    BY <1>4, <2>2, <2>3 DEF LineFeed
<1>5. ASSUME ReverseIndex
      PROVE  IInv'
  <2>1. UNCHANGED size /\ UNCHANGED <<size, top, bottom>>
    BY <1>5 DEF ReverseIndex, size
  <2>2. ASSUME tscrolldown(top, 1, TRUE), UNCHANGED cy
        PROVE  IInv'
    <3>1. 1 \in Int /\ UNCHANGED size
      BY <2>1
    <3>2. tscrolldown(top, 1, TRUE) \/ tscrolldown(top, 1, FALSE)
      BY <2>2
    <3>3. StoreOK'
      BY <1>1, <3>1, <3>2, DownStore
    <3>4. PlaceOK'
      BY <1>1, <2>1, <2>2 DEF PlaceOK, size, Rows
    <3>5. QED
      BY <3>3, <3>4 DEF IInv
  <2>3. ASSUME cy' = Limit(cy - 1, 0, rows - 1), UNCHANGED <<store, line, text, scr>>
        PROVE  IInv'
    <3>1. StoreOK'
      BY <1>1, <2>1, <2>3, SameStore
    <3>2. PlaceOK'
      BY <1>1, <2>1, <2>3 DEF PlaceOK, size, Rows, Limit
    <3>3. QED
      BY <3>1, <3>2 DEF IInv
  <2>4. QED
    BY <1>5, <2>2, <2>3 DEF ReverseIndex
<1>6. ASSUME NEW n \in 0 .. rows, ScrollRegion("SU", n) \/ ScrollRegion("SD", n)
      PROVE  IInv'
  <2>1. PlaceOK'
    BY <1>1, <1>6 DEF ScrollRegion, PlaceOK, size, Rows
  <2>2. StoreOK'
    <3>1. n \in Int /\ UNCHANGED size
      <4>1. n \in Int
        BY <1>1
      <4>2. UNCHANGED size
        BY <1>6 DEF ScrollRegion
      <4>3. QED
        BY <4>1, <4>2
    <3>2. CASE tscrollup(top, n, FALSE)
      BY <1>1, <3>1, <3>2, UpStore
    <3>3. CASE tscrolldown(top, n, FALSE)
      BY <1>1, <3>1, <3>3, DownStore
    <3>4. QED
      BY <1>6, <3>2, <3>3 DEF ScrollRegion
  <2>3. QED
    BY <2>1, <2>2 DEF IInv
<1>7. ASSUME NEW n \in 0 .. rows, EditLines("IL", n) \/ EditLines("DL", n)
      PROVE  IInv'
  <2>1. PlaceOK'
    BY <1>1, <1>7 DEF EditLines, PlaceOK, size, Rows
  <2>2. StoreOK'
    <3>1. n \in Int /\ UNCHANGED size /\ cy <= bottom
      <4>1. n \in Int
        BY <1>1
      <4>2. UNCHANGED size /\ cy <= bottom
        BY <1>7 DEF EditLines
      <4>3. QED
        BY <4>1, <4>2
    <3>2. CASE tscrollup(cy, n, FALSE)
      BY <1>1, <3>1, <3>2, UpStore
    <3>3. CASE tscrolldown(cy, n, FALSE)
      BY <1>1, <3>1, <3>3, DownStore
    <3>4. QED
      BY <1>7, <3>2, <3>3 DEF EditLines
  <2>3. QED
    BY <2>1, <2>2 DEF IInv
<1>8. ASSUME NEW t \in Given, NEW b \in Given, SetRegion(t, b)
      PROVE  IInv'
  <2>1. PlaceOK'
    BY <1>1, <1>8, SetscrollPlace DEF SetRegion, PlaceOK, size, Rows, Given
  <2>2. StoreOK'
    BY <1>1, <1>8, SameStore DEF SetRegion
  <2>3. QED
    BY <2>1, <2>2 DEF IInv
<1>9. ASSUME treset
      PROVE  IInv'
  <2>1. PlaceOK'
    BY <1>1, <1>9 DEF treset, PlaceOK, size, Rows
  <2>2. text' \in [Buf -> Texts]
    BY <1>1, <1>9, ClearedType DEF treset, StoreOK
  <2>3. StoreOK'
    BY <1>1, <1>9, <2>2 DEF treset, StoreOK, NoSharing, store, size, Rows, Slots
  <2>4. QED
    BY <2>1, <2>3 DEF IInv
<1>10. QED
  BY <1>2, <1>3, <1>4, <1>5, <1>6, <1>7, <1>8, <1>9 DEF TtyNext

LEMMA UserIInv == IInv /\ UserNext => IInv'
<1> SUFFICES ASSUME IInv, UserNext PROVE IInv'
  OBVIOUS
<1>1. StoreOK /\ PlaceOK /\ scr \in 0 .. H /\ H \in Nat \ {0} /\ histindex \in 0 .. H - 1
  BY RowsNat DEF IInv, StoreOK, Slots
<1>2. ASSUME NEW s \in 0 .. H, scr' = s, UNCHANGED <<store, line, text, size, cy, top, bottom>>
      PROVE  IInv'
  <2>1. PlaceOK'
    BY <1>1, <1>2 DEF PlaceOK, size, Rows
  <2>2. StoreOK'
    BY <1>1, <1>2, SameStore
  <2>3. QED
    BY <2>1, <2>2 DEF IInv
<1>3. ASSUME NEW s \in 0 .. H PROVE AtMostWritten(s) \in 0 .. H
  BY <1>1 DEF AtMostWritten
<1>4. CASE ScrollBottom
  BY <1>1, <1>2, <1>4 DEF ScrollBottom
<1>5. CASE ScrollTop
  BY <1>1, <1>2, <1>3, <1>5 DEF ScrollTop
<1>6. ASSUME NEW n \in 1 .. rows, kscrollup(n)
      PROVE  IInv'
  <2>1. scr + n \in 0 .. H
    BY <1>1, <1>6, RowsNat DEF kscrollup
  <2>2. QED
    BY <1>2, <1>3, <1>6, <2>1 DEF kscrollup
<1>7. ASSUME NEW n \in 1 .. rows, kscrolldown(n)
      PROVE  IInv'
  <2>1. scr - Lower(n, scr) \in 0 .. H
    BY <1>1, <1>7, RowsNat DEF kscrolldown, Lower
  <2>2. QED
    BY <1>2, <1>7, <2>1 DEF kscrolldown
<1>8. ASSUME NEW col \in ColSizes, NEW row \in RowSizes, tresize(col, row)
      PROVE  IInv'
  BY <1>8, ResizeIInv
<1>9. QED
  BY <1>4, <1>5, <1>6, <1>7, <1>8 DEF UserNext

LEMMA StutterIInv == IInv /\ UNCHANGED vars => IInv'
  BY SameStore DEF IInv, StoreOK, PlaceOK, vars, size, Rows

LEMMA SpecIInv == Spec => []IInv
<1>1. IInv /\ [Next]_vars => IInv'
  BY TtyIInv, UserIInv, StutterIInv DEF Next
<1>2. QED
  BY InitIInv, <1>1, PTL DEF Spec

(* For a ring of any length, any window sizes and any program: every slot, *)
(* row and position stays in range (tscrollup, tscrolldown, tsetscroll,    *)
(* tresize, kscrollup and the others never leave them).                    *)
THEOREM TypeCorrect == Spec => []TypeOK
  BY SpecIInv, IInvImplies, PTL

(* And no line buffer is ever held twice, or held after it was freed, by   *)
(* the pointer swaps of scroll.c and the frees of tresize.                 *)
THEOREM LinesNotShared == Spec => []NoSharing
  BY SpecIInv, IInvImplies, PTL

----------------------------------------------------------------------------
(* What ViewAllocated needs to be inductive: lines are stored in the slots *)
(* from 0 up to histindex, or in all once the ring has wrapped, and before *)
(* that the view goes no further back than histindex.                      *)
Stored(h, n, c) == \A i \in Slots : c \/ i <= n => h[i] # NULL

Reached(s, n, c) == ~c => s <= n

ViewOK == Stored(hist, histindex, circled) /\ Reached(scr, histindex, circled)

(* The program of the run ring_log.                                        *)
ForwardProgram == "RI" \notin Sent /\ "SU" \notin SentScrolled /\ "DL" \notin SentScrolled

(* Every row of the window is then a slot that holds a line, or a row of   *)
(* the screen (TLINE).                                                     *)
LEMMA ViewOKShows == IInv /\ ViewOK => ViewAllocated
<1> SUFFICES ASSUME IInv, ViewOK, NEW y \in Rows PROVE TLINE(y) # NULL
  BY DEF ViewAllocated
<1>1. /\ H \in Nat \ {0} /\ rows \in Nat /\ rows < H /\ y \in Int /\ 0 <= y /\ y < rows
      /\ scr \in Nat /\ scr <= H /\ histindex \in Nat /\ histindex < H
  BY RowsNat DEF IInv, StoreOK, Slots, Rows
<1>2. CASE y < scr
  <2> DEFINE i == (y + histindex - scr + 1) % H
  <2>1. i \in Slots
    BY <1>1, ModRange DEF Slots
  <2>2. ASSUME ~circled PROVE i <= histindex
    <3>1. scr <= histindex
      BY <2>2 DEF ViewOK, Reached
    <3>2. y + histindex - scr + 1 \in 0 .. H - 1 /\ y + histindex - scr + 1 <= histindex
      BY <1>1, <1>2, <3>1
    <3>3. i = y + histindex - scr + 1
      BY <1>1, <3>2
    <3>4. QED
      BY <3>2, <3>3
  <2>3. hist[i] # NULL
    BY <2>1, <2>2 DEF ViewOK, Stored
  <2>4. QED
    BY <1>2, <2>3 DEF TLINE
<1>3. CASE ~(y < scr)
  <2>1. y - scr \in Rows
    BY <1>1, <1>3 DEF Rows
  <2>2. line[y - scr] # NULL
    BY <2>1, RowsNat DEF IInv, StoreOK
  <2>3. QED
    BY <1>3, <2>2 DEF TLINE
<1>4. QED
  BY <1>2, <1>3

(* A line feed at the end of the region stores one more line, in the slot  *)
(* behind histindex, and the view follows by at most one (tscrollup).      *)
LEMMA UpViewOK ==
  ASSUME IInv, ViewOK, tscrollup(top, 1, TRUE)
  PROVE  ViewOK'
<1> DEFINE h == (histindex + 1) % H
<1>1. /\ H \in Nat \ {0} /\ histindex \in Nat /\ histindex < H /\ scr \in Nat /\ scr <= H
      /\ bottom - top + 1 \in Nat \ {0}
  BY RowsNat DEF IInv, StoreOK, Slots
<1>2. h \in Slots
  BY <1>1, ModRange DEF Slots
<1>3. CASE histindex + 1 < H
  <2>1. h = histindex + 1 /\ h # 0
    BY <1>1, <1>3
  <2>2. PICK b : Exchange(h, top, b, hist[h] = NULL \/ (h = 0 /\ ~circled))
                 /\ scr' = IF 0 < scr /\ scr < H THEN Lower(scr + Limit(1, 0, bottom - top + 1), H - 1) ELSE scr
    BY DEF tscrollup, ScrollUp
  <2>3. hist' = [hist EXCEPT ![h] = line[top]] /\ histindex' = h
    BY <2>2 DEF Exchange
  <2>4. circled' <=> circled
    BY <2>1 DEF tscrollup
  <2>5. line[top] # NULL /\ hist \in [Slots -> Buf \cup {NULL}]
    BY RowsNat DEF IInv, StoreOK, PlaceOK
  <2>6. ASSUME NEW i \in Slots, circled \/ i <= h PROVE hist'[i] # NULL
    <3>1. CASE i = h
      BY <2>3, <2>5, <3>1, <1>2
    <3>2. CASE i # h
      <4>1. circled \/ i <= histindex
        BY <1>1, <2>1, <2>6, <3>2 DEF Slots
      <4>2. hist[i] # NULL
        BY <4>1 DEF ViewOK, Stored
      <4>3. QED
        BY <2>3, <2>5, <3>2, <4>2
    <3>3. QED
      BY <3>1, <3>2
  <2>7. Stored(hist', histindex', circled')
    BY <2>3, <2>4, <2>6 DEF Stored
  <2>8. Limit(1, 0, bottom - top + 1) = 1
    BY <1>1 DEF Limit
  <2>9. ASSUME ~circled PROVE scr' <= h
    <3>1. scr <= histindex
      BY <2>9 DEF ViewOK, Reached
    <3>2. CASE 0 < scr /\ scr < H
      BY <1>1, <2>1, <2>2, <2>8, <3>1, <3>2 DEF Lower
    <3>3. CASE ~(0 < scr /\ scr < H)
      BY <1>1, <2>1, <2>2, <3>1, <3>3
    <3>4. QED
      BY <3>2, <3>3
  <2>10. Reached(scr', histindex', circled')
    BY <2>3, <2>4, <2>9 DEF Reached
  <2>11. QED
    BY <2>7, <2>10 DEF ViewOK, Stored
<1>4. CASE ~(histindex + 1 < H)
  <2>1. histindex = H - 1
    BY <1>1, <1>4
  <2>2. h = 0
    BY <1>1, <2>1
  <2>3. circled'
    BY <2>2 DEF tscrollup
  <2>4. PICK b : Exchange(h, top, b, hist[h] = NULL \/ (h = 0 /\ ~circled))
    BY DEF tscrollup
  <2>5. hist' = [hist EXCEPT ![h] = line[top]]
    BY <2>4 DEF Exchange
  <2>6. line[top] # NULL /\ hist \in [Slots -> Buf \cup {NULL}]
    BY RowsNat DEF IInv, StoreOK, PlaceOK
  <2>7. ASSUME NEW i \in Slots PROVE hist'[i] # NULL
    <3>1. i <= histindex
      BY <1>1, <2>1 DEF Slots
    <3>2. hist[i] # NULL
      BY <3>1 DEF ViewOK, Stored
    <3>3. QED
      BY <2>5, <2>6, <3>2
  <2>8. Stored(hist', histindex', circled')
    BY <2>7 DEF Stored
  <2>9. Reached(scr', histindex', circled')
    BY <2>3 DEF Reached
  <2>10. QED
    BY <2>8, <2>9 DEF ViewOK
<1>5. QED
  BY <1>3, <1>4

(* A step that leaves the ring and moves the view to no more than it holds.*)
LEMMA ViewMoves ==
  ASSUME IInv, ViewOK, UNCHANGED <<hist, histindex, circled>>,
         scr' = scr \/ scr' = 0 \/ Reached(scr', histindex, circled)
  PROVE  ViewOK'
<1>1. Stored(hist', histindex', circled')
  BY DEF ViewOK, Stored
<1>2. Reached(0, histindex, circled)
  BY DEF Reached, IInv, StoreOK, Slots
<1>3. Reached(scr', histindex', circled')
  BY <1>2 DEF ViewOK
<1>4. QED
  BY <1>1, <1>3 DEF ViewOK

(* What the program sends: SU and DL come only while the view is at the    *)
(* bottom, where tscrollup does not move it.                               *)
LEMMA TtyViewOK ==
  ASSUME IInv, ViewOK, TtyNext, ForwardProgram
  PROVE  ViewOK'
<1>1. scr \in Nat
  BY DEF IInv, StoreOK
<1>2. ASSUME NEW t \in Chars \cup {Blank}, Write(t) PROVE ViewOK'
  BY <1>2, ViewMoves DEF Write, store
<1>3. ASSUME NEW y \in Given, MoveCursor(y) PROVE ViewOK'
  BY <1>3, ViewMoves DEF MoveCursor, store
<1>4. CASE LineFeed
  BY <1>4, UpViewOK, ViewMoves DEF LineFeed, store
<1>5. ~ReverseIndex
  BY RingAssumption DEF ReverseIndex, Sends, ForwardProgram
<1>6. ASSUME NEW orig, NEW n, tscrollup(orig, n, FALSE), scr = 0 PROVE ViewOK'
  BY <1>6, ViewMoves DEF tscrollup, ScrollUp, store
<1>7. ASSUME NEW orig, NEW n, tscrolldown(orig, n, FALSE) PROVE ViewOK'
  BY <1>7, ViewMoves DEF tscrolldown, ScrollDown, store
<1>8. ASSUME NEW n \in 0 .. rows, ScrollRegion("SU", n) \/ ScrollRegion("SD", n) PROVE ViewOK'
  BY <1>6, <1>7, <1>8 DEF ScrollRegion, Sends, ForwardProgram
<1>9. ASSUME NEW n \in 0 .. rows, EditLines("IL", n) \/ EditLines("DL", n) PROVE ViewOK'
  BY <1>6, <1>7, <1>9 DEF EditLines, Sends, ForwardProgram
<1>10. ASSUME NEW t \in Given, NEW b \in Given, SetRegion(t, b) PROVE ViewOK'
  BY <1>10, ViewMoves DEF SetRegion, store
<1>11. CASE treset
  BY <1>11, ViewMoves DEF treset, store
<1>12. QED
  BY <1>2, <1>3, <1>4, <1>5, <1>8, <1>9, <1>10, <1>11 DEF TtyNext

(* tresize gives lines to empty slots and takes none away.                 *)
LEMMA ResizeViewOK ==
  ASSUME IInv, ViewOK, NEW col \in ColSizes, NEW row \in RowSizes, tresize(col, row)
  PROVE  ViewOK'
<1> DEFINE drop    == IF cy >= row THEN cy - row + 1 ELSE 0
           minrow  == Lower(row, rows)
           grown   == IF ~(col > colalloc) THEN {} ELSE 0 .. (IF circled THEN H ELSE histindex) - 1
           empty   == {i \in grown : hist[i] = NULL}
           added   == minrow .. row - 1
<1>1. PICK f \in Mallocs({<<"hist", i>> : i \in empty} \cup {<<"line", y>> : y \in added}) :
        hist' = [i \in Slots |-> IF i \in empty THEN f[<<"hist", i>>] ELSE hist[i]]
  BY DEF tresize
<1>2. ASSUME NEW i \in empty PROVE f[<<"hist", i>>] # NULL
  <2>1. f[<<"hist", i>>] \in Buf
    BY <1>2 DEF Mallocs
  <2>2. QED
    BY <2>1, RingAssumption
<1>3. UNCHANGED <<histindex, circled, scr>>
  BY DEF tresize
<1> HIDE DEF empty
<1>4. ASSUME NEW i \in Slots, hist[i] # NULL PROVE hist'[i] # NULL
  BY <1>1, <1>2, <1>4
<1>5. Stored(hist', histindex', circled')
  BY <1>3, <1>4 DEF ViewOK, Stored
<1>6. QED
  BY <1>3, <1>5 DEF ViewOK

(* The keys: AtMostWritten holds the view at the first line, a page down   *)
(* only brings it nearer.                                                  *)
LEMMA UserViewOK ==
  ASSUME IInv, ViewOK, UserNext
  PROVE  ViewOK'
<1>1. scr \in Nat /\ histindex \in Nat /\ H \in Nat
  BY RingAssumption DEF IInv, StoreOK, Slots
<1>2. ASSUME NEW s \in Nat PROVE Reached(AtMostWritten(s), histindex, circled)
  BY <1>1 DEF Reached, AtMostWritten
<1>3. CASE ScrollBottom
  BY <1>3, ViewMoves DEF ScrollBottom, store
<1>4. CASE ScrollTop
  BY <1>1, <1>2, <1>4, ViewMoves DEF ScrollTop, store
<1>5. ASSUME NEW n \in 1 .. rows, kscrollup(n) PROVE ViewOK'
  <2>1. scr + n \in Nat
    BY <1>1, <1>5
  <2>2. QED
    BY <1>2, <1>5, <2>1, ViewMoves DEF kscrollup, store
<1>6. ASSUME NEW n \in 1 .. rows, kscrolldown(n) PROVE ViewOK'
  <2>1. scr' <= scr /\ scr' \in Int
    BY <1>1, <1>6 DEF kscrolldown, Lower
  <2>2. Reached(scr', histindex, circled)
    BY <1>1, <2>1 DEF ViewOK, Reached
  <2>3. QED
    BY <1>6, <2>2, ViewMoves DEF kscrolldown, store
<1>7. ASSUME NEW col \in ColSizes, NEW row \in RowSizes, tresize(col, row) PROVE ViewOK'
  BY <1>7, ResizeViewOK
<1>8. QED
  BY <1>3, <1>4, <1>5, <1>6, <1>7 DEF UserNext

LEMMA InitViewOK == Init => ViewOK
<1> SUFFICES ASSUME Init PROVE ViewOK
  OBVIOUS
<1>1. hist[0] # NULL
  <2>1. rows \in Nat
    BY RingAssumption DEF Init
  <2>2. PICK f \in [-1 .. rows - 1 -> Buf] : hist = [i \in Slots |-> IF i = 0 THEN f[-1] ELSE NULL]
    BY DEF Init
  <2>3. f[-1] \in Buf /\ 0 \in Slots
    BY <2>1, <2>2, RingAssumption DEF Slots
  <2>4. QED
    BY <2>2, <2>3, RingAssumption
<1>2. Stored(hist, histindex, circled)
  BY <1>1 DEF Init, Stored, Slots
<1>3. QED
  BY <1>2 DEF ViewOK, Reached, Init

(* For a ring of any length and any window sizes, as long as the program   *)
(* sends no reverse index, and no SU or DL while the user looks back: every*)
(* row of the window shows a line that was stored (tscrollup, tresize,     *)
(* kscrollup, scrolltotop).                                                *)
THEOREM ViewNeverEmpty ==
  ASSUME ForwardProgram
  PROVE  Spec => []ViewAllocated
<1>1. IInv /\ ViewOK /\ [Next]_vars => ViewOK'
  <2>1. ASSUME IInv, ViewOK, UNCHANGED vars PROVE ViewOK'
    BY <2>1, ViewMoves DEF vars, store
  <2>2. QED
    BY <2>1, TtyViewOK, UserViewOK DEF Next
<1>2. QED
  BY SpecIInv, InitViewOK, ViewOKShows, <1>1, PTL DEF Spec

----------------------------------------------------------------------------
(* LeakBounded by cases.  A step that loses no line that was not lost      *)
(* before keeps it.                                                        *)
LeakOK ==
  /\ ~circled => heap \subseteq Held
  /\ circled => \E b \in Buf : heap \subseteq Held \cup {b}

NoNewLeak == (circled => circled') /\ heap' \ Held' \subseteq heap \ Held

LEMMA LeakOKBounds ==
  ASSUME LeakOK
  PROVE  LeakBounded
<1>1. CASE circled
  <2>1. PICK b \in Buf : heap \subseteq Held \cup {b}
    BY <1>1 DEF LeakOK
  <2>2. {b} \in SUBSET Buf
    OBVIOUS
  <2>3. QED
    BY <1>1, <2>1, <2>2 DEF LeakBounded
<1>2. CASE ~circled
  <2>1. heap \subseteq Held \cup {} /\ {} \in SUBSET Buf
    BY <1>2 DEF LeakOK
  <2>2. QED
    BY <1>2, <2>1 DEF LeakBounded
<1>3. QED
  BY <1>1, <1>2

LEMMA NoNewLeakKeeps ==
  ASSUME IInv, LeakOK, NoNewLeak
  PROVE  LeakOK'
<1>1. line[top] \in Buf
  BY DEF IInv, StoreOK, PlaceOK
<1>2. CASE circled
  BY <1>2 DEF LeakOK, NoNewLeak
<1>3. CASE ~circled
  BY <1>1, <1>3 DEF LeakOK, NoNewLeak
<1>4. QED
  BY <1>2, <1>3

LEMMA Division ==
  ASSUME NEW a \in Int, NEW n \in Nat \ {0}
  PROVE  a = n * (a \div n) + (a % n) /\ a \div n \in Int /\ a % n \in 0 .. n - 1
<1>1. a = n * (a \div n) + (a % n)
  OBVIOUS
<1>2. a \div n \in Int
  OBVIOUS
<1>3. QED
  BY <1>1, <1>2, ModRange

LEMMA ModShift ==
  ASSUME NEW n \in Nat \ {0}, NEW a \in 0 .. n - 1, NEW q \in Int
  PROVE  (a + n * q) % n = a
<1> DEFINE b == a + n * q  r == b % n  p == b \div n
<1>1. b \in Int
  OBVIOUS
<1>2. b = n * p + r /\ p \in Int /\ r \in 0 .. n - 1
  <2> HIDE DEF b
  <2>1. QED
    BY <1>1, Division
<1>3. n * (p + 1) = n * p + n /\ n * (q + 1) = n * q + n
  BY <1>2
<1>4. n * p < n * (q + 1) /\ n * q < n * (p + 1)
  BY <1>2, <1>3
<1> HIDE DEF r, p, b
<1>5. p < q + 1 /\ q < p + 1
  BY <1>2, <1>4
<1>6. p = q
  BY <1>2, <1>5
<1>7. QED
  BY <1>2, <1>6 DEF b, r

(* No row's line is left out when the rows of a region move.               *)
LEMMA WindowOfResidues ==
  ASSUME NEW lo \in Int, NEW hi \in Int, NEW n \in Nat \ {0}, NEW x \in lo .. lo + n - 1
  PROVE  \E y \in hi - n + 1 .. hi : lo + ((y - lo) % n) = x
<1> DEFINE r == (hi - x) % n  q == (hi - x) \div n
<1>1. hi - x \in Int
  OBVIOUS
<1>2. hi - x = n * q + r /\ q \in Int /\ r \in 0 .. n - 1
  BY <1>1, Division
<1> HIDE DEF r, q
<1>3. (hi - r) - lo = (x - lo) + n * q /\ x - lo \in 0 .. n - 1
  BY <1>2
<1>4. ((hi - r) - lo) % n = x - lo
  BY <1>2, <1>3, ModShift
<1>5. hi - r \in hi - n + 1 .. hi /\ lo + (x - lo) = x
  BY <1>2
<1>6. QED
  BY <1>4, <1>5

LEMMA MovedUpOnto ==
  ASSUME PlaceOK, NEW l, NEW orig \in Rows, orig <= bottom,
         NEW n \in 0 .. bottom - orig + 1
  PROVE  \A x \in Rows : \E y \in Rows : MovedUp(l, orig, n)[y] = l[x]
<1>1. /\ rows \in Nat /\ bottom \in Nat /\ bottom < rows /\ orig \in Nat /\ n \in Nat
      /\ n <= bottom - orig + 1 /\ Rows = 0 .. rows - 1
  BY RowsNat DEF Rows
<1> SUFFICES ASSUME NEW x \in Rows PROVE \E y \in Rows : MovedUp(l, orig, n)[y] = l[x]
  OBVIOUS
<1>2. CASE n = 0 \/ x < orig \/ x > bottom
  BY <1>2 DEF MovedUp
<1>3. CASE n # 0 /\ orig + n <= x /\ x <= bottom
  <2>1. x - n \in Rows /\ ~(x - n < orig) /\ ~(x - n > bottom) /\ (x - n) + n = x
    BY <1>1, <1>3
  <2>2. MovedUp(l, orig, n)[x - n] = l[x]
    BY <1>3, <2>1 DEF MovedUp
  <2>3. QED
    BY <2>1, <2>2
<1>4. CASE n # 0 /\ orig <= x /\ x < orig + n /\ x <= bottom
  <2>1. n \in Nat \ {0} /\ x \in orig .. orig + n - 1 /\ orig \in Int /\ bottom \in Int
    BY <1>1, <1>4
  <2>2. PICK y \in bottom - n + 1 .. bottom : orig + ((y - orig) % n) = x
    BY ZenonT(60), <2>1, WindowOfResidues
  <2>3. y \in Rows /\ ~(y < orig) /\ ~(y > bottom) /\ ~(y + n <= bottom)
    BY <1>1
  <2>4. MovedUp(l, orig, n)[y] = l[x]
    BY <1>4, <2>2, <2>3 DEF MovedUp
  <2>5. QED
    BY <2>3, <2>4
<1>5. QED
  BY <1>1, <1>2, <1>3, <1>4

LEMMA MovedDownOnto ==
  ASSUME PlaceOK, NEW l, NEW orig \in Rows, orig <= bottom,
         NEW n \in 0 .. bottom - orig + 1
  PROVE  \A x \in Rows : \E y \in Rows : MovedDown(l, orig, n)[y] = l[x]
<1>1. /\ rows \in Nat /\ bottom \in Nat /\ bottom < rows /\ orig \in Nat /\ n \in Nat
      /\ n <= bottom - orig + 1 /\ Rows = 0 .. rows - 1
  BY RowsNat DEF Rows
<1> SUFFICES ASSUME NEW x \in Rows PROVE \E y \in Rows : MovedDown(l, orig, n)[y] = l[x]
  OBVIOUS
<1>2. CASE n = 0 \/ x < orig \/ x > bottom
  BY <1>2 DEF MovedDown
<1>3. CASE n # 0 /\ orig <= x /\ x <= bottom - n
  <2>1. x + n \in Rows /\ ~(x + n < orig) /\ ~(x + n > bottom) /\ (x + n) - n = x
    BY <1>1, <1>3
  <2>2. MovedDown(l, orig, n)[x + n] = l[x]
    BY <1>3, <2>1 DEF MovedDown
  <2>3. QED
    BY <2>1, <2>2
<1>4. CASE n # 0 /\ orig <= x /\ bottom - n < x /\ x <= bottom
  <2>1. n \in Nat \ {0} /\ -x \in -bottom .. (-bottom) + n - 1 /\ -bottom \in Int /\ -orig \in Int
    BY <1>1, <1>4
  <2>2. PICK z \in (-orig) - n + 1 .. -orig : (-bottom) + ((z - (-bottom)) % n) = -x
    BY ZenonT(60), <2>1, WindowOfResidues
  <2>3. PICK y \in orig .. orig + n - 1 : y = -z
    BY <1>1
  <2>4. bottom - y = z - (-bottom) /\ bottom - y \in Int
    BY <1>1, <2>3
  <2>5. (bottom - y) % n \in Int
    BY <2>1, <2>4, ModRange
  <2>6. bottom - ((bottom - y) % n) = x
    BY <1>1, <2>2, <2>4, <2>5
  <2>7. y \in Rows /\ ~(y < orig) /\ ~(y > bottom) /\ ~(y - n >= orig)
    BY <1>1
  <2>8. MovedDown(l, orig, n)[y] = l[x]
    BY <1>4, <2>6, <2>7 DEF MovedDown
  <2>9. QED
    BY <2>7, <2>8
<1>5. QED
  BY <1>1, <1>2, <1>3, <1>4

(* A screen moved onto itself holds what it held, beside any ring.         *)
LEMMA OntoLeaks ==
  ASSUME rows' = rows, circled => circled', NEW l, NEW lost,
         \A y \in Rows : \E x \in Rows : line'[x] = l[y],
         \A b \in heap' : \/ b \in {hist'[i] : i \in Slots} \cup {l[y] : y \in Rows}
                          \/ b \in heap \ Held \/ b = lost
  PROVE  heap' \ Held' \subseteq (heap \ Held) \cup {lost}
<1>1. Rows' = Rows /\ Slots' = Slots
  BY DEF Rows, Slots
<1>2. {hist'[i] : i \in Slots} \cup {l[y] : y \in Rows} \subseteq Held'
  BY <1>1 DEF Held
<1>3. QED
  BY <1>2

(* An exchange with a slot that holds a line, or with an empty one, loses  *)
(* nothing; taking a new line for a slot that holds one loses that one.    *)
LEMMA ExchangeHolds ==
  ASSUME StoreOK, PlaceOK, NEW h \in Slots, NEW y \in Rows, NEW new \in BOOLEAN,
         NEW b \in (IF new THEN Buf \ heap ELSE {hist[h]}), Exchange(h, y, b, new)
  PROVE  \A c \in heap' : \/ c \in {hist'[i] : i \in Slots} \cup {[line EXCEPT ![y] = b][x] : x \in Rows}
                          \/ c \in heap \ Held
                          \/ new /\ c = hist[h]
<1> DEFINE l == [line EXCEPT ![y] = b]
<1>1. /\ \A i \in Slots : hist'[i] = IF i = h THEN line[y] ELSE hist[i]
      /\ \A x \in Rows : l[x] = IF x = y THEN b ELSE line[x]
      /\ heap' = heap \cup {b}
  BY DEF StoreOK, Exchange
<1> SUFFICES ASSUME NEW c \in heap'
             PROVE  \/ c \in {hist'[i] : i \in Slots} \cup {l[x] : x \in Rows}
                    \/ c \in heap \ Held
                    \/ new /\ c = hist[h]
  OBVIOUS
<1> HIDE DEF l
<1>2. CASE c = b
  BY <1>1, <1>2
<1>3. ASSUME NEW i \in Slots, c = hist[i] PROVE c \in {hist'[j] : j \in Slots} \/ c = hist[h]
  BY <1>1, <1>3
<1>4. ASSUME NEW x \in Rows, c = line[x]
      PROVE  c \in {hist'[j] : j \in Slots} \cup {l[z] : z \in Rows}
  <2>1. CASE x = y
    BY <1>1, <1>4, <2>1
  <2>2. CASE x # y
    BY <1>1, <1>4, <2>2
  <2>3. QED
    BY <2>1, <2>2
<1>5. ASSUME c = hist[h], ~new PROVE c = b
  BY <1>5
<1>6. QED
  BY <1>1, <1>2, <1>3, <1>4, <1>5 DEF Held

LEMMA UpLeaks ==
  ASSUME IInv, LeakOK, UNCHANGED size, NEW orig \in Rows, orig <= bottom, NEW k \in Int,
         tscrollup(orig, k, TRUE) \/ tscrollup(orig, k, FALSE)
  PROVE  LeakOK'
<1> DEFINE h == (histindex + 1) % H
           new == hist[h] = NULL \/ (h = 0 /\ ~circled)
<1>1. /\ StoreOK /\ PlaceOK /\ rows' = rows /\ h \in Slots
      /\ heap \subseteq Buf /\ NULL \notin Buf /\ line \in [Rows -> Buf] /\ top \in Rows
  BY NextSlot, RowsNat DEF IInv, StoreOK, PlaceOK, size
<1>2. PICK n \in 0 .. bottom - orig + 1 : n = Limit(k, 0, bottom - orig + 1)
  BY <1>1, CountRange
<1>3. CASE tscrollup(orig, k, FALSE)
  <2>1. UNCHANGED store /\ line' = MovedUp(line, orig, n)
    BY <1>2, <1>3 DEF tscrollup, ScrollUp
  <2>2. \A y \in Rows : \E x \in Rows : line'[x] = line[y]
    BY <1>1, <2>1, MovedUpOnto
  <2>3. Rows' = Rows /\ UNCHANGED <<hist, heap, circled>>
    BY <1>1, <2>1 DEF Rows, store
  <2>4. Held \subseteq Held'
    BY <2>2, <2>3 DEF Held, Slots
  <2>5. NoNewLeak
    BY <2>3, <2>4 DEF NoNewLeak
  <2>6. QED
    BY <2>5, NoNewLeakKeeps
<1>4. CASE tscrollup(orig, k, TRUE)
  <2>1. PICK b \in (IF new THEN Buf \ heap ELSE {hist[h]}) :
          /\ Exchange(h, orig, b, new)
          /\ ScrollUp([line EXCEPT ![orig] = b], orig, n)
    BY <1>2, <1>4 DEF tscrollup
  <2> DEFINE l == [line EXCEPT ![orig] = b]
  <2>2. circled' = (circled \/ h = 0)
    BY <1>4 DEF tscrollup
  <2>3. new \in BOOLEAN
    OBVIOUS
  <2>4. new /\ hist[h] # NULL => ~circled /\ circled'
    BY <2>2
  <2> HIDE DEF new, h
  <2>5. \A c \in heap' : \/ c \in {hist'[i] : i \in Slots} \cup {l[x] : x \in Rows}
                         \/ c \in heap \ Held
                         \/ new /\ c = hist[h]
    BY <1>1, <2>1, <2>3, ExchangeHolds
  <2> HIDE DEF l
  <2>6. \A y \in Rows : \E x \in Rows : line'[x] = l[y]
    <3>1. line' = MovedUp(l, orig, n)
      BY <2>1 DEF ScrollUp, l
    <3>2. \A y \in Rows : \E x \in Rows : MovedUp(l, orig, n)[x] = l[y]
      <4>1. PlaceOK
        BY <1>1
      <4>2. QED
        BY <4>1, MovedUpOnto
    <3>3. QED
      BY <3>1, <3>2
  <2>7. circled => circled'
    BY <2>2
  <2>8. CASE new /\ hist[h] # NULL
    <3>1. PICK lost : lost = hist[h]
      OBVIOUS
    <3>2. heap' \ Held' \subseteq (heap \ Held) \cup {lost}
      BY ZenonT(60), <1>1, <2>5, <2>6, <2>7, <3>1, OntoLeaks
    <3>3. heap \ Held = {}
      BY <2>4, <2>8 DEF LeakOK
    <3>4. lost \in Buf
      BY <1>1, <2>8, <3>1 DEF StoreOK
    <3>5. circled' /\ heap' \subseteq Held' \cup {lost}
      BY <2>4, <2>8, <3>2, <3>3
    <3>6. QED
      BY <3>4, <3>5 DEF LeakOK
  <2>9. CASE ~(new /\ hist[h] # NULL)
    <3>1. NULL \notin heap'
      <4>1. heap' = heap \cup {b} /\ b # NULL
        BY <1>1, <2>1 DEF Exchange, new
      <4>2. QED
        BY <1>1, <4>1
    <3>2. heap' \ Held' \subseteq (heap \ Held) \cup {NULL}
      BY ZenonT(60), <1>1, <2>5, <2>6, <2>7, <2>9, OntoLeaks
    <3>3. NoNewLeak
      BY <2>7, <3>1, <3>2 DEF NoNewLeak
    <3>4. QED
      BY <3>3, NoNewLeakKeeps
  <2>10. QED
    BY <2>8, <2>9
<1>5. QED
  BY <1>3, <1>4

LEMMA DownLeaks ==
  ASSUME IInv, LeakOK, UNCHANGED size, NEW orig \in Rows, orig <= bottom, NEW k \in Int,
         tscrolldown(orig, k, TRUE) \/ tscrolldown(orig, k, FALSE)
  PROVE  LeakOK'
<1> DEFINE h == (histindex + H - 1) % H
           new == hist[h] = NULL
<1>1. /\ StoreOK /\ PlaceOK /\ rows' = rows /\ h \in Slots /\ bottom \in Rows
      /\ heap \subseteq Buf /\ NULL \notin Buf /\ line \in [Rows -> Buf]
  BY NextSlot, RowsNat DEF IInv, StoreOK, PlaceOK, size
<1>2. PICK n \in 0 .. bottom - orig + 1 : n = Limit(k, 0, bottom - orig + 1)
  BY <1>1, CountRange
<1>3. CASE tscrolldown(orig, k, FALSE)
  <2>1. UNCHANGED store /\ line' = MovedDown(line, orig, n)
    BY <1>2, <1>3 DEF tscrolldown, ScrollDown
  <2>2. \A y \in Rows : \E x \in Rows : line'[x] = line[y]
    BY <1>1, <2>1, MovedDownOnto
  <2>3. Rows' = Rows /\ UNCHANGED <<hist, heap, circled>>
    BY <1>1, <2>1 DEF Rows, store
  <2>4. Held \subseteq Held'
    BY <2>2, <2>3 DEF Held, Slots
  <2>5. NoNewLeak
    BY <2>3, <2>4 DEF NoNewLeak
  <2>6. QED
    BY <2>5, NoNewLeakKeeps
<1>4. CASE tscrolldown(orig, k, TRUE)
  <2>1. PICK b \in (IF new THEN Buf \ heap ELSE {hist[h]}) :
          /\ Exchange(h, bottom, b, new)
          /\ ScrollDown([line EXCEPT ![bottom] = b], orig, n)
    BY <1>2, <1>4 DEF tscrolldown
  <2> DEFINE l == [line EXCEPT ![bottom] = b]
  <2>2. circled' = circled /\ new \in BOOLEAN
    BY <1>4 DEF tscrolldown
  <2>3. new => hist[h] = NULL
    OBVIOUS
  <2> HIDE DEF new, h
  <2>4. \A c \in heap' : \/ c \in {hist'[i] : i \in Slots} \cup {l[x] : x \in Rows}
                         \/ c \in heap \ Held
                         \/ new /\ c = hist[h]
    BY <1>1, <2>1, <2>2, ExchangeHolds
  <2> HIDE DEF l
  <2>5. \A y \in Rows : \E x \in Rows : line'[x] = l[y]
    <3>1. line' = MovedDown(l, orig, n)
      BY <2>1 DEF ScrollDown, l
    <3>2. \A y \in Rows : \E x \in Rows : MovedDown(l, orig, n)[x] = l[y]
      <4>1. PlaceOK
        BY <1>1
      <4>2. QED
        BY <4>1, MovedDownOnto
    <3>3. QED
      BY <3>1, <3>2
  <2>6. NULL \notin heap'
    <3>1. heap' = heap \cup {b} /\ b # NULL
      BY <1>1, <2>1 DEF Exchange, new
    <3>2. QED
      BY <1>1, <3>1
  <2>7. heap' \ Held' \subseteq (heap \ Held) \cup {NULL}
    BY ZenonT(60), <1>1, <2>2, <2>3, <2>4, <2>5, OntoLeaks
  <2>8. NoNewLeak
    BY <2>2, <2>6, <2>7 DEF NoNewLeak
  <2>9. QED
    BY <2>8, NoNewLeakKeeps
<1>5. QED
  BY <1>3, <1>4

(* tresize frees the rows it drops, and every line it makes is in use.     *)
LEMMA ResizeLeaks ==
  ASSUME IInv, LeakOK, NEW col \in ColSizes, NEW row \in RowSizes, tresize(col, row)
  PROVE  LeakOK'
<1> DEFINE drop   == IF cy >= row THEN cy - row + 1 ELSE 0
           minrow == Lower(row, rows)
           kept   == [y \in 0 .. minrow - 1 |-> line[y + drop]]
           grown  == IF ~(col > colalloc) THEN {}
                     ELSE 0 .. (IF circled THEN H ELSE histindex) - 1
           empty  == {i \in grown : hist[i] = NULL}
           added  == minrow .. row - 1
           asked  == {<<"hist", i>> : i \in empty} \cup {<<"line", y>> : y \in added}
           freed  == {line[y] : y \in Rows} \ {kept[y] : y \in 0 .. minrow - 1}
<1>1. /\ row \in Nat \ {0} /\ rows \in Nat \ {0} /\ H \in Nat \ {0} /\ histindex \in 0 .. H - 1
      /\ Slots = 0 .. H - 1 /\ NULL \notin heap
  BY RowsNat, RingAssumption DEF IInv, StoreOK, Slots
<1>2. minrow \in Int /\ minrow <= row
  BY <1>1 DEF Lower
<1>3. rows' = row /\ UNCHANGED circled
  BY DEF tresize
<1>4. PICK f \in Mallocs(asked) :
        /\ line' = [y \in 0 .. row - 1 |-> IF y < minrow THEN kept[y] ELSE f[<<"line", y>>]]
        /\ hist' = [i \in Slots |-> IF i \in empty THEN f[<<"hist", i>>] ELSE hist[i]]
        /\ heap' = (heap \ freed) \cup {f[i] : i \in DOMAIN f}
  BY DEF tresize
<1>5. DOMAIN f = asked
  BY DEF Mallocs
<1>6. Rows' = 0 .. row - 1 /\ Slots' = Slots
  BY <1>3 DEF Rows, Slots
<1>7. Held' = {hist'[i] : i \in Slots} \cup {line'[y] : y \in 0 .. row - 1}
  BY <1>6 DEF Held
<1>8. empty \subseteq Slots /\ \A i \in empty : hist[i] = NULL
  BY <1>1
<1>9. /\ \A y \in 0 .. minrow - 1 : y \in 0 .. row - 1 /\ y < minrow
      /\ \A y \in added : y \in 0 .. row - 1 /\ ~(y < minrow)
  BY <1>1, <1>2 DEF Lower
<1>10. /\ \A i \in empty : f[<<"hist", i>>] \in Held'
       /\ \A i \in Slots : hist[i] # NULL => hist[i] \in Held'
  BY <1>4, <1>7, <1>8
<1>11. \A y \in 0 .. minrow - 1 : kept[y] \in Held'
  BY <1>4, <1>7, <1>9
<1>12. \A y \in added : f[<<"line", y>>] \in Held'
  BY <1>4, <1>7, <1>9
<1>13. \A y \in Rows : line[y] \in freed \/ line[y] \in Held'
  BY <1>11
<1> HIDE DEF drop, minrow, kept, grown, empty, added, freed
<1>14. \A x \in asked : f[x] \in Held'
  BY <1>10, <1>12
<1>15. Held \cap (heap \ freed) \subseteq Held'
  BY <1>1, <1>10, <1>13 DEF Held
<1>16. heap' \ Held' \subseteq heap \ Held
  BY <1>4, <1>5, <1>14, <1>15
<1>17. QED
  BY <1>3, <1>16, NoNewLeakKeeps DEF NoNewLeak

(* What leaves the ring and the rows alone loses nothing.                  *)
LEMMA SameLeaks ==
  ASSUME IInv, LeakOK, UNCHANGED <<store, line, size>>
  PROVE  LeakOK'
<1>1. UNCHANGED <<hist, line, heap, circled, rows>>
  BY DEF store, size
<1>2. Held' = Held
  BY <1>1 DEF Held, Slots, Rows
<1>3. QED
  BY <1>1, <1>2, NoNewLeakKeeps DEF NoNewLeak

LEMMA NextLeaks ==
  ASSUME IInv, LeakOK, [Next]_vars
  PROVE  LeakOK'
<1>1. top \in Rows /\ bottom \in Rows /\ cy \in Rows /\ top <= bottom /\ rows \in Nat
  BY RowsNat DEF IInv, PlaceOK
<1>2. CASE LineFeed \/ ReverseIndex
  <2>1. UNCHANGED size
    BY <1>2 DEF LineFeed, ReverseIndex
  <2>2. CASE tscrollup(top, 1, TRUE) \/ tscrolldown(top, 1, TRUE)
    <3>1. CASE tscrollup(top, 1, TRUE)
      <4>1. PICK k \in Int : k = 1
        OBVIOUS
      <4>2. tscrollup(top, k, TRUE)
        BY <3>1, <4>1
      <4>3. QED
        BY <1>1, <2>1, <4>2, UpLeaks
    <3>2. CASE tscrolldown(top, 1, TRUE)
      <4>1. PICK k \in Int : k = 1
        OBVIOUS
      <4>2. tscrolldown(top, k, TRUE)
        BY <3>2, <4>1
      <4>3. QED
        BY <1>1, <2>1, <4>2, DownLeaks
    <3>3. QED
      BY <2>2, <3>1, <3>2
  <2>3. CASE UNCHANGED <<store, line, text, scr>>
    BY <2>1, <2>3, SameLeaks
  <2>4. QED
    BY <1>2, <2>2, <2>3 DEF LineFeed, ReverseIndex
<1>3. ASSUME NEW n \in 0 .. rows, ScrollRegion("SU", n) \/ ScrollRegion("SD", n) PROVE LeakOK'
  <2>1. UNCHANGED size /\ (tscrollup(top, n, FALSE) \/ tscrolldown(top, n, FALSE))
    BY <1>3 DEF ScrollRegion
  <2>2. n \in Int
    BY <1>1
  <2>3. QED
    BY <1>1, <2>1, <2>2, UpLeaks, DownLeaks
<1>4. ASSUME NEW n \in 0 .. rows, EditLines("IL", n) \/ EditLines("DL", n) PROVE LeakOK'
  <2>1. UNCHANGED size /\ cy <= bottom /\ (tscrollup(cy, n, FALSE) \/ tscrolldown(cy, n, FALSE))
    BY <1>4 DEF EditLines
  <2>2. n \in Int
    BY <1>1
  <2>3. QED
    BY <1>1, <2>1, <2>2, UpLeaks, DownLeaks
<1>5. ASSUME NEW col \in ColSizes, NEW row \in RowSizes, tresize(col, row) PROVE LeakOK'
  BY <1>5, ResizeLeaks
<1>6. CASE \/ \E t \in Chars \cup {Blank} : Write(t)
           \/ \E y \in Given : MoveCursor(y)
           \/ \E t, b \in Given : SetRegion(t, b)
           \/ treset
  BY <1>6, SameLeaks DEF Write, MoveCursor, SetRegion, treset
<1>7. CASE \/ ScrollBottom \/ ScrollTop
           \/ \E n \in 1 .. rows : kscrollup(n) \/ kscrolldown(n)
           \/ UNCHANGED vars
  BY <1>7, SameLeaks DEF ScrollBottom, ScrollTop, kscrollup, kscrolldown, vars
<1>8. QED
  BY <1>2, <1>3, <1>4, <1>5, <1>6, <1>7 DEF Next, TtyNext, UserNext

LEMMA InitLeakOK == Init => LeakOK
<1> SUFFICES ASSUME Init PROVE LeakOK
  OBVIOUS
<1>1. PICK f \in [-1 .. rows - 1 -> Buf] :
        /\ hist = [i \in Slots |-> IF i = 0 THEN f[-1] ELSE NULL]
        /\ line = [y \in Rows |-> f[y]]
        /\ heap = {f[i] : i \in -1 .. rows - 1}
  BY DEF Init
<1>2. rows \in Nat /\ 0 \in Slots /\ hist[0] = f[-1]
  BY <1>1, RingAssumption DEF Init, Slots
<1>3. \A i \in -1 .. rows - 1 : i = -1 \/ i \in Rows
  BY <1>2 DEF Rows
<1>4. heap \subseteq Held
  BY <1>1, <1>2, <1>3 DEF Held
<1>5. QED
  BY <1>4 DEF Init, LeakOK

(* For a ring of any length, any window sizes and any program: no matter   *)
(* how long it scrolls and how often the window is resized, at most one    *)
(* line is lost, when the ring wraps for the first time (scroll.c:195).    *)
THEOREM MemoryBounded == Spec => []LeakBounded
<1>1. IInv /\ LeakOK /\ [Next]_vars => LeakOK'
  BY NextLeaks
<1>2. QED
  BY SpecIInv, InitLeakOK, LeakOKBounds, <1>1, PTL DEF Spec

------------------------------------------------------------------------------
(***************************************************************************)
(* The pointers of LineRing implement the log of ScrollLog, and a view     *)
(* that is scrolled back stays on its lines.                               *)
(***************************************************************************)

(* The two parts of the refinement mapping.                                *)
SlotText(i) == TextOf(hist[i])
RowText(y)  == TextOf(line[y])

Saved  == [k \in 1 .. Written |-> TextOf(hist[(histindex + H - (k - 1)) % H])]
Screen == [y \in Rows |-> TextOf(line[y])]

(* tclearregion erases the rows it is given and, since no line is shared,  *)
(* nothing else.                                                           *)
LEMMA ClearedText ==
  ASSUME rows \in Nat, NEW l \in [Rows -> Buf], Distinct(l), text \in [Buf -> Texts],
         NEW y1, NEW y2, NEW lo, NEW hi,
         lo = Limit(Lower(y1, y2), 0, rows - 1), hi = Limit(Higher(y1, y2), 0, rows - 1),
         lo \in Rows, hi \in Rows
  PROVE  /\ \A y \in Rows : Cleared(l, y1, y2)[l[y]] = IF lo <= y /\ y <= hi THEN Blank ELSE text[l[y]]
         /\ \A b \in Buf : (\A y \in Rows : b # l[y]) => Cleared(l, y1, y2)[b] = text[b]
<1> DEFINE erased == {l[y] : y \in lo .. hi}
<1>1. Cleared(l, y1, y2) = [b \in Buf |-> IF b \in erased THEN Blank ELSE text[b]]
  BY DEF Cleared
<1>2. lo .. hi \subseteq Rows /\ Rows \subseteq Int
  BY DEF Rows
<1>3. ASSUME NEW y \in Rows PROVE l[y] \in erased <=> lo <= y /\ y <= hi
  BY <1>2 DEF Distinct
<1>4. ASSUME NEW b \in Buf, \A y \in Rows : b # l[y] PROVE b \notin erased
  BY <1>2, <1>4
<1> HIDE DEF erased
<1>5. QED
  BY <1>1, <1>3, <1>4

(* The texts after the end of tscrollup, on screen l beside ring hist'.    *)
LEMMA UpText ==
  ASSUME IInv, UNCHANGED size, NEW l \in [Rows -> Buf], Apart(hist', l, heap'),
         hist' \in [Slots -> Buf \cup {NULL}],
         NEW orig \in Rows, NEW n \in 1 .. bottom - orig + 1, ScrollUp(l, orig, n)
  PROVE  /\ \A i \in Slots : SlotText(i)' = TextOf(hist'[i])
         /\ \A y \in Rows : RowText(y)' = IF y < orig \/ y > bottom THEN text[l[y]]
                                          ELSE IF y + n <= bottom THEN text[l[y + n]]
                                          ELSE Blank
<1>1. /\ rows \in Nat /\ orig \in Nat /\ n \in Nat \ {0} /\ bottom \in Nat /\ bottom < rows
      /\ orig + n - 1 <= bottom /\ Rows = 0 .. rows - 1 /\ NULL \notin Buf
  BY RowsNat DEF IInv, Rows
<1>0. rows \in Nat /\ text \in [Buf -> Texts] /\ Distinct(l)
  BY <1>1 DEF IInv, StoreOK, Apart
<1>2. line' = MovedUp(l, orig, n) /\ text' = Cleared(l, orig, orig + n - 1)
  BY DEF ScrollUp
<1>3. /\ orig = Limit(Lower(orig, orig + n - 1), 0, rows - 1) /\ orig + n - 1 \in Rows
      /\ orig + n - 1 = Limit(Higher(orig, orig + n - 1), 0, rows - 1)
  BY <1>1 DEF Limit, Lower, Higher
<1>4. /\ \A y \in Rows : text'[l[y]] = IF orig <= y /\ y <= orig + n - 1 THEN Blank ELSE text[l[y]]
      /\ \A b \in Buf : (\A y \in Rows : b # l[y]) => text'[b] = text[b]
  <2>1. orig \in Rows
    OBVIOUS
  <2> DEFINE c == Cleared(l, orig, orig + n - 1)
  <2>2. /\ \A y \in Rows : c[l[y]] = IF orig <= y /\ y <= orig + n - 1 THEN Blank ELSE text[l[y]]
        /\ \A b \in Buf : (\A y \in Rows : b # l[y]) => c[b] = text[b]
    BY <1>0, <1>3, <2>1, ClearedText
  <2>3. QED
    BY <1>2, <2>2
<1>5. ASSUME NEW i \in Slots PROVE SlotText(i)' = TextOf(hist'[i])
  BY <1>4 DEF SlotText, TextOf, Apart
<1>6. ASSUME NEW y \in Rows
      PROVE  RowText(y)' = IF y < orig \/ y > bottom THEN text[l[y]]
                           ELSE IF y + n <= bottom THEN text[l[y + n]] ELSE Blank
  <2>1. ASSUME NEW x \in Rows, line'[y] = l[x]
        PROVE  RowText(y)' = IF orig <= x /\ x <= orig + n - 1 THEN Blank ELSE text[l[x]]
    BY <1>1, <1>4, <2>1 DEF RowText, TextOf
  <2>2. CASE y < orig \/ y > bottom
    <3>1. line'[y] = l[y]
      BY <1>2, <2>2 DEF MovedUp
    <3>2. QED
      BY <1>1, <2>1, <2>2, <3>1
  <2>3. CASE ~(y < orig \/ y > bottom) /\ y + n <= bottom
    <3>1. line'[y] = l[y + n] /\ y + n \in Rows /\ ~(y + n <= orig + n - 1)
      BY <1>1, <1>2, <2>3 DEF MovedUp
    <3>2. QED
      BY <2>1, <2>3, <3>1
  <2>4. CASE ~(y < orig \/ y > bottom) /\ ~(y + n <= bottom)
    <3>1. line'[y] = l[orig + ((y - orig) % n)]
      BY <1>1, <1>2, <2>4 DEF MovedUp
    <3>2. (y - orig) % n \in 0 .. n - 1
      <4>1. y - orig \in Int /\ n \in Nat \ {0}
        BY <1>1
      <4>2. QED
        BY <4>1, ModRange
    <3>3. orig + ((y - orig) % n) \in orig .. orig + n - 1
      BY <1>1, <3>2
    <3>4. orig .. orig + n - 1 \subseteq Rows
      BY <1>1
    <3>5. QED
      BY <1>1, <2>1, <2>4, <3>1, <3>3, <3>4
  <2>5. QED
    BY <2>2, <2>3, <2>4
<1>7. QED
  BY <1>5, <1>6

(* The same for tscrolldown, which never moves a line to the ring here.    *)
LEMMA DownText ==
  ASSUME IInv, UNCHANGED <<store, size>>,
         NEW orig \in Rows, NEW n \in 1 .. bottom - orig + 1, ScrollDown(line, orig, n)
  PROVE  /\ \A i \in Slots : SlotText(i)' = SlotText(i)
         /\ \A y \in Rows : RowText(y)' = IF y < orig \/ y > bottom THEN RowText(y)
                                          ELSE IF y - n >= orig THEN RowText(y - n)
                                          ELSE Blank
<1>1. /\ rows \in Nat /\ orig \in Nat /\ n \in Nat \ {0} /\ bottom \in Nat /\ bottom < rows
      /\ orig <= bottom - n + 1 /\ Rows = 0 .. rows - 1 /\ NULL \notin Buf
      /\ text \in [Buf -> Texts] /\ Distinct(line) /\ line \in [Rows -> Buf]
  BY RowsNat DEF IInv, StoreOK, Rows, NoSharing, Distinct
<1>2. line' = MovedDown(line, orig, n) /\ text' = Cleared(line, bottom - n + 1, bottom) /\ hist' = hist
  BY DEF ScrollDown, store
<1>3. /\ bottom - n + 1 = Limit(Lower(bottom - n + 1, bottom), 0, rows - 1)
      /\ bottom - n + 1 \in Rows /\ bottom \in Rows
      /\ bottom = Limit(Higher(bottom - n + 1, bottom), 0, rows - 1)
  BY <1>1 DEF Limit, Lower, Higher
<1>4. /\ \A y \in Rows : text'[line[y]] = IF bottom - n + 1 <= y /\ y <= bottom THEN Blank
                                          ELSE text[line[y]]
      /\ \A b \in Buf : (\A y \in Rows : b # line[y]) => text'[b] = text[b]
  BY SMTT(40), <1>1, <1>2, <1>3, ClearedText
<1>5. ASSUME NEW i \in Slots PROVE SlotText(i)' = SlotText(i)
  BY <1>2, <1>4 DEF SlotText, TextOf, IInv, StoreOK, NoSharing
<1>6. ASSUME NEW y \in Rows
      PROVE  RowText(y)' = IF y < orig \/ y > bottom THEN RowText(y)
                           ELSE IF y - n >= orig THEN RowText(y - n) ELSE Blank
  <2>1. ASSUME NEW x \in Rows, line'[y] = line[x]
        PROVE  RowText(y)' = IF bottom - n + 1 <= x /\ x <= bottom THEN Blank ELSE RowText(x)
    BY <1>1, <1>4, <2>1 DEF RowText, TextOf
  <2>2. CASE y < orig \/ y > bottom
    <3>1. line'[y] = line[y]
      BY <1>2, <2>2 DEF MovedDown
    <3>2. QED
      BY <1>1, <2>1, <2>2, <3>1
  <2>3. CASE ~(y < orig \/ y > bottom) /\ y - n >= orig
    <3>1. line'[y] = line[y - n] /\ y - n \in Rows /\ ~(bottom - n + 1 <= y - n)
      BY <1>1, <1>2, <2>3 DEF MovedDown
    <3>2. QED
      BY <2>1, <2>3, <3>1
  <2>4. CASE ~(y < orig \/ y > bottom) /\ ~(y - n >= orig)
    <3>1. line'[y] = line[bottom - ((bottom - y) % n)]
      BY <1>1, <1>2, <2>4 DEF MovedDown
    <3>2. (bottom - y) % n \in 0 .. n - 1
      <4>1. bottom - y \in Int /\ n \in Nat \ {0}
        BY <1>1
      <4>2. QED
        BY <4>1, ModRange
    <3>3. bottom - ((bottom - y) % n) \in bottom - n + 1 .. bottom
      BY <1>1, <3>2
    <3>4. bottom - n + 1 .. bottom \subseteq Rows
      BY <1>1
    <3>5. QED
      BY <1>1, <2>1, <2>4, <3>1, <3>3, <3>4
  <2>5. QED
    BY <2>2, <2>3, <2>4
<1>7. QED
  BY <1>5, <1>6

(* A line feed at the end of the region: the top row's text is in the next *)
(* slot, every other slot keeps its text, the region moves up by one.      *)
LEMMA FeedText ==
  ASSUME IInv, UNCHANGED size, tscrollup(top, 1, TRUE)
  PROVE  /\ histindex' = (histindex + 1) % H
         /\ \A i \in Slots : SlotText(i)' = IF i = histindex' THEN RowText(top) ELSE SlotText(i)
         /\ \A y \in Rows : RowText(y)' = IF y < top \/ y > bottom THEN RowText(y)
                                          ELSE IF y + 1 <= bottom THEN RowText(y + 1)
                                          ELSE Blank
<1> DEFINE h == (histindex + 1) % H
           new == hist[h] = NULL \/ (h = 0 /\ ~circled)
<1>1. /\ top \in Rows /\ top \in Nat /\ bottom \in Nat /\ top <= bottom /\ bottom < rows
      /\ rows \in Nat /\ h \in Slots /\ NULL \notin Buf
      /\ hist \in [Slots -> Buf \cup {NULL}] /\ line \in [Rows -> Buf]
      /\ StoreOK /\ PlaceOK
  BY RowsNat, NextSlot DEF IInv, StoreOK, PlaceOK
<1>2. Limit(1, 0, bottom - top + 1) = 1
  BY <1>1 DEF Limit
<1>3. PICK b \in (IF new THEN Buf \ heap ELSE {hist[h]}) :
         Exchange(h, top, b, new) /\ ScrollUp([line EXCEPT ![top] = b], top, 1)
  BY <1>2 DEF tscrollup
<1> DEFINE l == [line EXCEPT ![top] = b]
<1>4. new \in BOOLEAN /\ (~new => hist[h] # NULL)
  OBVIOUS
<1>5. hist' = [hist EXCEPT ![h] = line[top]] /\ histindex' = h
  BY <1>3 DEF Exchange
<1>6. StoreOK /\ PlaceOK /\ h \in Slots /\ top \in Rows
  BY <1>1
<1> HIDE DEF h, new
<1>7. hist' \in [Slots -> Buf \cup {NULL}] /\ l \in [Rows -> Buf] /\ Apart(hist', l, heap')
  BY <1>3, <1>4, <1>6, ExchangeApart
<1> HIDE DEF l
<1>8. 1 \in 1 .. bottom - top + 1 /\ ScrollUp(l, top, 1)
  BY <1>1, <1>3 DEF l
<1>9. /\ \A i \in Slots : SlotText(i)' = TextOf(hist'[i])
      /\ \A y \in Rows : RowText(y)' = IF y < top \/ y > bottom THEN text[l[y]]
                                       ELSE IF y + 1 <= bottom THEN text[l[y + 1]] ELSE Blank
  BY <1>1, <1>7, <1>8, UpText
<1>10. ASSUME NEW i \in Slots
       PROVE  SlotText(i)' = IF i = histindex' THEN RowText(top) ELSE SlotText(i)
  BY <1>1, <1>5, <1>9 DEF SlotText, RowText
<1>11. ASSUME NEW y \in Rows, y # top PROVE text[l[y]] = RowText(y)
  BY <1>1, <1>11 DEF l, RowText, TextOf
<1>12. ASSUME NEW y \in Rows
       PROVE  RowText(y)' = IF y < top \/ y > bottom THEN RowText(y)
                            ELSE IF y + 1 <= bottom THEN RowText(y + 1) ELSE Blank
  <2>1. y \in Int /\ (y + 1 <= bottom /\ ~(y < top) => y + 1 \in Rows /\ y + 1 # top)
    BY <1>1 DEF Rows
  <2>2. y < top \/ y > bottom => y # top
    BY <1>1, <2>1
  <2>3. QED
    BY <1>9, <1>11, <2>1, <2>2
<1>13. QED
  BY <1>5, <1>10, <1>12 DEF h

----------------------------------------------------------------------------
(* What a step must do to the texts to be a step of the log.               *)

LogStep == [Log!Next]_<<Written, Saved, Screen>>

SavedSame  == Written' = Written /\ Saved' = Saved

(* The screen after rows lo .. hi were erased, or t .. b moved by n.       *)
Erased(lo, hi) == [y \in Rows |-> IF lo <= y /\ y <= hi THEN Blank ELSE Screen[y]]

Up(t, b, n) == [y \in Rows |-> IF y < t \/ y > b THEN Screen[y]
                               ELSE IF y + n <= b THEN Screen[y + n] ELSE Blank]

Down(t, b, n) == [y \in Rows |-> IF y < t \/ y > b THEN Screen[y]
                                 ELSE IF y - n >= t THEN Screen[y - n] ELSE Blank]

LEMMA LogStutters ==
  ASSUME SavedSame, Screen' = Screen
  PROVE  LogStep
  BY DEF LogStep, SavedSame

LEMMA LogWrites ==
  ASSUME SavedSame, NEW y \in Rows, NEW t \in Texts, Screen' = [Screen EXCEPT ![y] = t]
  PROVE  LogStep
<1>1. Log!Write(y, t)
  BY DEF SavedSame, Log!Write, Screen, Saved
<1>2. Log!Next
  BY <1>1 DEF Log!Next, Screen
<1>3. QED
  BY <1>2 DEF LogStep

LEMMA LogErases ==
  ASSUME SavedSame, NEW t \in Rows, NEW b \in Rows, Screen' = Erased(t, b)
  PROVE  LogStep
<1>1. Log!Erase(t, b)
  BY DEF SavedSame, Log!Erase, Screen, Saved, Erased
<1>2. Log!Next
  BY <1>1 DEF Log!Next, Screen
<1>3. QED
  BY <1>2 DEF LogStep

LEMMA LogShifts ==
  ASSUME SavedSame, NEW t \in Rows, NEW b \in Rows, NEW n \in 1 .. b - t + 1,
         Screen' = Up(t, b, n) \/ Screen' = Down(t, b, n)
  PROVE  LogStep
<1>1. Log!ShiftUp(t, b, n) \/ Log!ShiftDown(t, b, n)
  BY DEF SavedSame, Log!ShiftUp, Log!ShiftDown, Log!ShiftedUp, Screen, Saved, Up, Down
<1>2. Log!Next
  BY <1>1 DEF Log!Next, Screen
<1>3. QED
  BY <1>2 DEF LogStep

LEMMA LogSaves ==
  ASSUME NEW t \in Rows, NEW b \in Rows,
         Written' = IF Written < H THEN Written + 1 ELSE H,
         Saved' = [k \in 1 .. Written' |-> IF k = 1 THEN Screen[t] ELSE Saved[k - 1]],
         Screen' = Up(t, b, 1)
  PROVE  LogStep
<1>1. Log!Save(t, b)
  BY DEF Log!Save, Log!ShiftedUp, Screen, Saved, Up
<1>2. Log!Next
  BY <1>1 DEF Log!Next, Screen
<1>3. QED
  BY <1>2 DEF LogStep

LEMMA LogResizes ==
  ASSUME SavedSame, NEW h \in RowSizes, NEW drop \in Rows,
         Screen' = [y \in 0 .. h - 1 |-> IF y + drop \in Rows THEN Screen[y + drop] ELSE Blank]
  PROVE  LogStep
<1>1. Log!Resize(h, drop)
  BY DEF SavedSame, Log!Resize, Screen, Saved
<1>2. Log!Next
  BY <1>1 DEF Log!Next, Screen
<1>3. QED
  BY <1>2 DEF LogStep

----------------------------------------------------------------------------
(* Slots that keep their texts keep the log.                               *)
LEMMA SameSlots ==
  ASSUME IInv, UNCHANGED <<histindex, circled>>, \A i \in Slots : SlotText(i)' = SlotText(i)
  PROVE  SavedSame
<1>1. H \in Nat \ {0} /\ histindex \in Nat
  BY RowsNat DEF IInv, StoreOK, Slots
<1>2. Written' = Written /\ Written \in Nat
  BY <1>1 DEF Written
<1>3. ASSUME NEW k \in 1 .. Written PROVE (histindex + H - (k - 1)) % H \in Slots
  <2>1. histindex + H - (k - 1) \in Int
    BY <1>1, <1>2
  <2>2. QED
    BY <1>1, <2>1, ModRange DEF Slots
<1>4. Saved = [k \in 1 .. Written |-> SlotText((histindex + H - (k - 1)) % H)]
  BY DEF Saved, SlotText
<1>5. Saved' = [k \in 1 .. Written |-> SlotText((histindex + H - (k - 1)) % H)']
  BY <1>2 DEF Saved, SlotText
<1>6. Saved' = Saved
  BY <1>3, <1>4, <1>5
<1>7. QED
  BY <1>2, <1>6 DEF SavedSame

LEMMA ScreenTexts ==
  /\ Screen = [y \in Rows |-> RowText(y)]
  /\ rows' = rows => Screen' = [y \in Rows |-> RowText(y)']
  BY DEF Screen, RowText, Rows

(* A line feed at the end of the region saves the region's top row: the    *)
(* slot it goes to is none of the H - 1 that the newer lines are in.       *)
LogSlot(n, k) == (n + H - (k - 1)) % H

LEMMA FeedSaves ==
  ASSUME IInv, UNCHANGED size, tscrollup(top, 1, TRUE)
  PROVE  LogStep
<1>1. /\ H \in Nat \ {0} /\ histindex \in Nat /\ histindex < H /\ circled \in BOOLEAN
      /\ top \in Rows /\ bottom \in Rows /\ rows' = rows
  BY RowsNat DEF IInv, StoreOK, Slots, PlaceOK, size
<1>2. PICK h \in Int : /\ h = (histindex + 1) % H /\ 0 <= h /\ h < H
                       /\ h = IF histindex + 1 = H THEN 0 ELSE histindex + 1
  <2>1. CASE histindex + 1 = H
    BY <1>1, <2>1
  <2>2. CASE histindex + 1 < H
    BY <1>1, <2>2
  <2>3. QED
    BY <1>1, <2>1, <2>2
<1>3. histindex' = h /\ circled' = (circled \/ h = 0)
  BY <1>2, FeedText DEF tscrollup
<1>4. Written' = (IF Written < H THEN Written + 1 ELSE H) /\ Written' \in 1 .. H /\ Written \in 0 .. H
  <2>1. CASE circled
    <3>1. circled'
      BY <1>3, <2>1
    <3>2. QED
      BY <1>1, <2>1, <3>1 DEF Written
  <2>2. CASE ~circled /\ histindex + 1 = H
    <3>1. h = 0 /\ circled'
      BY <1>2, <1>3, <2>2
    <3>2. QED
      BY <1>1, <2>2, <3>1 DEF Written
  <2>3. CASE ~circled /\ histindex + 1 # H
    <3>1. h = histindex + 1 /\ ~circled'
      BY <1>1, <1>2, <1>3, <2>3
    <3>2. QED
      BY <1>1, <1>3, <2>3, <3>1 DEF Written
  <2>4. QED
    BY <2>1, <2>2, <2>3
<1>5. /\ \A i \in Slots : SlotText(i)' = IF i = h THEN RowText(top) ELSE SlotText(i)
      /\ \A y \in Rows : RowText(y)' = IF y < top \/ y > bottom THEN RowText(y)
                                       ELSE IF y + 1 <= bottom THEN RowText(y + 1) ELSE Blank
  BY <1>3, FeedText
<1>6. ASSUME NEW n \in 0 .. H - 1, NEW k \in 1 .. H
      PROVE  LogSlot(n, k) = IF k - 1 <= n THEN n - (k - 1) ELSE n - (k - 1) + H
  <2>1. CASE k - 1 <= n
    <3>1. n - (k - 1) \in 0 .. H - 1
      BY <1>1, <2>1
    <3>2. LogSlot(n, k) = (n - (k - 1)) % H
      <4>1. n + H - (k - 1) = (n - (k - 1)) + H
        BY <1>1
      <4>2. QED
        BY <1>1, <3>1, <4>1 DEF LogSlot
    <3>3. QED
      BY <1>1, <2>1, <3>1, <3>2
  <2>2. CASE ~(k - 1 <= n)
    <3>1. n + H - (k - 1) \in 0 .. H - 1
      BY <1>1, <2>2
    <3>2. QED
      BY <1>1, <2>2, <3>1 DEF LogSlot
  <2>3. QED
    BY <2>1, <2>2
<1>7. LogSlot(h, 1) = h /\ h \in Slots
  BY <1>1, <1>2, <1>6 DEF Slots
<1>8. ASSUME NEW k \in 2 .. H
      PROVE  LogSlot(h, k) = LogSlot(histindex, k - 1) /\ LogSlot(h, k) # h /\ LogSlot(h, k) \in Slots
  <2>1. k \in 1 .. H /\ k - 1 \in 1 .. H /\ h \in 0 .. H - 1 /\ histindex \in 0 .. H - 1
    BY <1>1, <1>2
  <2>2. LogSlot(h, k) = IF k - 1 <= h THEN h - (k - 1) ELSE h - (k - 1) + H
    BY <1>6, <2>1
  <2>3. LogSlot(histindex, k - 1) = IF k - 2 <= histindex THEN histindex - (k - 2) ELSE histindex - (k - 2) + H
    BY <1>6, <2>1
  <2>4. QED
    BY <1>1, <1>2, <2>1, <2>2, <2>3 DEF Slots
<1>9. Saved = [k \in 1 .. Written |-> SlotText(LogSlot(histindex, k))]
  BY DEF Saved, SlotText, LogSlot
<1>10. Saved' = [k \in 1 .. Written' |-> SlotText(LogSlot(h, k))']
  BY <1>3 DEF Saved, SlotText, LogSlot
<1>11. Screen[top] = RowText(top)
  BY <1>1, ScreenTexts
<1>12. ASSUME NEW k \in 1 .. Written'
       PROVE  SlotText(LogSlot(h, k))' = IF k = 1 THEN Screen[top] ELSE Saved[k - 1]
  <2>1. CASE k = 1
    BY <1>5, <1>7, <1>11, <2>1
  <2>2. CASE k # 1
    <3>1. k \in 2 .. H /\ k - 1 \in 1 .. Written
      BY <1>1, <1>4, <2>2
    <3>2. SlotText(LogSlot(h, k))' = SlotText(LogSlot(h, k))
      BY <1>5, <1>8, <3>1
    <3>3. Saved[k - 1] = SlotText(LogSlot(histindex, k - 1))
      BY <1>9, <3>1
    <3>4. QED
      BY <1>8, <2>2, <3>1, <3>2, <3>3
  <2>3. QED
    BY <2>1, <2>2
<1>13. Saved' = [k \in 1 .. Written' |-> IF k = 1 THEN Screen[top] ELSE Saved[k - 1]]
  BY <1>10, <1>12
<1>14. Screen' = Up(top, bottom, 1)
  <2>1. ASSUME NEW y \in Rows PROVE ~(y < top) /\ y + 1 <= bottom => y + 1 \in Rows
    BY <1>1, RowsNat DEF Rows, IInv
  <2>2. QED
    BY <1>1, <1>5, <2>1, ScreenTexts DEF Up
<1>15. QED
  BY <1>1, <1>4, <1>13, <1>14, LogSaves

(* Clearing rows erases them in the log.                                   *)
LEMMA ClearErases ==
  ASSUME IInv, UNCHANGED <<store, size>>, line' = line,
         NEW y1, NEW y2, text' = Cleared(line, y1, y2),
         Limit(Lower(y1, y2), 0, rows - 1) \in Rows, Limit(Higher(y1, y2), 0, rows - 1) \in Rows
  PROVE  LogStep
<1>1. /\ rows \in Nat /\ line \in [Rows -> Buf] /\ Distinct(line) /\ text \in [Buf -> Texts]
      /\ rows' = rows /\ NULL \notin Buf /\ hist \in [Slots -> Buf \cup {NULL}]
      /\ UNCHANGED <<hist, histindex, circled>>
  BY RowsNat DEF IInv, StoreOK, NoSharing, Distinct, size, store
<1>2. PICK lo \in Rows, hi \in Rows :
        lo = Limit(Lower(y1, y2), 0, rows - 1) /\ hi = Limit(Higher(y1, y2), 0, rows - 1)
  OBVIOUS
<1>3. /\ \A y \in Rows : text'[line[y]] = IF lo <= y /\ y <= hi THEN Blank ELSE text[line[y]]
      /\ \A b \in Buf : (\A y \in Rows : b # line[y]) => text'[b] = text[b]
  BY <1>1, <1>2, ClearedText
<1>4. \A i \in Slots : SlotText(i)' = SlotText(i)
  BY <1>1, <1>3 DEF SlotText, TextOf, IInv, StoreOK, NoSharing
<1>5. \A y \in Rows : RowText(y)' = IF lo <= y /\ y <= hi THEN Blank ELSE RowText(y)
  BY <1>1, <1>3 DEF RowText, TextOf
<1>6. Screen' = Erased(lo, hi)
  BY <1>1, <1>5, ScreenTexts DEF Erased
<1>7. QED
  BY <1>1, <1>4, <1>6, SameSlots, LogErases

(* SU and DL: rows move up, or with a count of 0 some are only erased.     *)
LEMMA UpShifts ==
  ASSUME IInv, UNCHANGED size, NEW orig \in Rows, orig <= bottom, NEW k \in Int,
         tscrollup(orig, k, FALSE)
  PROVE  LogStep
<1>1. /\ rows \in Nat /\ orig \in Nat /\ bottom \in Rows /\ bottom < rows /\ Rows = 0 .. rows - 1
      /\ rows' = rows /\ StoreOK /\ PlaceOK /\ bottom \in Nat
  BY RowsNat DEF IInv, PlaceOK, Rows, size
<1>2. PICK n \in 0 .. bottom - orig + 1 : n = Limit(k, 0, bottom - orig + 1)
  BY <1>1, CountRange
<1>3. ScrollUp(line, orig, n) /\ UNCHANGED store
  BY <1>2 DEF tscrollup
<1>4. /\ Apart(hist', line, heap') /\ line \in [Rows -> Buf]
      /\ hist' \in [Slots -> Buf \cup {NULL}] /\ UNCHANGED <<hist, histindex, circled>>
  BY <1>1, <1>3, NoSharingApart DEF StoreOK, store
<1>5. CASE n = 0
  <2>1. line' = line /\ text' = Cleared(line, orig, orig + n - 1)
    BY <1>3, <1>4, <1>5 DEF ScrollUp, MovedUp
  <2>2. /\ Limit(Lower(orig, orig + n - 1), 0, rows - 1) \in Rows
        /\ Limit(Higher(orig, orig + n - 1), 0, rows - 1) \in Rows
    BY <1>1, <1>5 DEF Limit, Lower, Higher
  <2>3. QED
    BY <1>3, <2>1, <2>2, ClearErases
<1>6. CASE n # 0
  <2>1. n \in 1 .. bottom - orig + 1
    BY <1>1, <1>6
  <2>2. /\ \A i \in Slots : SlotText(i)' = SlotText(i)
        /\ \A y \in Rows : RowText(y)' = IF y < orig \/ y > bottom THEN RowText(y)
                                         ELSE IF y + n <= bottom THEN RowText(y + n) ELSE Blank
    <3>1. /\ \A i \in Slots : SlotText(i)' = TextOf(hist'[i])
          /\ \A y \in Rows : RowText(y)' = IF y < orig \/ y > bottom THEN text[line[y]]
                                           ELSE IF y + n <= bottom THEN text[line[y + n]] ELSE Blank
      BY <1>3, <1>4, <2>1, UpText
    <3>2. \A y \in Rows : text[line[y]] = RowText(y)
      BY <1>4, RowsNat DEF RowText, TextOf, IInv
    <3>3. \A y \in Rows : ~(y < orig) /\ y + n <= bottom => y + n \in Rows
      BY <1>1, <2>1
    <3>4. QED
      BY <1>4, <3>1, <3>2, <3>3 DEF SlotText
  <2>3. Screen' = Up(orig, bottom, n)
    <3>1. \A y \in Rows : ~(y < orig) /\ y + n <= bottom => y + n \in Rows
      BY <1>1, <2>1
    <3>2. QED
      BY <1>1, <2>2, <3>1, ScreenTexts DEF Up
  <2>4. QED
    BY <1>1, <1>4, <2>1, <2>2, <2>3, SameSlots, LogShifts
<1>7. QED
  BY <1>5, <1>6

(* SD and IL.                                                              *)
LEMMA DownShifts ==
  ASSUME IInv, UNCHANGED size, NEW orig \in Rows, orig <= bottom, NEW k \in Int,
         tscrolldown(orig, k, FALSE)
  PROVE  LogStep
<1>1. /\ rows \in Nat /\ orig \in Nat /\ bottom \in Rows /\ bottom < rows /\ Rows = 0 .. rows - 1
      /\ rows' = rows /\ StoreOK /\ PlaceOK /\ bottom \in Nat
  BY RowsNat DEF IInv, PlaceOK, Rows, size
<1>2. PICK n \in 0 .. bottom - orig + 1 : n = Limit(k, 0, bottom - orig + 1)
  BY <1>1, CountRange
<1>3. ScrollDown(line, orig, n) /\ UNCHANGED <<store, size>>
  BY <1>2 DEF tscrolldown
<1>4. line \in [Rows -> Buf] /\ UNCHANGED <<hist, histindex, circled>>
  BY <1>1, <1>3 DEF StoreOK, store
<1>5. CASE n = 0
  <2>1. line' = line /\ text' = Cleared(line, bottom - n + 1, bottom)
    BY <1>3, <1>4, <1>5 DEF ScrollDown, MovedDown
  <2>2. /\ Limit(Lower(bottom - n + 1, bottom), 0, rows - 1) \in Rows
        /\ Limit(Higher(bottom - n + 1, bottom), 0, rows - 1) \in Rows
    BY <1>1, <1>5 DEF Limit, Lower, Higher
  <2>3. QED
    BY <1>3, <2>1, <2>2, ClearErases
<1>6. CASE n # 0
  <2>1. n \in 1 .. bottom - orig + 1
    BY <1>1, <1>6
  <2>2. /\ \A i \in Slots : SlotText(i)' = SlotText(i)
        /\ \A y \in Rows : RowText(y)' = IF y < orig \/ y > bottom THEN RowText(y)
                                         ELSE IF y - n >= orig THEN RowText(y - n) ELSE Blank
    BY <1>3, <2>1, DownText
  <2>3. Screen' = Down(orig, bottom, n)
    <3>1. \A y \in Rows : ~(y > bottom) /\ y - n >= orig => y - n \in Rows
      BY <1>1, <2>1
    <3>2. QED
      BY <1>1, <2>2, <3>1, ScreenTexts DEF Down
  <2>4. QED
    BY <1>1, <1>4, <2>1, <2>2, <2>3, SameSlots, LogShifts
<1>7. QED
  BY <1>5, <1>6

(* A character changes the text of the cursor's row.                       *)
LEMMA WriteWrites ==
  ASSUME IInv, NEW t \in Chars \cup {Blank}, Write(t)
  PROVE  LogStep
<1>1. /\ cy \in Rows /\ line \in [Rows -> Buf] /\ text \in [Buf -> Texts] /\ NULL \notin Buf
      /\ UNCHANGED <<hist, histindex, circled, line, rows>> /\ hist \in [Slots -> Buf \cup {NULL}]
      /\ text' = [text EXCEPT ![line[cy]] = t] /\ t \in Texts
  BY RowsNat DEF IInv, StoreOK, PlaceOK, Write, store, size, Texts
<1>2. \A i \in Slots : SlotText(i)' = SlotText(i)
  BY <1>1 DEF SlotText, TextOf, IInv, StoreOK, NoSharing
<1>3. \A y \in Rows : RowText(y)' = IF y = cy THEN t ELSE RowText(y)
  BY <1>1 DEF RowText, TextOf, IInv, StoreOK, NoSharing
<1>4. Screen' = [Screen EXCEPT ![cy] = t]
  BY <1>1, <1>3, ScreenTexts
<1>5. QED
  BY <1>1, <1>2, <1>4, SameSlots, LogWrites

(* What leaves the pointers, the texts and the size alone is a stutter.    *)
LEMMA NoTextChanges ==
  ASSUME UNCHANGED <<store, line, text, size>>
  PROVE  LogStep
<1>1. UNCHANGED <<hist, histindex, circled, line, text, rows>>
  BY DEF store, size
<1>2. SavedSame /\ Screen' = Screen
  BY <1>1 DEF SavedSame, Saved, Screen, Written, TextOf, Rows
<1>3. QED
  BY <1>2, LogStutters

(* A resize drops rows and adds blank ones.  Slots keep their texts: one   *)
(* that gets its first line there shows what an empty slot shows.          *)
LEMMA ResizeResizes ==
  ASSUME IInv, NEW col \in ColSizes, NEW row \in RowSizes, tresize(col, row)
  PROVE  LogStep
<1> DEFINE drop   == IF cy >= row THEN cy - row + 1 ELSE 0
           minrow == Lower(row, rows)
           kept   == [y \in 0 .. minrow - 1 |-> line[y + drop]]
           grown  == IF ~(col > colalloc) THEN {}
                     ELSE 0 .. (IF circled THEN H ELSE histindex) - 1
           empty  == {i \in grown : hist[i] = NULL}
           added  == minrow .. row - 1
           asked  == {<<"hist", i>> : i \in empty} \cup {<<"line", y>> : y \in added}
<1>1. /\ row \in Nat \ {0} /\ cy \in 0 .. rows - 1 /\ rows \in Nat \ {0} /\ Rows = 0 .. rows - 1
      /\ NULL \notin Buf
  BY RowsNat, RingAssumption DEF IInv, PlaceOK, Rows
<1>3. /\ minrow \in 1 .. row /\ minrow <= rows /\ drop \in Rows
      /\ \A y \in 0 .. row - 1 : (y < minrow <=> y + drop \in Rows) /\ (y < minrow \/ y \in added)
  BY <1>1 DEF Lower
<1>4. rows' = row /\ UNCHANGED <<histindex, circled>>
  BY DEF tresize
<1>5. PICK f \in Mallocs(asked) :
        /\ line' = [y \in 0 .. row - 1 |-> IF y < minrow THEN kept[y] ELSE f[<<"line", y>>]]
        /\ hist' = [i \in Slots |-> IF i \in empty THEN f[<<"hist", i>>] ELSE hist[i]]
        /\ text' = [b \in Buf |-> IF b \notin {f[i] : i \in DOMAIN f} THEN text[b]
                                  ELSE IF \E i \in empty : f[<<"hist", i>>] = b THEN Uninit
                                  ELSE Blank]
  BY DEF tresize
<1>6. /\ DOMAIN f = asked
      /\ \A i \in asked : f[i] \in Buf /\ f[i] \notin heap
      /\ \A i, j \in asked : f[i] = f[j] => i = j
      /\ \A i \in empty : <<"hist", i>> \in asked
      /\ \A y \in added : <<"line", y>> \in asked
  BY DEF Mallocs
<1>7. \A y \in 0 .. row - 1 : line'[y] = IF y < minrow THEN line[y + drop] ELSE f[<<"line", y>>]
  <2>1. \A y \in 0 .. row - 1 : y < minrow => kept[y] = line[y + drop]
    BY <1>1, <1>3
  <2>2. \A y \in 0 .. row - 1 : line'[y] = IF y < minrow THEN kept[y] ELSE f[<<"line", y>>]
    BY <1>5
  <2>3. QED
    BY <2>1, <2>2
<1>8. \A i \in Slots : hist'[i] = IF i \in empty THEN f[<<"hist", i>>] ELSE hist[i]
  BY <1>5
<1>9. \A i \in empty : hist[i] = NULL
  OBVIOUS
<1> HIDE DEF drop, minrow, kept, grown, empty, added, asked
<1>10. /\ \A b \in heap : text'[b] = text[b]
       /\ \A i \in empty : text'[f[<<"hist", i>>]] = Uninit
       /\ \A y \in added : text'[f[<<"line", y>>]] = Blank
  <2>1. ASSUME NEW b \in heap PROVE text'[b] = text[b]
    BY <1>5, <1>6 DEF IInv, StoreOK
  <2>2. ASSUME NEW i \in empty PROVE text'[f[<<"hist", i>>]] = Uninit
    BY <1>5, <1>6
  <2>3. ASSUME NEW y \in added PROVE text'[f[<<"line", y>>]] = Blank
    <3>1. \A i \in empty : <<"hist", i>> # <<"line", y>>
      OBVIOUS
    <3>2. \A i \in empty : f[<<"hist", i>>] # f[<<"line", y>>]
      BY <1>6, <3>1
    <3>3. QED
      BY <1>5, <1>6, <3>2
  <2>4. QED
    BY <2>1, <2>2, <2>3
<1>11. ASSUME NEW i \in Slots PROVE SlotText(i)' = SlotText(i)
  <2>1. CASE i \in empty
    <3>1. f[<<"hist", i>>] # NULL
      BY <1>1, <1>6, <2>1
    <3>2. QED
      BY <1>8, <1>9, <1>10, <2>1, <3>1 DEF SlotText, TextOf
  <2>2. CASE i \notin empty
    BY <1>8, <1>10, <2>2 DEF SlotText, TextOf, IInv, StoreOK, NoSharing
  <2>3. QED
    BY <2>1, <2>2
<1>12. ASSUME NEW y \in 0 .. row - 1
       PROVE  RowText(y)' = IF y + drop \in Rows THEN RowText(y + drop) ELSE Blank
  <2>1. CASE y < minrow
    <3>1. y + drop \in Rows /\ line'[y] = line[y + drop]
      BY <1>3, <1>7, <2>1
    <3>2. line[y + drop] \in heap /\ line[y + drop] # NULL
      BY <1>1, <3>1 DEF IInv, StoreOK, NoSharing
    <3>3. QED
      BY <1>10, <3>1, <3>2 DEF RowText, TextOf
  <2>2. CASE ~(y < minrow)
    <3>1. y + drop \notin Rows /\ y \in added /\ line'[y] = f[<<"line", y>>]
      BY <1>3, <1>7, <2>2
    <3>2. f[<<"line", y>>] # NULL
      BY <1>1, <1>6, <3>1
    <3>3. QED
      BY <1>10, <3>1, <3>2 DEF RowText, TextOf
  <2>3. QED
    BY <2>1, <2>2
<1>13. Screen' = [y \in 0 .. row - 1 |-> RowText(y)']
  BY <1>4 DEF Screen, RowText, Rows
<1>14. Screen' = [y \in 0 .. row - 1 |-> IF y + drop \in Rows THEN Screen[y + drop] ELSE Blank]
  BY <1>12, <1>13, ScreenTexts
<1>15. PICK d \in Rows : Screen' = [y \in 0 .. row - 1 |-> IF y + d \in Rows THEN Screen[y + d]
                                                          ELSE Blank]
  BY <1>3, <1>14
<1>16. QED
  BY <1>4, <1>11, <1>15, SameSlots, LogResizes

LEMMA TtyLogs ==
  ASSUME IInv, TtyNext, "RI" \notin Sent
  PROVE  LogStep
<1>1. /\ top \in Rows /\ cy \in Rows /\ bottom \in Nat /\ top <= bottom /\ bottom < rows
      /\ rows \in Nat \ {0} /\ Rows = 0 .. rows - 1
  BY RowsNat DEF IInv, PlaceOK, Rows
<1>2. ASSUME NEW t \in Chars \cup {Blank}, Write(t) PROVE LogStep
  BY <1>2, WriteWrites
<1>3. ASSUME NEW y \in Given, MoveCursor(y) PROVE LogStep
  BY <1>3, NoTextChanges DEF MoveCursor
<1>4. CASE LineFeed
  <2>1. CASE tscrollup(top, 1, TRUE)
    BY <1>4, <2>1, FeedSaves DEF LineFeed
  <2>2. CASE UNCHANGED <<store, line, text, scr>>
    BY <1>4, <2>2, NoTextChanges DEF LineFeed
  <2>3. QED
    BY <1>4, <2>1, <2>2 DEF LineFeed
<1>5. ~ReverseIndex
  BY RingAssumption DEF ReverseIndex, Sends
<1>6. ASSUME NEW n \in 0 .. rows, ScrollRegion("SU", n) \/ ScrollRegion("SD", n) PROVE LogStep
  <2>1. UNCHANGED size /\ (tscrollup(top, n, FALSE) \/ tscrolldown(top, n, FALSE))
    BY <1>6 DEF ScrollRegion
  <2>2. n \in Int
    BY <1>1
  <2>3. QED
    BY <1>1, <2>1, <2>2, UpShifts, DownShifts
<1>7. ASSUME NEW n \in 0 .. rows, EditLines("IL", n) \/ EditLines("DL", n) PROVE LogStep
  <2>1. /\ UNCHANGED size /\ cy <= bottom
        /\ tscrollup(cy, n, FALSE) \/ tscrolldown(cy, n, FALSE)
    BY <1>7 DEF EditLines
  <2>2. n \in Int
    BY <1>1
  <2>3. QED
    BY <1>1, <2>1, <2>2, UpShifts, DownShifts
<1>8. ASSUME NEW t \in Given, NEW b \in Given, SetRegion(t, b) PROVE LogStep
  BY <1>8, NoTextChanges DEF SetRegion
<1>9. CASE treset
  <2>1. UNCHANGED <<store, size>> /\ line' = line /\ text' = Cleared(line, 0, rows - 1)
    BY <1>9 DEF treset
  <2>2. /\ Limit(Lower(0, rows - 1), 0, rows - 1) \in Rows
        /\ Limit(Higher(0, rows - 1), 0, rows - 1) \in Rows
    BY <1>1 DEF Limit, Lower, Higher
  <2>3. QED
    BY <2>1, <2>2, ClearErases
<1>10. QED
  BY <1>2, <1>3, <1>4, <1>5, <1>6, <1>7, <1>8, <1>9 DEF TtyNext

LEMMA UserLogs ==
  ASSUME IInv, UserNext
  PROVE  LogStep
<1>1. ASSUME NEW n \in 1 .. rows, kscrollup(n) \/ kscrolldown(n) PROVE LogStep
  BY <1>1, NoTextChanges DEF kscrollup, kscrolldown
<1>2. CASE ScrollBottom \/ ScrollTop
  BY <1>2, NoTextChanges DEF ScrollBottom, ScrollTop
<1>3. ASSUME NEW col \in ColSizes, NEW row \in RowSizes, tresize(col, row) PROVE LogStep
  BY <1>3, ResizeResizes
<1>4. QED
  BY <1>1, <1>2, <1>3 DEF UserNext

LEMMA InitLogs == Init => Log!Init
<1> SUFFICES ASSUME Init PROVE Log!Init
  OBVIOUS
<1>1. histindex = 0 /\ ~circled /\ Written = 0
  BY DEF Init, Written
<1>2. rows \in RowSizes /\ rows \in Nat
  BY RingAssumption DEF Init
<1>3. line \in [Rows -> Buf] /\ NULL \notin Buf /\ text = [b \in Buf |-> Blank]
  BY InitIInv, RowsNat DEF Init, IInv, StoreOK
<1>4. Screen = [y \in 0 .. rows - 1 |-> Blank]
  BY <1>3 DEF Screen, Rows, TextOf
<1>5. Saved = [k \in 1 .. 0 |-> Blank]
  BY <1>1 DEF Saved
<1>6. QED
  BY <1>1, <1>2, <1>4, <1>5 DEF Log!Init, Screen, Saved

(* For a ring of any length, any window sizes, texts and buffers, and a    *)
(* program that sends no reverse index: the swaps of tscrollup and         *)
(* tscrolldown, the reuse of the oldest slot and the reallocations of      *)
(* tresize implement a screen and a log of the last H lines that left it.  *)
THEOREM RingIsALog ==
  ASSUME "RI" \notin Sent
  PROVE  Spec => ImplementsLog
<1>1. IInv /\ [Next]_vars => LogStep
  <2>1. ASSUME UNCHANGED vars PROVE LogStep
    BY <2>1, NoTextChanges DEF vars
  <2>2. QED
    BY <2>1, TtyLogs, UserLogs DEF Next
<1>2. IInv /\ [Next]_vars => [Log!Next]_<<Written,
                                [k \in 1 .. Written |-> TextOf(hist[(histindex + H - (k - 1)) % H])],
                                [y \in Rows |-> TextOf(line[y])]>>
  BY <1>1 DEF LogStep, Saved, Screen
<1>3. QED
  BY SpecIInv, InitLogs, <1>2, PTL DEF Spec, ImplementsLog, Log!Spec

----------------------------------------------------------------------------
(* For every program, reverse indexes too: a line feed that scrolls leaves *)
(* a view that is scrolled back on its lines, for tscrollup moves scr with *)
(* histindex.                                                              *)
LEMMA FeedSteady ==
  ASSUME IInv, LineFeed, histindex' # histindex, 0 < scr, scr < H - 1,
         NEW y \in Rows, y < scr \/ (top = 0 /\ y - scr <= bottom)
  PROVE  Shown(y)' = Shown(y)
<1>1. tscrollup(top, 1, TRUE) /\ UNCHANGED size
  BY DEF LineFeed, store
<1>2. /\ H \in Nat \ {0} /\ histindex \in Nat /\ histindex < H /\ scr \in Nat /\ y \in Nat
      /\ y < rows /\ rows \in Nat /\ bottom \in Nat /\ bottom < rows /\ top \in Nat
      /\ top <= bottom /\ Rows = 0 .. rows - 1 /\ rows < H
  BY RowsNat DEF IInv, StoreOK, Slots, Rows
<1>3. PICK h \in Slots : h = (histindex + 1) % H
  BY NextSlot DEF IInv, StoreOK
<1>4. scr' = scr + 1
  <2>1. Limit(1, 0, bottom - top + 1) = 1
    BY <1>2 DEF Limit
  <2>2. scr' = IF 0 < scr /\ scr < H THEN Lower(scr + 1, H - 1) ELSE scr
    BY <1>1, <2>1 DEF tscrollup, ScrollUp
  <2>3. QED
    BY <1>2, <2>2 DEF Lower
<1>5. /\ histindex' = h
      /\ \A i \in Slots : SlotText(i)' = IF i = h THEN RowText(top) ELSE SlotText(i)
      /\ \A x \in Rows : RowText(x)' = IF x < top \/ x > bottom THEN RowText(x)
                                       ELSE IF x + 1 <= bottom THEN RowText(x + 1) ELSE Blank
  BY <1>1, <1>3, FeedText
<1>6. PICK s \in Int : s = (y + histindex - scr + 1) % H
  <2>1. y + histindex - scr + 1 \in Int
    BY <1>2
  <2>2. (y + histindex - scr + 1) % H \in Int
    BY <1>2, <2>1
  <2>3. QED
    BY <2>2
<1>7. (y + h - (scr + 1) + 1) % H = IF y < scr THEN s ELSE (y + h - scr) % H
  <2>1. CASE histindex + 1 < H
    <3>1. h = histindex + 1
      BY <1>2, <1>3, <2>1
    <3>2. y + h - (scr + 1) + 1 = y + histindex - scr + 1 /\ y + h - (scr + 1) + 1 = y + h - scr
      BY <1>2, <3>1
    <3>3. QED
      BY <1>6, <3>2
  <2>2. CASE histindex + 1 = H
    <3>1. h = 0
      BY <1>2, <1>3, <2>2
    <3>2. y + h - (scr + 1) + 1 = y - scr /\ y + h - scr = y - scr
      BY <1>2, <3>1
    <3>3. y + histindex - scr + 1 = (y - scr) + H
      BY <1>2, <2>2
    <3>4. (y - scr) % H = ((y - scr) + H) % H
      BY <1>2
    <3>5. QED
      BY <1>6, <3>2, <3>3, <3>4
  <2>3. QED
    BY <1>2, <2>1, <2>2
<1>8. CASE y < scr
  <2>1. s \in Slots /\ s # h
    <3>1. s \in Slots
      BY <1>2, <1>6, ModRange DEF Slots
    <3>2. s # h
      <4>1. ASSUME s = h PROVE FALSE
        <5>1. (y + histindex - scr + 1) % H = (histindex + 1) % H
          BY <1>3, <1>6, <4>1
        <5>2. /\ y + histindex - scr + 1 \in Int /\ histindex + 1 \in Int
              /\ (y + histindex - scr + 1) - (histindex + 1) < H
              /\ (histindex + 1) - (y + histindex - scr + 1) < H
          BY <1>2, <1>8
        <5>3. y + histindex - scr + 1 = histindex + 1
          BY <1>2, <5>1, <5>2, ModDistinct
        <5>4. QED
          BY <1>2, <1>8, <5>3
      <4>2. QED
        BY <4>1
    <3>3. QED
      BY <3>1, <3>2
  <2>2. Shown(y) = SlotText(s)
    BY <1>6, <1>8 DEF Shown, TLINE, SlotText
  <2>3. Shown(y)' = SlotText(s)'
    <3>1. y < scr + 1
      BY <1>2, <1>8
    <3>2. QED
      BY <1>4, <1>5, <1>7, <1>8, <3>1 DEF Shown, TLINE, SlotText
  <2>4. QED
    BY <1>5, <2>1, <2>2, <2>3
<1>9. CASE y = scr
  <2>1. Shown(y) = RowText(0) /\ top = 0
    <3>1. y - scr = 0 /\ ~(y < scr)
      BY <1>2, <1>9
    <3>2. QED
      BY <3>1 DEF Shown, TLINE, RowText
  <2>2. Shown(y)' = SlotText(h)'
    <3>1. y < scr + 1 /\ ~(y < scr) /\ y + h - scr = h
      BY <1>2, <1>9 DEF Slots
    <3>2. h % H = h
      BY <1>2 DEF Slots
    <3>3. QED
      BY <1>4, <1>5, <1>7, <3>1, <3>2 DEF Shown, TLINE, SlotText
  <2>3. QED
    BY <1>5, <2>1, <2>2
<1>10. CASE y > scr
  <2>1. top = 0 /\ y - scr \in Rows /\ y - scr - 1 \in Rows /\ y - scr <= bottom /\ ~(y < scr)
    BY <1>2, <1>10
  <2>2. Shown(y) = RowText(y - scr)
    BY <2>1 DEF Shown, TLINE, RowText
  <2>3. PICK x \in Rows : x = y - scr - 1
    BY <2>1
  <2>4. Shown(y)' = RowText(x)'
    <3>1. ~(y < scr + 1) /\ y - (scr + 1) = x
      BY <1>2, <1>10, <2>3
    <3>2. QED
      BY <1>4, <3>1 DEF Shown, TLINE, RowText
  <2>5. RowText(x)' = RowText(x + 1) /\ x + 1 = y - scr
    BY <1>2, <1>5, <1>10, <2>1, <2>3
  <2>6. QED
    BY <2>2, <2>4, <2>5
<1>11. QED
  BY <1>2, <1>8, <1>9, <1>10

(* So the user reads on undisturbed, in a window and a ring of any size.   *)
THEOREM ViewKeepsItsLines == Spec => ViewSteady
<1>1. IInv => (LineFeed /\ histindex' # histindex /\ 0 < scr /\ scr < H - 1
               => \A y \in Rows : y < scr \/ (top = 0 /\ y - scr <= bottom)
                                   => Shown(y)' = Shown(y))
  BY FeedSteady
<1>2. QED
  BY SpecIInv, <1>1, PTL DEF ViewSteady
=============================================================================
