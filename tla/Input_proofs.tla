---------------------------- MODULE Input_proofs ----------------------------
(***************************************************************************)
(* Theorems about the two ways a user's input reaches the program.         *)
(*                                                                         *)
(* Paste: for every text, every size of a chunk and every way the owner    *)
(* cuts the text into pieces, a paste that is alone hands ttywrite the     *)
(* text, once and in order.  The inductive invariant is Held, the types    *)
(* and what every call of selnotify can rely on, and Alone: while no       *)
(* second paste began, what was written, the rest of the property and what *)
(* the owner still has are together the text (Balance), and everything     *)
(* that is underway belongs to one of the stages of a paste (Stage).       *)
(*                                                                         *)
(* Keyboard: for every table of bindings and every set of modifiers,       *)
(* sort_shortcuts sorts, and the search of kpress, which stops at the      *)
(* first greater keysym, misses no binding.                                *)
(***************************************************************************)
EXTENDS Keyboard, Paste, SequenceTheorems, WellFoundedInduction, TLAPS


\* A set of naturals has a least element.
LEMMA Least ==
  ASSUME NEW T \in SUBSET Nat, T # {}
  PROVE \E x \in T : \A y \in T : x <= y
<1> DEFINE R == OpToRel(<, Nat)
<1>1. IsWellFoundedOn(R, Nat)
  BY NatLessThanWellFounded
<1>2. \A x, y \in Nat : y < x => <<y, x>> \in R
  BY DEF OpToRel
<1> HIDE DEF R
<1>3. PICK x \in T : \A y \in T : ~ (<<y, x>> \in R)
  BY <1>1, WFMin
<1>4. \A y \in T : ~ (y < x)
  BY <1>2, <1>3
<1> QED
  BY <1>4

\* What holds for 1, and for i + 1 if it holds for i, holds up to n.
LEMMA UpTo ==
  ASSUME NEW n \in Nat, NEW G \in SUBSET Int, n > 0 => 1 \in G,
         \A i \in 1 .. n - 1 : i \in G => i + 1 \in G
  PROVE 1 .. n \subseteq G
<1> DEFINE T == {i \in 1 .. n : i \notin G}
<1> SUFFICES ASSUME T # {}
             PROVE FALSE
  OBVIOUS
<1>1. T \subseteq Nat
  OBVIOUS
<1>2. PICK x \in T : \A y \in T : x <= y
  BY <1>1, Least
<1>3. x # 1 /\ x \in 1 .. n
  BY <1>2
<1>4. x - 1 \notin T /\ x - 1 \in 1 .. n - 1
  BY <1>2, <1>3
<1>5. x - 1 \in G
  BY <1>3, <1>4
<1>6. (x - 1) + 1 \in G
  BY <1>4, <1>5
<1> QED
  BY <1>2, <1>3, <1>6

\* g[i] is the sum of the first i sequences of S, up to m.
IsSum(g, S, m) == g = [i \in 1 .. m |-> IF i = 1 THEN S[i] ELSE g[i - 1] \o S[i]]
IsFlat(g, S) == IsSum(g, S, Len(S))
HasSum(S, m) == \E g : IsSum(g, S, m)

\* FlattenSeq is a recursive function over a sequence of sequences: a function that
\* sums up to m extends to m + 1.
LEMMA SumExtends ==
  ASSUME NEW S, NEW m \in Nat \ {0}, HasSum(S, m)
  PROVE HasSum(S, m + 1)
<1>1. PICK g : IsSum(g, S, m)
  BY DEF HasSum
<1>2. \A i \in 1 .. m : g[i] = IF i = 1 THEN S[i] ELSE g[i - 1] \o S[i]
  BY <1>1 DEF IsSum
<1> DEFINE h == [i \in 1 .. m + 1 |-> IF i = m + 1 THEN g[m] \o S[m + 1] ELSE g[i]]
<1>3. /\ h = [i \in 1 .. m + 1 |-> h[i]]
      /\ \A i \in 1 .. m + 1 : h[i] = IF i = m + 1 THEN g[m] \o S[m + 1] ELSE g[i]
  OBVIOUS
<1> HIDE DEF h
<1>4. \A i \in 1 .. m + 1 : h[i] = IF i = 1 THEN S[i] ELSE h[i - 1] \o S[i]
  <2> SUFFICES ASSUME NEW i \in 1 .. m + 1
               PROVE h[i] = IF i = 1 THEN S[i] ELSE h[i - 1] \o S[i]
    OBVIOUS
  <2>1. CASE i = m + 1
    <3>1. m + 1 # 1 /\ (m + 1) - 1 = m /\ m + 1 \in 1 .. m + 1 /\ m \in 1 .. m + 1 /\ m # m + 1
      OBVIOUS
    <3>2. h[m] = g[m] /\ h[m + 1] = g[m] \o S[m + 1]
      BY <1>3, <3>1
    <3> QED
      BY <2>1, <3>1, <3>2
  <2>2. CASE i # m + 1
    <3>1. /\ i \in 1 .. m /\ i # m + 1
          /\ i # 1 => i - 1 \in 1 .. m + 1 /\ i - 1 # m + 1
      BY <2>2
    <3>2. h[i] = g[i] /\ (i # 1 => h[i - 1] = g[i - 1])
      BY <1>3, <3>1
    <3> QED
      BY <1>2, <3>1, <3>2
  <2> QED
    BY <2>1, <2>2
<1>5. IsSum(h, S, m + 1)
  BY <1>3, <1>4 DEF IsSum
<1> QED
  BY <1>5 DEF HasSum

\* The sums of a sequence's sequences exist.
LEMMA SumsExist ==
  ASSUME NEW S, Len(S) \in Nat \ {0}
  PROVE \E g : IsFlat(g, S)
<1> DEFINE n == Len(S)
           G == {m \in Nat : HasSum(S, m)}
<1>1. 1 \in G
  <2>1. IsSum([i \in 1 .. 1 |-> S[i]], S, 1)
    BY DEF IsSum
  <2> QED
    BY <2>1 DEF HasSum
<1>2. \A m \in 1 .. n - 1 : m \in G => m + 1 \in G
  BY SumExtends
<1>3. n \in 1 .. n /\ G \subseteq Int
  OBVIOUS
<1>4. n \in G
  <2> HIDE DEF G
  <2> QED
    BY <1>1, <1>2, <1>3, UpTo
<1> QED
  BY <1>4 DEF HasSum, IsFlat

\* FlattenSeq is the last of the sums.
LEMMA FlatSums ==
  ASSUME NEW S, Len(S) \in Nat \ {0}
  PROVE \E g : IsFlat(g, S) /\ FlattenSeq(S) = g[Len(S)]
<1> DEFINE g == CHOOSE g : IsFlat(g, S)
<1>1. IsFlat(g, S)
  BY SumsExist
<1>2. FlattenSeq(S) = g[Len(S)]
  BY DEF FlattenSeq, IsFlat, IsSum
<1> QED
  BY <1>1, <1>2

\* The recursion of FlattenSeq, and what it gives.
LEMMA SumStep ==
  ASSUME NEW S, NEW g, IsFlat(g, S), Len(S) \in Nat
  PROVE /\ Len(S) > 0 => g[1] = S[1]
        /\ \A i \in 1 .. Len(S) - 1 : g[i + 1] = g[i] \o S[i + 1]
<1>1. \A i \in 1 .. Len(S) : g[i] = IF i = 1 THEN S[i] ELSE g[i - 1] \o S[i]
  BY DEF IsFlat, IsSum
<1>2. ASSUME NEW i \in 1 .. Len(S) - 1
      PROVE g[i + 1] = g[i] \o S[i + 1]
  <2>1. i + 1 \in 1 .. Len(S) /\ i + 1 # 1 /\ (i + 1) - 1 = i
    OBVIOUS
  <2>2. g[i + 1] = g[(i + 1) - 1] \o S[i + 1]
    BY <1>1, <2>1
  <2> QED
    BY <2>1, <2>2
<1>3. ASSUME Len(S) > 0
      PROVE g[1] = S[1]
  <2>1. 1 \in 1 .. Len(S)
    BY <1>3
  <2> QED
    BY <1>1, <2>1
<1> QED
  BY <1>2, <1>3

\* The sum of sequences over A is a sequence over A.
LEMMA FlatTyped ==
  ASSUME NEW A, NEW S \in Seq(Seq(A))
  PROVE FlattenSeq(S) \in Seq(A)
<1>0. Len(S) \in Nat /\ \A i \in 1 .. Len(S) : S[i] \in Seq(A)
  BY ElementOfSeq, LenProperties
<1>1. CASE Len(S) = 0
  BY <1>1, EmptySeq DEF FlattenSeq
<1>2. CASE Len(S) > 0
  <2>1. PICK g : IsFlat(g, S) /\ FlattenSeq(S) = g[Len(S)]
    BY <1>0, <1>2, FlatSums
  <2>0. g[1] = S[1] /\ \A i \in 1 .. Len(S) - 1 : g[i + 1] = g[i] \o S[i + 1]
    BY <1>0, <1>2, <2>1, SumStep, Zenon
  <2> DEFINE G == {i \in 1 .. Len(S) : g[i] \in Seq(A)}
  <2>2. 1 \in G
    <3>1. 1 \in 1 .. Len(S)
      BY <1>0, <1>2
    <3> QED
      BY <1>0, <2>0, <3>1
  <2>3. ASSUME NEW i \in 1 .. Len(S) - 1, i \in G
        PROVE i + 1 \in G
    <3>1. i + 1 \in 1 .. Len(S)
      BY <1>0
    <3>2. g[i + 1] = g[i] \o S[i + 1]
      BY <2>0
    <3>3. g[i + 1] \in Seq(A)
      BY <1>0, <2>3, <3>1, <3>2, ConcatProperties
    <3> QED
      BY <3>1, <3>3
  <2>4. G \subseteq Int /\ Len(S) \in 1 .. Len(S)
    BY <1>0, <1>2
  <2>5. Len(S) \in G
    <3> HIDE DEF G
    <3> QED
      BY <1>0, <2>2, <2>3, <2>4, UpTo
  <2> QED
    BY <2>1, <2>5
<1> QED
  BY <1>0, <1>1, <1>2

\* One more summand adds itself at the end.
LEMMA FlatAppend ==
  ASSUME NEW A, NEW S \in Seq(Seq(A)), NEW e \in Seq(A)
  PROVE FlattenSeq(Append(S, e)) = FlattenSeq(S) \o e
<1> DEFINE n == Len(S)
           T == Append(S, e)
<1>0. /\ n \in Nat /\ Len(T) = n + 1 /\ T[n + 1] = e
      /\ \A i \in 1 .. n : T[i] = S[i]
  BY AppendProperties, LenProperties
<1> HIDE DEF T
<1>1. PICK h : IsFlat(h, T) /\ FlattenSeq(T) = h[n + 1]
  BY <1>0, FlatSums
<1> DEFINE Steps(f, Q) == \A i \in 1 .. Len(Q) - 1 : f[i + 1] = f[i] \o Q[i + 1]
<1>4. h[1] = T[1] /\ Steps(h, T)
  <2>1. Len(T) \in Nat /\ Len(T) > 0
    BY <1>0
  <2> QED
    BY <1>1, <2>1, SumStep, Zenon
<1>2. CASE n = 0
  <2>1. S = <<>>
    BY <1>2, EmptySeq
  <2>2. FlattenSeq(S) = <<>>
    BY <1>2, <2>1 DEF FlattenSeq
  <2>4. FlattenSeq(T) = e
    BY <1>0, <1>1, <1>4, <1>2
  <2>5. <<>> \o e = e
    OBVIOUS
  <2> QED
    BY <2>2, <2>4, <2>5 DEF T
<1>3. CASE n > 0
  <2>1. PICK g : IsFlat(g, S) /\ FlattenSeq(S) = g[n]
    BY <1>0, <1>3, FlatSums
  <2>6. g[1] = S[1] /\ Steps(g, S)
    BY <1>0, <1>3, <2>1, SumStep, Zenon
  <2> DEFINE G == {i \in 1 .. n : h[i] = g[i]}
  <2>2. 1 \in G
    <3>1. 1 \in 1 .. n
      BY <1>0, <1>3
    <3> QED
      BY <1>0, <1>4, <2>6, <3>1
  <2>3. ASSUME NEW i \in 1 .. n - 1, i \in G
        PROVE i + 1 \in G
    <3>1. i + 1 \in 1 .. n /\ i \in 1 .. Len(S) - 1 /\ i \in 1 .. Len(T) - 1
      BY <1>0
    <3>2. g[i + 1] = g[i] \o S[i + 1] /\ h[i + 1] = h[i] \o T[i + 1]
      BY <1>4, <2>6, <3>1
    <3>3. T[i + 1] = S[i + 1]
      BY <1>0, <3>1
    <3> QED
      BY <2>3, <3>1, <3>2, <3>3
  <2>4. n \in G
    <3>1. G \subseteq Int /\ n \in 1 .. n
      BY <1>0, <1>3
    <3> HIDE DEF G
    <3> QED
      BY <1>0, <2>2, <2>3, <3>1, UpTo
  <2>5. h[n + 1] = h[n] \o T[n + 1]
    <3>1. n \in 1 .. Len(T) - 1
      BY <1>0, <1>3
    <3> QED
      BY <1>4, <3>1
  <2> QED
    BY <1>0, <1>1, <2>1, <2>4, <2>5 DEF T
<1> QED
  BY <1>0, <1>2, <1>3

-----------------------------------------------------------------------------
(***************************************************************************)
(* What ttywrite sends, and what Undone makes of it, token by token.       *)
(***************************************************************************)
\* What one more token adds to what ttywrite sends.
W(c) == IF MODE_CRLF \in winmode /\ c = "cr" THEN <<"cr", "lf">> ELSE <<c>>

\* And to Undone, typed if it follows the mark of a key.
Back(c, typed) ==
  CASE c = "u"  -> <<"lead", "cont">>
    [] c = "cr" -> IF typed THEN <<>> ELSE <<"nl">>
    [] c \in {"lf", "start", "end", "key"} -> <<>>
    [] OTHER -> <<c>>

KeyLast(s) == s # <<>> /\ s[Len(s)] = "key"

LEMMA SingleSeq ==
  ASSUME NEW A, NEW c \in A
  PROVE <<c>> \in Seq(A)
OBVIOUS

LEMMA FunctionSeq ==
  ASSUME NEW B, NEW n \in Nat, NEW f \in [1 .. n -> B]
  PROVE f \in Seq(B) /\ Len(f) = n
OBVIOUS

\* ttywrite sends byte after byte.
LEMMA TtyAppend ==
  ASSUME NEW A, {"cr", "lf"} \subseteq A, NEW w \in Seq(A), NEW c \in A
  PROVE ttywrite(w) \in Seq(A) /\ ttywrite(Append(w, c)) = ttywrite(w) \o W(c)
<1>1. CASE MODE_CRLF \notin winmode
  <2>1. Append(w, c) = w \o <<c>>
    OBVIOUS
  <2> QED
    BY <1>1, <2>1 DEF ttywrite, W
<1>2. CASE MODE_CRLF \in winmode
  <2> DEFINE P(x) == IF x = "cr" THEN <<"cr", "lf">> ELSE <<x>>
             S == [k \in DOMAIN w |-> P(w[k])]
             T == [k \in DOMAIN Append(w, c) |-> P(Append(w, c)[k])]
  <2>1. \A x \in A : P(x) \in Seq(A)
    BY SingleSeq
  <2>2. W(c) = P(c)
    BY <1>2 DEF W
  <2>3. ttywrite(w) = FlattenSeq(S) /\ ttywrite(Append(w, c)) = FlattenSeq(T)
    BY <1>2 DEF ttywrite
  <2> HIDE DEF P
  <2>4. /\ Len(w) \in Nat /\ DOMAIN w = 1 .. Len(w)
        /\ \A k \in 1 .. Len(w) : w[k] \in A
        /\ DOMAIN Append(w, c) = 1 .. Len(w) + 1
        /\ \A k \in 1 .. Len(w) + 1 : Append(w, c)[k] = IF k <= Len(w) THEN w[k] ELSE c
    BY ElementOfSeq, LenProperties, AppendProperties
  <2>5. S \in Seq(Seq(A)) /\ Len(S) = Len(w)
    <3>1. S \in [1 .. Len(w) -> Seq(A)]
      BY <2>1, <2>4
    <3> QED
      BY <2>4, <3>1, FunctionSeq
  <2>6. T = Append(S, P(c))
    <3>0. ASSUME NEW k \in 1 .. Len(w) + 1
          PROVE Append(w, c)[k] \in A
      <4>1. k <= Len(w) => k \in 1 .. Len(w)
        BY <2>4
      <4> QED
        BY <2>4, <4>1
    <3>1. T \in [1 .. Len(w) + 1 -> Seq(A)]
      <4> DEFINE v == Append(w, c)
                 m == Len(w) + 1
      <4>1. DOMAIN v = 1 .. m /\ \A k \in 1 .. m : P(v[k]) \in Seq(A)
        BY <2>1, <2>4, <3>0
      <4>2. T = [k \in DOMAIN v |-> P(v[k])]
        OBVIOUS
      <4> HIDE DEF v, m, T
      <4>3. T \in [1 .. m -> Seq(A)]
        BY <4>1, <4>2
      <4> QED
        BY <4>3 DEF m
    <3>2. T \in Seq(Seq(A)) /\ Len(T) = Len(w) + 1
      <4>1. Len(w) + 1 \in Nat
        BY <2>4
      <4> HIDE DEF T
      <4> QED
        BY <3>1, <4>1, FunctionSeq
    <3>3. /\ Append(S, P(c)) \in Seq(Seq(A)) /\ Len(Append(S, P(c))) = Len(w) + 1
          /\ \A k \in 1 .. Len(w) + 1 :
               Append(S, P(c))[k] = IF k <= Len(w) THEN S[k] ELSE P(c)
      <4> DEFINE e == P(c)
      <4>1. e \in Seq(A)
        BY <2>1
      <4> HIDE DEF S, e
      <4>2. /\ Append(S, e) \in Seq(Seq(A)) /\ Len(Append(S, e)) = Len(w) + 1
            /\ \A k \in 1 .. Len(w) + 1 :
                 Append(S, e)[k] = IF k <= Len(w) THEN S[k] ELSE e
        BY <2>4, <2>5, <4>1, AppendProperties
      <4> QED
        BY <4>2 DEF e
    <3>4. \A k \in 1 .. Len(w) + 1 : T[k] = IF k <= Len(w) THEN S[k] ELSE P(c)
      <4> SUFFICES ASSUME NEW k \in 1 .. Len(w) + 1
                   PROVE T[k] = IF k <= Len(w) THEN S[k] ELSE P(c)
        OBVIOUS
      <4>1. T[k] = P(Append(w, c)[k])
        BY <2>4
      <4>2. CASE k <= Len(w)
        <5>1. k \in 1 .. Len(w) /\ Append(w, c)[k] = w[k]
          BY <2>4, <4>2
        <5>2. S[k] = P(w[k])
          BY <2>4, <5>1
        <5> HIDE DEF S, T
        <5> QED
          BY <4>1, <4>2, <5>1, <5>2
      <4>3. CASE ~ (k <= Len(w))
        <5>1. Append(w, c)[k] = c
          BY <2>4, <4>3
        <5> HIDE DEF S, T
        <5> QED
          BY <4>1, <4>3, <5>1
      <4> HIDE DEF S, T
      <4> QED
        BY <4>2, <4>3
    <3>5. \A k \in 1 .. Len(w) + 1 : T[k] = Append(S, P(c))[k]
      BY <3>3, <3>4
    <3> HIDE DEF S, T
    <3> QED
      BY <3>2, <3>3, <3>5, SeqEqual
  <2> HIDE DEF S, T
  <2>7. P(c) \in Seq(A)
    BY <2>1
  <2> QED
    BY <2>2, <2>3, <2>5, <2>6, <2>7, FlatAppend, FlatTyped
<1> QED
  BY <1>1, <1>2

\* A token that is sent gives back its own bytes, a carriage return by what is before it.
LEMMA UndoneAppend ==
  ASSUME NEW s \in Seq(Tokens), NEW c \in Tokens
  PROVE /\ Undone(s) \in Seq(Bytes)
        /\ Undone(Append(s, c)) = Undone(s) \o Back(c, KeyLast(s))
<1> DEFINE P(q, k) == CASE q[k] = "u"  -> <<"lead", "cont">>
                        [] q[k] = "cr" -> IF Typed(q, k) THEN <<>> ELSE <<"nl">>
                        [] q[k] \in {"lf", "start", "end", "key"} -> <<>>
                        [] OTHER -> <<q[k]>>
           q1 == Append(s, c)
           n == Len(s)
           S == [k \in DOMAIN s |-> P(s, k)]
           T == [k \in DOMAIN q1 |-> P(q1, k)]
<1>1. Undone(s) = FlattenSeq(S) /\ Undone(q1) = FlattenSeq(T)
  BY DEF Undone
<1>2. /\ n \in Nat /\ DOMAIN s = 1 .. n
      /\ \A k \in 1 .. n : s[k] \in Tokens
      /\ DOMAIN q1 = 1 .. n + 1
      /\ \A k \in 1 .. n + 1 : q1[k] = IF k <= n THEN s[k] ELSE c
  BY ElementOfSeq, LenProperties, AppendProperties
<1> HIDE DEF q1
<1>3. ASSUME NEW q, NEW k, q[k] \in Tokens
      PROVE P(q, k) = Back(q[k], Typed(q, k)) /\ P(q, k) \in Seq(Bytes)
  <2>1. P(q, k) = Back(q[k], Typed(q, k))
    BY DEF Back
  <2>2. <<"lead", "cont">> \in Seq(Bytes) /\ <<>> \in Seq(Bytes) /\ <<"nl">> \in Seq(Bytes)
    BY DEF Bytes
  <2>3. q[k] \in Bytes => <<q[k]>> \in Seq(Bytes)
    BY SingleSeq
  <2>4. q[k] \in Bytes \/ q[k] \in {"u", "cr", "lf", "start", "end", "key"}
    BY <1>3 DEF Tokens, Bytes
  <2> QED
    BY <2>1, <2>2, <2>3, <2>4
<1>4. \A k \in 1 .. n : Typed(q1, k) = Typed(s, k)
  BY <1>2 DEF Typed
<1>5. Typed(q1, n + 1) = KeyLast(s)
  BY <1>2, EmptySeq DEF Typed, KeyLast
<1>6. /\ \A k \in 1 .. n : S[k] \in Seq(Bytes) /\ T[k] = S[k]
      /\ T[n + 1] = Back(c, KeyLast(s)) /\ T[n + 1] \in Seq(Bytes)
  <2>1. ASSUME NEW k \in 1 .. n
        PROVE S[k] \in Seq(Bytes) /\ T[k] = S[k]
    <3>1. s[k] \in Tokens /\ q1[k] = s[k] /\ k \in DOMAIN q1 /\ k \in DOMAIN s
      BY <1>2
    <3>2. P(s, k) \in Seq(Bytes) /\ P(s, k) = Back(s[k], Typed(s, k))
          /\ P(q1, k) = Back(q1[k], Typed(q1, k))
      BY <1>3, <3>1
    <3> HIDE DEF P
    <3> QED
      BY <1>4, <3>1, <3>2
  <2>2. q1[n + 1] = c /\ n + 1 \in DOMAIN q1
    BY <1>2
  <2>3. P(q1, n + 1) = Back(c, KeyLast(s)) /\ P(q1, n + 1) \in Seq(Bytes)
    BY <1>3, <1>5, <2>2
  <2> HIDE DEF P
  <2> QED
    BY <2>1, <2>2, <2>3
<1> HIDE DEF P
<1>7. /\ S \in Seq(Seq(Bytes)) /\ Len(S) = n
      /\ T \in Seq(Seq(Bytes)) /\ Len(T) = n + 1
  <2>1. S \in [1 .. n -> Seq(Bytes)]
    BY <1>2, <1>6
  <2>2. ASSUME NEW k \in 1 .. n + 1
        PROVE T[k] \in Seq(Bytes)
    <3>1. k \in 1 .. n \/ k = n + 1
      BY <1>2
    <3> HIDE DEF S, T
    <3> QED
      BY <1>6, <3>1
  <2>3. T \in [1 .. n + 1 -> Seq(Bytes)]
    BY <1>2, <2>2
  <2>4. n + 1 \in Nat
    BY <1>2
  <2> HIDE DEF S, T
  <2> QED
    BY <1>2, <2>1, <2>3, <2>4, FunctionSeq
<1> DEFINE e == Back(c, KeyLast(s))
<1>8. e \in Seq(Bytes)
  BY <1>6
<1> HIDE DEF S, T, e
<1>9. T = Append(S, e)
  <2>1. /\ Append(S, e) \in Seq(Seq(Bytes)) /\ Len(Append(S, e)) = n + 1
        /\ \A k \in 1 .. n + 1 : Append(S, e)[k] = IF k <= n THEN S[k] ELSE e
    BY <1>2, <1>7, <1>8, AppendProperties
  <2>2. \A k \in 1 .. n + 1 : T[k] = IF k <= n THEN S[k] ELSE e
    BY <1>2, <1>6 DEF e
  <2>3. \A k \in 1 .. n + 1 : T[k] = Append(S, e)[k]
    BY <2>1, <2>2
  <2> QED
    BY <1>7, <2>1, <2>3, SeqEqual
<1> QED
  BY <1>1, <1>7, <1>8, <1>9, FlatAppend, FlatTyped DEF q1, e

Plain == Tokens \ {"key"}

LEMMA AppendPair ==
  ASSUME NEW A, NEW s \in Seq(A), NEW a \in A, NEW b \in A
  PROVE s \o <<a, b>> = Append(Append(s, a), b) /\ <<a, b>> \in Seq(A)
<1>1. <<a, b>> = <<a>> \o <<b>> /\ <<a>> \in Seq(A) /\ <<b>> \in Seq(A) /\ <<a, b>> \in Seq(A)
  <2>1. <<a>> \in Seq(A) /\ <<b>> \in Seq(A) /\ <<a, b>> \in Seq(A)
    OBVIOUS
  <2>2. <<a>> \o <<b>> = Append(<<a>>, b)
    BY <2>1
  <2>3. Len(Append(<<a>>, b)) = 2 /\ Append(<<a>>, b)[1] = a /\ Append(<<a>>, b)[2] = b
    OBVIOUS
  <2>4. Append(<<a>>, b) \in Seq(A) /\ Len(<<a, b>>) = 2
    BY <2>1, AppendProperties
  <2>5. \A i \in 1 .. 2 : Append(<<a>>, b)[i] = <<a, b>>[i]
    <3> SUFFICES ASSUME NEW i \in 1 .. 2
                 PROVE Append(<<a>>, b)[i] = <<a, b>>[i]
      OBVIOUS
    <3>1. i = 1 \/ i = 2
      OBVIOUS
    <3> QED
      BY <2>3, <3>1
  <2>6. Append(<<a>>, b) = <<a, b>>
    BY <2>1, <2>3, <2>4, <2>5, SeqEqual
  <2> QED
    BY <2>1, <2>2, <2>6
<1>2. (s \o <<a>>) \o <<b>> = s \o (<<a>> \o <<b>>)
  BY <1>1, ConcatAssociative
<1>3. s \o <<a>> = Append(s, a) /\ Append(s, a) \in Seq(A)
  OBVIOUS
<1>4. Append(s, a) \o <<b>> = Append(Append(s, a), b)
  BY <1>3
<1> QED
  BY <1>1, <1>2, <1>3, <1>4

\* Joining byte sequences, in a form in which it applies by matching.
LEMMA Regroup ==
  \A x, y, z \in Seq(Bytes) : (x \o y) \o z = x \o (y \o z)
BY ConcatAssociative, SMTT(40)

\* A beginning of s, one place longer.
LEMMA PrefixGrows ==
  ASSUME NEW A, NEW s \in Seq(A), NEW j \in 1 .. Len(s)
  PROVE /\ SubSeq(s, 1, j - 1) \in Seq(A) /\ s[j] \in A
        /\ SubSeq(s, 1, j - 1) \o <<s[j]>> = SubSeq(s, 1, j)
<1>1. Len(s) \in Nat /\ 1 \in 1 .. Len(s)
  BY LenProperties
<1>2. SubSeq(s, 1, j) = SubSeq(s, 1, j - 1) \o <<s[j]>>
  BY <1>1, SubSeqRecursiveSecond
<1> QED
  BY <1>1, <1>2, ElementOfSeq, SubSeqProperties

LEMMA TtyNothing == ttywrite(<<>>) = <<>>
<1>1. ASSUME NEW e, e = <<>>
      PROVE [k \in DOMAIN e |-> IF e[k] = "cr" THEN <<"cr", "lf">> ELSE <<e[k]>>] = <<>>
  <2>1. DOMAIN e = 1 .. 0
    BY <1>1
  <2> DEFINE f == [k \in DOMAIN e |-> IF e[k] = "cr" THEN <<"cr", "lf">> ELSE <<e[k]>>]
  <2>2. f \in [1 .. 0 -> {}]
    BY <2>1
  <2> HIDE DEF f
  <2>3. f \in Seq({}) /\ Len(f) = 0
    BY <2>2, FunctionSeq
  <2> QED
    BY <2>3, EmptySeq DEF f
<1>2. FlattenSeq(<<>>) = <<>>
  BY DEF FlattenSeq
<1> QED
  BY <1>1, <1>2, Zenon DEF ttywrite

\* One more token behind others that were written.
LEMMA WriteOne ==
  ASSUME NEW s \in Seq(Tokens), ~KeyLast(s), NEW w \in Seq(Plain), NEW c \in Plain
  PROVE /\ s \o ttywrite(w) \in Seq(Tokens) /\ ~KeyLast(s \o ttywrite(w))
        /\ Undone(s \o ttywrite(Append(w, c))) = Undone(s \o ttywrite(w)) \o Back(c, FALSE)
<1> DEFINE t == ttywrite(w)
           v == s \o t
<1>1. t \in Seq(Plain) /\ ttywrite(Append(w, c)) = t \o W(c)
  <2>1. {"cr", "lf"} \subseteq Plain
    BY DEF Plain, Tokens
  <2> QED
    BY <2>1, TtyAppend
<1> HIDE DEF t
<1>2. t \in Seq(Tokens)
  <2>1. Plain \subseteq Tokens
    BY DEF Plain
  <2> QED
    BY <1>1, <2>1, SeqMonotonic
<1>3. v \in Seq(Tokens) /\ Len(v) = Len(s) + Len(t) /\ Len(s) \in Nat /\ Len(t) \in Nat
  BY <1>2, ConcatProperties, LenProperties
<1>4. ~KeyLast(v)
  <2>1. CASE Len(t) = 0
    <3>1. t = <<>>
      BY <1>2, <2>1, EmptySeq
    <3>2. v = s
      BY <3>1
    <3> QED
      BY <3>2
  <2>2. CASE Len(t) > 0
    <3>1. v[Len(v)] = t[Len(t)]
      BY <1>2, <1>3, <2>2, ConcatProperties
    <3>2. t[Len(t)] \in Plain
      BY <1>1, <1>3, <2>2, ElementOfSeq
    <3> QED
      BY <3>1, <3>2 DEF KeyLast, Plain
  <2> QED
    BY <1>3, <2>1, <2>2
<1>5. W(c) \in Seq(Tokens) /\ c \in Tokens
  <2>1. "cr" \in Tokens /\ "lf" \in Tokens /\ c \in Tokens
    BY DEF Plain, Tokens
  <2>2. <<"cr", "lf">> \in Seq(Tokens) /\ <<c>> \in Seq(Tokens)
    BY <2>1
  <2> QED
    BY <2>1, <2>2 DEF W
<1>6. s \o (t \o W(c)) = v \o W(c)
  BY <1>2, <1>5, ConcatAssociative, SMTT(40)
<1> HIDE DEF v
<1>7. CASE W(c) = <<c>>
  <2>1. v \o W(c) = Append(v, c)
    BY <1>3, <1>7
  <2>2. Undone(Append(v, c)) = Undone(v) \o Back(c, KeyLast(v))
    BY <1>3, <1>5, UndoneAppend
  <2>3. Back(c, KeyLast(v)) = Back(c, FALSE)
    BY <1>4 DEF Back
  <2> QED
    BY <1>1, <1>3, <1>4, <1>6, <2>1, <2>2, <2>3, Zenon DEF v, t
<1>8. CASE c = "cr" /\ W(c) = <<"cr", "lf">>
  <2> DEFINE x == Append(v, "cr")
  <2>2. "lf" \in Tokens /\ "cr" \in Tokens
    BY DEF Tokens
  <2>1. v \o W(c) = Append(x, "lf")
    <3>1. v \o <<"cr", "lf">> = Append(Append(v, "cr"), "lf")
      BY <1>3, <2>2, AppendPair
    <3> QED
      BY <1>8, <3>1
  <2>3. Undone(x) = Undone(v) \o Back(c, FALSE)
    <3>1. Undone(x) = Undone(v) \o Back("cr", KeyLast(v))
      BY <1>3, <2>2, UndoneAppend
    <3>2. Back("cr", KeyLast(v)) = Back(c, FALSE)
      BY <1>4, <1>8 DEF Back
    <3> QED
      BY <3>1, <3>2
  <2>4. x \in Seq(Tokens)
    BY <1>3, <2>2, AppendProperties
  <2> HIDE DEF x
  <2>5. Undone(Append(x, "lf")) = Undone(x) \o Back("lf", KeyLast(x)) /\ Undone(x) \in Seq(Bytes)
    BY <2>2, <2>4, UndoneAppend
  <2>6. Back("lf", KeyLast(x)) = <<>>
    BY DEF Back
  <2>7. Undone(x) \o <<>> = Undone(x)
    BY <2>5
  <2> QED
    BY <1>1, <1>3, <1>4, <1>6, <2>1, <2>3, <2>5, <2>6, <2>7, Zenon DEF v, t
<1> QED
  BY <1>7, <1>8 DEF W

\* from_utf8, piece by piece.
Starts(d, k) == d[k] = "lead" /\ k < Len(d) /\ d[k + 1] = "cont"
Ends(d, k)   == k > 1 /\ Starts(d, k - 1)
Piece(d, k)  == CASE Ends(d, k)   -> <<>>
                  [] Starts(d, k) -> <<"u">>
                  [] d[k] = "nl"  -> <<"cr">>
                  [] OTHER        -> <<d[k]>>
Covered(d, k) == IF Starts(d, k) THEN k + 1 ELSE k

\* What from_utf8 makes of one byte.
LEMMA PieceCases ==
  ASSUME NEW d, NEW k \in Int
  PROVE /\ Ends(d, k) => Piece(d, k) = <<>> /\ ~Starts(d, k) /\ d[k] = "cont"
        /\ ~Ends(d, k) /\ Starts(d, k) => Piece(d, k) = <<"u">>
        /\ ~Ends(d, k) /\ ~Starts(d, k) /\ d[k] = "nl" => Piece(d, k) = <<"cr">>
        /\ ~Ends(d, k) /\ ~Starts(d, k) /\ d[k] # "nl" => Piece(d, k) = <<d[k]>>
<1>1. (k - 1) + 1 = k
  OBVIOUS
<1>2. Ends(d, k) => d[k] = "cont"
  BY <1>1 DEF Ends, Starts
<1>3. Starts(d, k) => d[k] = "lead"
  BY DEF Starts
<1> QED
  BY <1>2, <1>3 DEF Piece

LEMMA Converted ==
  ASSUME NEW d \in Seq(Bytes)
  PROVE from_utf8(d) = FlattenSeq([k \in DOMAIN d |-> Piece(d, k)])
BY DEF from_utf8, Piece, Starts, Ends

\* The next byte of the chunk, converted and sent, adds its own bytes and no others: a
\* first half stands for its whole character, the second half then for nothing.
LEMMA PieceWrites ==
  ASSUME NEW s \in Seq(Tokens), ~KeyLast(s), NEW d \in Seq(Bytes),
         NEW w \in Seq(Plain), NEW j \in 1 .. Len(d), ~Ends(d, j),
         Undone(s \o ttywrite(w)) = Undone(s) \o SubSeq(d, 1, j - 1)
  PROVE /\ w \o Piece(d, j) \in Seq(Plain)
        /\ Undone(s \o ttywrite(w \o Piece(d, j))) = Undone(s) \o SubSeq(d, 1, Covered(d, j))
<1>0. /\ Len(d) \in Nat /\ d[j] \in Bytes /\ Undone(s) \in Seq(Bytes)
      /\ SubSeq(d, 1, j - 1) \in Seq(Bytes)
  <2>1. "a" \in Tokens
    BY DEF Tokens
  <2> QED
    BY <2>1, LenProperties, ElementOfSeq, UndoneAppend, PrefixGrows
<1>1. PICK c \in Plain : /\ Piece(d, j) = <<c>>
                         /\ Back(c, FALSE) = IF Starts(d, j) THEN <<"lead", "cont">> ELSE <<d[j]>>
  <2>1. CASE Starts(d, j)
    <3>1. Piece(d, j) = <<"u">>
      BY <2>1, PieceCases
    <3>2. Back("u", FALSE) = <<"lead", "cont">> /\ "u" \in Plain
      BY DEF Back, Plain, Tokens
    <3> QED
      BY <2>1, <3>1, <3>2
  <2>2. CASE ~Starts(d, j) /\ d[j] = "nl"
    <3>1. Piece(d, j) = <<"cr">>
      BY <2>2, PieceCases
    <3>2. Back("cr", FALSE) = <<"nl">> /\ "cr" \in Plain
      BY DEF Back, Plain, Tokens
    <3> QED
      BY <2>2, <3>1, <3>2
  <2>3. CASE ~Starts(d, j) /\ d[j] # "nl"
    <3>1. d[j] \in {"a", "lead", "cont"}
      BY <1>0, <2>3 DEF Bytes
    <3>2. d[j] \in Plain /\ Back(d[j], FALSE) = <<d[j]>>
      BY <3>1 DEF Back, Plain, Tokens
    <3>3. Piece(d, j) = <<d[j]>>
      BY <2>3, PieceCases
    <3> QED
      BY <2>3, <3>2, <3>3
  <2> QED
    BY <2>1, <2>2, <2>3
<1>2. w \o Piece(d, j) = Append(w, c) /\ Append(w, c) \in Seq(Plain)
  BY <1>1, AppendProperties
<1>3. Undone(s \o ttywrite(Append(w, c))) = (Undone(s) \o SubSeq(d, 1, j - 1)) \o Back(c, FALSE)
  BY WriteOne
<1>4. SubSeq(d, 1, j - 1) \o Back(c, FALSE) = SubSeq(d, 1, Covered(d, j))
  <2>1. CASE Starts(d, j)
    <3>1. d[j] = "lead" /\ d[j + 1] = "cont" /\ j + 1 \in 1 .. Len(d)
      BY <1>0, <2>1 DEF Starts
    <3>2. Back(c, FALSE) = <<d[j], d[j + 1]>>
      BY <1>1, <2>1, <3>1
    <3>3. SubSeq(d, 1, (j + 1) - 1) \o <<d[j + 1]>> = SubSeq(d, 1, j + 1) /\ d[j + 1] \in Bytes
      BY <3>1, PrefixGrows
    <3>4. SubSeq(d, 1, j - 1) \o <<d[j]>> = SubSeq(d, 1, j)
      BY PrefixGrows
    <3>5. (j + 1) - 1 = j
      OBVIOUS
    <3> DEFINE q == SubSeq(d, 1, j - 1)
    <3>6. q \o <<d[j]>> = Append(q, d[j]) /\ Append(q, d[j]) \in Seq(Bytes)
      BY <1>0
    <3>7. Append(q, d[j]) \o <<d[j + 1]>> = Append(Append(q, d[j]), d[j + 1])
      BY <3>3, <3>6
    <3>8. q \o <<d[j], d[j + 1]>> = Append(Append(q, d[j]), d[j + 1])
      BY <1>0, <3>3, AppendPair, SMTT(40)
    <3>9. SubSeq(d, 1, j + 1) = q \o <<d[j], d[j + 1]>>
      BY <3>3, <3>4, <3>5, <3>6, <3>7, <3>8
    <3> QED
      BY <2>1, <3>2, <3>9 DEF Covered
  <2>2. CASE ~Starts(d, j)
    <3>1. SubSeq(d, 1, j - 1) \o <<d[j]>> = SubSeq(d, 1, j)
      BY PrefixGrows
    <3> QED
      BY <1>1, <2>2, <3>1 DEF Covered
  <2> QED
    BY <2>1, <2>2
<1>5. Back(c, FALSE) \in Seq(Bytes)
  <2>1. <<"lead", "cont">> \in Seq(Bytes)
    BY DEF Bytes
  <2>2. <<d[j]>> \in Seq(Bytes)
    BY <1>0
  <2> QED
    BY <1>1, <2>1, <2>2
<1>6. (Undone(s) \o SubSeq(d, 1, j - 1)) \o Back(c, FALSE)
        = Undone(s) \o (SubSeq(d, 1, j - 1) \o Back(c, FALSE))
  <2> DEFINE x == Undone(s)
             y == SubSeq(d, 1, j - 1)
             z == Back(c, FALSE)
  <2>1. x \in Seq(Bytes) /\ y \in Seq(Bytes) /\ z \in Seq(Bytes)
    BY <1>0, <1>5
  <2> HIDE DEF x, y, z
  <2>2. (x \o y) \o z = x \o (y \o z)
    BY <2>1, Regroup
  <2> QED
    BY <2>2 DEF x, y, z
<1> QED
  BY <1>2, <1>3, <1>4, <1>6

\* What is pasted, converted and sent, gives the bytes of the text back.
LEMMA PasteWrites ==
  ASSUME NEW s \in Seq(Tokens), ~KeyLast(s), NEW d \in Seq(Bytes)
  PROVE /\ s \o ttywrite(from_utf8(d)) \in Seq(Tokens) /\ ~KeyLast(s \o ttywrite(from_utf8(d)))
        /\ Undone(s \o ttywrite(from_utf8(d))) = Undone(s) \o d
<1> DEFINE n == Len(d)
           S == [k \in DOMAIN d |-> Piece(d, k)]
<1>0. /\ n \in Nat /\ DOMAIN d = 1 .. n
      /\ \A k \in 1 .. n : d[k] \in Bytes
      /\ Undone(s) \in Seq(Bytes)
  <2>1. "a" \in Tokens
    BY DEF Tokens
  <2> QED
    BY <2>1, LenProperties, ElementOfSeq, UndoneAppend
<1>1. from_utf8(d) = FlattenSeq(S)
  BY Converted
<1>2. DOMAIN S = 1 .. n /\ \A k \in 1 .. n : S[k] = Piece(d, k)
  BY <1>0
<1>3. \A k \in 1 .. n : S[k] \in Seq(Plain)
  <2> SUFFICES ASSUME NEW k \in 1 .. n
               PROVE Piece(d, k) \in Seq(Plain)
    BY <1>2
  <2>1. "u" \in Plain /\ "cr" \in Plain /\ d[k] \in Plain
    BY <1>0 DEF Plain, Tokens, Bytes
  <2>2. <<>> \in Seq(Plain) /\ <<"u">> \in Seq(Plain) /\ <<"cr">> \in Seq(Plain) /\ <<d[k]>> \in Seq(Plain)
    BY <2>1
  <2> QED
    BY <2>2 DEF Piece
<1>4. S \in Seq(Seq(Plain)) /\ Len(S) = n
  <2>1. S \in [1 .. n -> Seq(Plain)]
    BY <1>0, <1>2, <1>3
  <2> HIDE DEF S
  <2> QED
    BY <1>0, <2>1, FunctionSeq
<1> HIDE DEF S
<1> DEFINE Good(w, k) == /\ w \in Seq(Plain)
                         /\ Undone(s \o ttywrite(w)) = Undone(s) \o SubSeq(d, 1, Covered(d, k))
<1>5. \E w : w = from_utf8(d) /\ w \in Seq(Plain) /\ Undone(s \o ttywrite(w)) = Undone(s) \o d
  <2>1. CASE n = 0
    <3>1. d = <<>> /\ S = <<>>
      BY <1>4, <2>1, EmptySeq
    <3>2. FlattenSeq(<<>>) = <<>>
      BY DEF FlattenSeq
    <3>3. s \o <<>> = s /\ Undone(s) \o <<>> = Undone(s) /\ <<>> \in Seq(Plain)
      BY <1>0
    <3> QED
      BY <1>1, <3>1, <3>2, <3>3, TtyNothing
  <2>2. CASE n > 0
    <3>1. PICK g : IsFlat(g, S) /\ FlattenSeq(S) = g[n]
      <4>1. Len(S) \in Nat \ {0}
        BY <1>0, <1>4, <2>2
      <4>2. PICK g : IsFlat(g, S) /\ FlattenSeq(S) = g[Len(S)]
        BY <4>1, FlatSums
      <4> QED
        BY <1>4, <4>2
    <3>2. g[1] = S[1] /\ \A i \in 1 .. n - 1 : g[i + 1] = g[i] \o S[i + 1]
      BY <1>0, <1>4, <2>2, <3>1, SumStep, Zenon
    <3> DEFINE G == {i \in 1 .. n : Good(g[i], i)}
    <3>3. 1 \in G
      <4>1. ~Ends(d, 1) /\ 1 \in 1 .. n
        BY <1>0, <2>2 DEF Ends
      <4>2. SubSeq(d, 1, 1 - 1) = <<>> /\ Undone(s) \o <<>> = Undone(s) /\ s \o <<>> = s
        BY <1>0
      <4>6. <<>> \in Seq(Plain)
        OBVIOUS
      <4>3. <<>> \in Seq(Plain) /\ Undone(s \o ttywrite(<<>>)) = Undone(s) \o SubSeq(d, 1, 1 - 1)
        BY <4>2, <4>6, TtyNothing, Zenon
      <4>4. /\ <<>> \o Piece(d, 1) \in Seq(Plain)
            /\ Undone(s \o ttywrite(<<>> \o Piece(d, 1))) = Undone(s) \o SubSeq(d, 1, Covered(d, 1))
        BY <4>1, <4>3, PieceWrites
      <4>5. <<>> \o Piece(d, 1) = g[1]
        <5>1. Piece(d, 1) \in Seq(Plain) /\ Piece(d, 1) = g[1]
          BY <1>2, <1>3, <3>2, <4>1
        <5> QED
          BY <5>1, ConcatEmptySeq
      <4> QED
        BY <4>1, <4>4, <4>5
    <3>4. ASSUME NEW i \in 1 .. n - 1, i \in G
          PROVE i + 1 \in G
      <4>1. i + 1 \in 1 .. n /\ (i + 1) - 1 = i /\ i + 1 > 1
        BY <1>0
      <4>2. g[i + 1] = g[i] \o Piece(d, i + 1)
        BY <1>2, <3>2, <4>1
      <4>3. Good(g[i], i)
        BY <3>4
      <4>4. CASE Ends(d, i + 1)
        <5>1. Starts(d, i) /\ d[i + 1] = "cont"
          BY <4>1, <4>4 DEF Ends, Starts
        <5>2. ~Starts(d, i + 1)
          BY <5>1 DEF Starts
        <5>3. Piece(d, i + 1) = <<>>
          BY <4>1, <4>4, PieceCases
        <5>4. g[i + 1] = g[i]
          BY <4>2, <4>3, <5>3, ConcatEmptySeq
        <5>5. Covered(d, i + 1) = Covered(d, i)
          BY <5>1, <5>2 DEF Covered
        <5> QED
          BY <4>1, <4>3, <5>4, <5>5
      <4>5. CASE ~Ends(d, i + 1)
        <5>1. Covered(d, i) = (i + 1) - 1
          BY <4>1, <4>5 DEF Covered, Ends
        <5>2. Undone(s \o ttywrite(g[i])) = Undone(s) \o SubSeq(d, 1, (i + 1) - 1)
          BY <4>3, <5>1
        <5>3. Good(g[i] \o Piece(d, i + 1), i + 1)
          BY <4>1, <4>3, <4>5, <5>2, PieceWrites
        <5> QED
          BY <4>1, <4>2, <5>3
      <4> QED
        BY <4>4, <4>5
    <3>5. n \in G
      <4>1. G \subseteq Int /\ n \in 1 .. n
        BY <1>0, <2>2
      <4> HIDE DEF G
      <4> QED
        BY <1>0, <3>3, <3>4, <4>1, UpTo
    <3>6. SubSeq(d, 1, Covered(d, n)) = d
      <4>0. ~ (n < Len(d))
        BY <1>0
      <4>2. ~ Starts(d, n)
        BY <4>0 DEF Starts
      <4>1. Covered(d, n) = n
        BY <4>2 DEF Covered
      <4> QED
        BY <4>1, SubSeqFull
    <3> QED
      BY <1>1, <3>1, <3>5, <3>6
  <2> QED
    BY <1>0, <2>1, <2>2
<1>6. PICK w \in Seq(Plain) : w = from_utf8(d) /\ Undone(s \o ttywrite(w)) = Undone(s) \o d
  BY <1>5
<1>7. "cr" \in Plain
  BY DEF Plain, Tokens
<1>8. s \o ttywrite(w) \in Seq(Tokens) /\ ~KeyLast(s \o ttywrite(w))
  BY <1>7, WriteOne
<1> QED
  BY <1>6, <1>8

-----------------------------------------------------------------------------
(***************************************************************************)
(* Paste: the inductive invariant.                                         *)
(***************************************************************************)
Kinds  == {"refused", "request", "selection", "newvalue", "deleted"}
Records == [k : Kinds, sel : Sels]
On(q)  == {q[k].sel : k \in DOMAIN q}

Content(x) == IF prop[x].t = "text" THEN prop[x].s ELSE <<>>

\* As long as an owner was asked and has not answered, nothing is told or read of
\* that selection.
Kept == \A x \in Sels :
  other[x].st = "asked" => x \notin On(events) /\ (call = Returned \/ call.sel # x)

\* A chunk fits the buffer, and while something is left to read the property is still
\* the one it was read from.
Chunks ==
  call # Returned =>
    LET w == Content(call.sel)
    IN /\ Len(call.data) <= Chunk
       /\ call.at = "get" => call.ofs = 0 \/ call.ofs < Len(w)
       /\ call.at # "get" /\ call.rem > 0 => call.ofs + Len(call.data) + call.rem = Len(w)

\* How much of the property was handed to ttywrite, and what is left of property and owner.
Got == IF call = Returned THEN 0
       ELSE IF call.at = "end" THEN call.ofs + Len(call.data) ELSE call.ofs
RestOf(w, g, o) == SubSeq(w, g + 1, Len(w)) \o o
Rest(x) == RestOf(Content(x), Got, other[x].s)

\* The chunk of a paste that is alone is the part of the property at ofs.
ReadsChunk ==
  call # Returned /\ call.at # "get" =>
    LET w == Content(call.sel)
    IN /\ call.data = SubSeq(w, call.ofs + 1, call.ofs + Len(call.data))
       /\ call.ofs + Len(call.data) + call.rem = Len(w)

\* The stages of a paste of x: nothing is read and the events are q, or a call reads x.
Queued(st, v, x, q, m) ==
  call = Returned /\ other[x].st = st /\ prop[x].t = v /\ events = q /\ mask = m
Reading(st, v, x, m) ==
  call # Returned /\ call.sel = x /\ other[x].st = st /\ prop[x].t = v /\ events = <<>> /\ mask = m

Empty(x) == other[x].s = <<>>
Resting(x)   == Empty(x) /\ Queued("idle", "none", x, <<>>, FALSE)
Refused(x)   == Empty(x) /\ Queued("idle", "none", x, <<Event("refused", x)>>, FALSE)
Requested(x) == Empty(x) /\ text = <<>> /\ Queued("idle", "none", x, <<Event("request", x)>>, FALSE)
Asked(x)     == Empty(x) /\ text = <<>> /\ Queued("asked", "none", x, <<>>, FALSE)
WholeSent(x) == Empty(x) /\ Queued("idle", "text", x, <<Event("selection", x)>>, FALSE)
WholeRead(x) == /\ Empty(x) /\ Reading("idle", "text", x, FALSE)
                /\ call.ev = "newvalue" => Content(x) = <<>> /\ call.at # "get"
IncrSent(x)  == Queued("sending", "incr", x, <<Event("selection", x)>>, FALSE)
IncrRead(x)  == Reading("sending", "incr", x, FALSE) /\ call.at = "get" /\ call.ofs = 0
PieceDue(x)  == \/ Queued("sending", "none", x, <<>>, TRUE)
                \/ Queued("sending", "none", x, <<Event("deleted", x)>>, TRUE)
PieceSent(x) == /\ \/ Queued("sending", "text", x, events, TRUE) /\ Content(x) # <<>>
                   \/ Queued("idle", "text", x, events, TRUE) /\ Content(x) = <<>> /\ Empty(x)
                /\ \/ events = <<Event("newvalue", x)>>
                   \/ events = <<Event("deleted", x), Event("newvalue", x)>>
PieceRead(x) == /\ call # Returned /\ call.ev = "newvalue"
                /\ \/ Reading("sending", "text", x, TRUE) /\ Content(x) # <<>>
                   \/ /\ Reading("idle", "text", x, TRUE) /\ Content(x) = <<>> /\ Empty(x)
                      /\ call.at = "get" /\ call.ofs = 0
\* The other selection has nothing under way.
Others(x) == \A y \in Sels \ {x} : other[y].st = "idle" /\ Empty(y) /\ prop[y] = None
Stage(x) ==
  \/ Resting(x) \/ Refused(x) \/ Requested(x) \/ Asked(x) \/ WholeSent(x) \/ WholeRead(x)
  \/ IncrSent(x) \/ IncrRead(x) \/ PieceDue(x) \/ PieceSent(x) \/ PieceRead(x)
\* Sent, and left in the property and with the owner: together the text.
Balance(x) == text = Undone(sent) \o Rest(x)
Pasting(x) == Others(x) /\ Stage(x) /\ Balance(x) /\ ReadsChunk
Alone == alone => \E x \in Sels : Pasting(x)

Values == {None, Incr} \cup {Text(s) : s \in Seq(Bytes)}
Owns   == {NoText} \cup {Text(s) : s \in Owned}
Senders == [st : {"idle", "asked", "sending"}, s : Seq(Bytes)]
Calls  == [at : {"get", "start", "data", "end"}, ev : {"selection", "newvalue"}, sel : Sels,
           ofs : Nat, data : Seq(Bytes), rem : Nat]

Types ==
  /\ owner \in [Sels -> {"none", "us", "other"}] /\ mine \in [Sels -> Owns]
  /\ other \in [Sels -> Senders] /\ prop \in [Sels -> Values]
  /\ events \in Seq(Records)
  /\ mask \in BOOLEAN /\ termmode \subseteq 0 .. 20 /\ winmode \subseteq 0 .. 20
  /\ call \in {Returned} \cup Calls
  /\ sent \in Seq(Tokens) /\ ~KeyLast(sent)
  /\ text \in Seq(Bytes) /\ alone \in BOOLEAN

\* Holds of overlapping pastes too.
Held == Types /\ Kept /\ Chunks

\* Values and calls are told apart by a field.
LEMMA ValueFacts ==
  ASSUME NEW v \in Values
  PROVE /\ v.t \in {"none", "incr", "text"}
        /\ v = None <=> v.t = "none"
        /\ v = Incr <=> v.t = "incr"
        /\ v.t = "text" => v.s \in Seq(Bytes) /\ v = Text(v.s)
BY DEF Values, None, Incr, Text

LEMMA TextFacts ==
  ASSUME NEW s
  PROVE Text(s).t = "text" /\ Text(s).s = s /\ Text(s) # None /\ Text(s) # Incr /\ Text(s) # NoText
BY DEF Text, None, Incr, NoText

LEMMA CallFacts ==
  ASSUME NEW c \in Calls
  PROVE c # Returned
BY DEF Calls, Returned

LEMMA ContentFacts ==
  ASSUME Types, NEW x \in Sels
  PROVE Content(x) \in Seq(Bytes) /\ Len(Content(x)) \in Nat
<1>1. prop[x] \in Values /\ <<>> \in Seq(Bytes)
  BY DEF Types
<1>2. Content(x) \in Seq(Bytes)
  BY <1>1, ValueFacts DEF Content
<1> QED
  BY <1>2, LenProperties

\* The selections of events.
LEMMA OnAppend ==
  ASSUME NEW q \in Seq(Records), NEW e \in Records
  PROVE Append(q, e) \in Seq(Records) /\ On(Append(q, e)) = On(q) \cup {e.sel}
<1> DEFINE r == Append(q, e)
<1>1. /\ r \in Seq(Records) /\ Len(r) = Len(q) + 1 /\ Len(q) \in Nat
      /\ \A i \in 1 .. Len(q) : r[i] = q[i]
      /\ r[Len(q) + 1] = e
  BY AppendProperties, LenProperties
<1>2. DOMAIN r = 1 .. Len(q) + 1 /\ DOMAIN q = 1 .. Len(q)
  BY <1>1, LenProperties
<1> HIDE DEF r
<1>3. ASSUME NEW x \in On(r)
      PROVE x \in On(q) \cup {e.sel}
  <2>1. PICK k \in 1 .. Len(q) + 1 : x = r[k].sel
    BY <1>2 DEF On
  <2>2. CASE k \in 1 .. Len(q)
    BY <1>1, <1>2, <2>1, <2>2 DEF On
  <2>3. CASE k = Len(q) + 1
    BY <1>1, <2>1, <2>3
  <2> QED
    BY <1>1, <2>2, <2>3
<1>4. ASSUME NEW x \in On(q)
      PROVE x \in On(r)
  <2>1. PICK k \in 1 .. Len(q) : x = q[k].sel
    BY <1>2 DEF On
  <2>2. k \in 1 .. Len(q) + 1
    BY <1>1
  <2> QED
    BY <1>1, <1>2, <2>1, <2>2 DEF On
<1>5. e.sel \in On(r)
  <2>1. Len(q) + 1 \in DOMAIN r
    BY <1>1, <1>2
  <2> QED
    BY <1>1, <2>1 DEF On
<1> QED
  BY <1>1, <1>3, <1>4, <1>5 DEF r

\* The selections of what is left of events.
LEMMA OnTail ==
  ASSUME NEW q \in Seq(Records), q # <<>>
  PROVE /\ Head(q) \in Records /\ Head(q).sel \in On(q)
        /\ Tail(q) \in Seq(Records) /\ On(Tail(q)) \subseteq On(q)
<1>1. /\ Head(q) \in Records /\ Tail(q) \in Seq(Records) /\ Len(Tail(q)) = Len(q) - 1
      /\ \A i \in 1 .. Len(Tail(q)) : Tail(q)[i] = q[i + 1]
  BY HeadTailProperties
<1>2. Len(q) \in Nat /\ Len(q) # 0 /\ DOMAIN q = 1 .. Len(q) /\ DOMAIN Tail(q) = 1 .. Len(Tail(q))
  BY <1>1, LenProperties, EmptySeq
<1>3. Head(q) = q[1] /\ 1 \in DOMAIN q
  BY <1>2
<1>4. ASSUME NEW x \in On(Tail(q))
      PROVE x \in On(q)
  <2>1. PICK k \in 1 .. Len(Tail(q)) : x = Tail(q)[k].sel
    BY <1>2 DEF On
  <2>2. k + 1 \in DOMAIN q /\ x = q[k + 1].sel
    BY <1>1, <1>2, <2>1
  <2> QED
    BY <2>2 DEF On
<1> QED
  BY <1>1, <1>3, <1>4 DEF On

LEMMA EventTypes ==
  ASSUME NEW x \in Sels, NEW k \in Kinds
  PROVE /\ Event(k, x) \in Records /\ Event(k, x).sel = x /\ Event(k, x).k = k
        /\ <<Event(k, x)>> \in Seq(Records)
        /\ \A q \in Seq(Records) : q \o <<Event(k, x)>> = Append(q, Event(k, x))
<1>1. Event(k, x) \in Records /\ Event(k, x).sel = x /\ Event(k, x).k = k
  BY DEF Event, Records
<1> QED
  BY <1>1, AppendIsConcat

\* The property of x changes: at most events of x are added.
LEMMA ChangedFacts ==
  ASSUME Types, NEW x \in Sels, NEW v \in Values, NEW notify,
         notify = <<>> \/ notify = Answered(x), Changed(x, v, notify)
  PROVE /\ prop' \in [Sels -> Values] /\ prop'[x] = v
        /\ \A y \in Sels : y # x => prop'[y] = prop[y]
        /\ events' \in Seq(Records) /\ On(events') \subseteq On(events) \cup {x}
<1>1. prop' = [prop EXCEPT ![x] = v]
  BY DEF Changed
<1>2. PICK k \in Kinds : events' = events \o (IF mask THEN <<Event(k, x)>> ELSE <<>>) \o notify
  BY DEF Changed, Kinds
<1> DEFINE q == events \o (IF mask THEN <<Event(k, x)>> ELSE <<>>)
<1>3. q \in Seq(Records) /\ On(q) \subseteq On(events) \cup {x}
  <2>1. events \in Seq(Records)
    BY DEF Types
  <2>2. CASE mask
    <3>1. q = Append(events, Event(k, x)) /\ Event(k, x) \in Records /\ Event(k, x).sel = x
      BY <2>1, <2>2, EventTypes
    <3> QED
      BY <2>1, <3>1, OnAppend
  <2>3. CASE ~mask
    BY <2>1, <2>3, ConcatEmptySeq
  <2> QED
    BY <2>2, <2>3
<1> HIDE DEF q
<1>4. events' \in Seq(Records) /\ On(events') \subseteq On(events) \cup {x}
  <2>1. events' = q \o notify
    BY <1>2 DEF q
  <2>2. CASE notify = <<>>
    BY <1>3, <2>1, <2>2, ConcatEmptySeq
  <2>3. CASE notify = Answered(x)
    <3>1. "selection" \in Kinds /\ notify = <<Event("selection", x)>>
      BY <2>3 DEF Answered, Kinds
    <3>2. events' = Append(q, Event("selection", x)) /\ Event("selection", x) \in Records
          /\ Event("selection", x).sel = x
      BY <1>3, <2>1, <3>1, EventTypes
    <3> QED
      BY <1>3, <3>2, OnAppend
  <2> QED
    BY <2>2, <2>3
<1> QED
  BY <1>1, <1>4 DEF Types

\* A bracket or a line feed is no byte of the text.
LEMMA QuietAppend ==
  ASSUME NEW s \in Seq(Tokens), NEW c \in {"lf", "start", "end"}
  PROVE /\ Append(s, c) \in Seq(Tokens) /\ ~KeyLast(Append(s, c))
        /\ Undone(Append(s, c)) = Undone(s)
<1>1. c \in Tokens /\ c # "key"
  BY DEF Tokens
<1>2. Undone(Append(s, c)) = Undone(s) \o Back(c, KeyLast(s)) /\ Undone(s) \in Seq(Bytes)
  BY <1>1, UndoneAppend
<1>3. Back(c, KeyLast(s)) = <<>>
  BY DEF Back
<1>4. /\ Append(s, c) \in Seq(Tokens) /\ Len(Append(s, c)) = Len(s) + 1
      /\ Append(s, c)[Len(s) + 1] = c
  BY <1>1, AppendProperties
<1> QED
  BY <1>1, <1>2, <1>3, <1>4, ConcatEmptySeq DEF KeyLast

\* Nor is what the user types.
LEMMA ReturnWrites ==
  ASSUME NEW s \in Seq(Tokens)
  PROVE /\ s \o ttywrite(<<"key", "cr">>) \in Seq(Tokens)
        /\ ~KeyLast(s \o ttywrite(<<"key", "cr">>))
        /\ Undone(s \o ttywrite(<<"key", "cr">>)) = Undone(s)
<1> DEFINE k == Append(s, "key")
<1>1. {"cr", "lf"} \subseteq Tokens /\ "key" \in Tokens /\ "cr" \in Tokens /\ <<>> \in Seq(Tokens)
  BY DEF Tokens
<1>2. ttywrite(<<"key", "cr">>) = <<"key">> \o W("cr")
  <2>1. Append(<<>>, "key") = <<"key">> /\ <<"key">> \in Seq(Tokens) /\ W("key") = <<"key">>
    BY <1>1 DEF W
  <2>2. ttywrite(Append(<<>>, "key")) = ttywrite(<<>>) \o W("key")
    BY <1>1, TtyAppend
  <2>3. ttywrite(<<"key">>) = <<"key">>
    BY <2>1, <2>2, TtyNothing, ConcatEmptySeq
  <2>4. ttywrite(Append(<<"key">>, "cr")) = ttywrite(<<"key">>) \o W("cr")
    BY <1>1, <2>1, TtyAppend
  <2>5. <<"key", "cr">> = Append(<<"key">>, "cr")
    <3>1. <<>> \o <<"key", "cr">> = Append(Append(<<>>, "key"), "cr") /\ <<"key", "cr">> \in Seq(Tokens)
      BY <1>1, AppendPair
    <3> QED
      BY <2>1, <3>1, ConcatEmptySeq
  <2> QED
    BY <2>3, <2>4, <2>5
<1>3. k \in Seq(Tokens) /\ KeyLast(k) /\ Undone(k) = Undone(s) /\ k = s \o <<"key">>
  <2>1. k \in Seq(Tokens) /\ Len(k) = Len(s) + 1 /\ k[Len(s) + 1] = "key" /\ k # <<>>
    BY <1>1, AppendProperties
  <2>2. Undone(k) = Undone(s) \o Back("key", KeyLast(s)) /\ Undone(s) \in Seq(Bytes)
    BY <1>1, UndoneAppend
  <2>3. Back("key", KeyLast(s)) = <<>>
    BY DEF Back
  <2> QED
    BY <1>1, <2>1, <2>2, <2>3, ConcatEmptySeq, AppendIsConcat DEF KeyLast
<1>4. W("cr") \in Seq(Tokens) /\ <<"key">> \in Seq(Tokens)
  BY <1>1 DEF W
<1>5. s \o ttywrite(<<"key", "cr">>) = k \o W("cr")
  <2> DEFINE w == W("cr")
             c == <<"key">>
  <2>1. (s \o c) \o w = s \o (c \o w)
    <3>1. w \in Seq(Tokens) /\ c \in Seq(Tokens)
      BY <1>4
    <3> HIDE DEF w, c
    <3> QED
      BY <3>1, ConcatAssociative, SMTT(40)
  <2> QED
    BY <1>2, <1>3, <2>1
<1> HIDE DEF k
<1> DEFINE r == Append(k, "cr")
<1>6. r \in Seq(Tokens) /\ ~KeyLast(r) /\ Undone(r) = Undone(s) /\ r = k \o <<"cr">>
  <2>1. r \in Seq(Tokens) /\ Len(r) = Len(k) + 1 /\ r[Len(k) + 1] = "cr"
    BY <1>1, <1>3, AppendProperties
  <2>2. Undone(r) = Undone(k) \o Back("cr", KeyLast(k)) /\ Undone(k) \in Seq(Bytes)
    BY <1>1, <1>3, UndoneAppend
  <2>3. Back("cr", KeyLast(k)) = <<>>
    BY <1>3 DEF Back
  <2>4. r \in Seq(Tokens) /\ r[Len(r)] = "cr"
    BY <1>1, <1>3, <2>1
  <2>5. Undone(r) = Undone(s)
    BY <1>3, <2>2, <2>3, ConcatEmptySeq
  <2>6. r = k \o <<"cr">>
    BY <1>1, <1>3, AppendIsConcat
  <2> QED
    BY <2>4, <2>5, <2>6 DEF KeyLast
<1>7. CASE W("cr") = <<"cr">>
  BY <1>5, <1>6, <1>7
<1>8. CASE W("cr") = <<"cr", "lf">>
  <2>1. k \o <<"cr", "lf">> = Append(r, "lf")
    BY <1>1, <1>3, AppendPair
  <2> HIDE DEF r
  <2>2. /\ Append(r, "lf") \in Seq(Tokens) /\ ~KeyLast(Append(r, "lf"))
        /\ Undone(Append(r, "lf")) = Undone(r)
    BY <1>6, QuietAppend
  <2>3. s \o ttywrite(<<"key", "cr">>) = Append(r, "lf")
    BY <1>5, <1>8, <2>1
  <2> QED
    BY <1>6, <2>2, <2>3
<1> QED
  BY <1>7, <1>8 DEF W

LEMMA UndoneNothing == Undone(<<>>) = <<>>
<1>1. ASSUME NEW e, e = <<>>
      PROVE Undone(e) = <<>>
  <2> DEFINE f == [k \in DOMAIN e |->
                    CASE e[k] = "u"  -> <<"lead", "cont">>
                      [] e[k] = "cr" -> IF Typed(e, k) THEN <<>> ELSE <<"nl">>
                      [] e[k] \in {"lf", "start", "end", "key"} -> <<>>
                      [] OTHER -> <<e[k]>>]
  <2>1. DOMAIN e = 1 .. 0
    BY <1>1
  <2>2. f \in [1 .. 0 -> {}]
    BY <2>1
  <2>3. Undone(e) = FlattenSeq(f)
    BY DEF Undone
  <2> HIDE DEF f
  <2>4. f = <<>>
    BY <2>2, FunctionSeq, EmptySeq
  <2>5. FlattenSeq(<<>>) = <<>>
    BY DEF FlattenSeq
  <2> QED
    BY <2>3, <2>4, <2>5
<1> QED
  BY <1>1

LEMMA Utf8Bytes ==
  ASSUME NEW s \in Seq(Chars)
  PROVE to_utf8(s) \in Seq(Bytes)
<1> DEFINE S == [k \in DOMAIN s |-> IF s[k] = "u" THEN <<"lead", "cont">> ELSE <<s[k]>>]
<1>1. Len(s) \in Nat /\ DOMAIN s = 1 .. Len(s) /\ \A k \in 1 .. Len(s) : s[k] \in Chars
  BY ElementOfSeq, LenProperties
<1>2. ASSUME NEW k \in 1 .. Len(s)
      PROVE S[k] \in Seq(Bytes)
  <2>1. <<"lead", "cont">> \in Seq(Bytes)
    BY DEF Bytes
  <2>2. s[k] # "u" => s[k] \in Bytes
    BY <1>1 DEF Chars, Bytes
  <2> QED
    BY <1>1, <2>1, <2>2
<1>3. S \in [1 .. Len(s) -> Seq(Bytes)]
  BY <1>1, <1>2
<1> HIDE DEF S
<1>4. S \in Seq(Seq(Bytes))
  BY <1>1, <1>3, FunctionSeq
<1> QED
  BY <1>4, FlatTyped DEF to_utf8, S

-----------------------------------------------------------------------------
\* Types, Kept and Chunks hold whatever users, owners and the program do.
LEMMA InitTyped == Init => Held
<1> SUFFICES ASSUME Init
             PROVE Held
  OBVIOUS
<1>1. <<>> \in Seq(Bytes) /\ <<>> \in Seq(Tokens) /\ <<>> \in Seq(Records)
  OBVIOUS
<1>2. Types
  BY <1>1 DEF Init, Types, Owns, Senders, Values, KeyLast
<1>3. Kept
  BY DEF Init, Kept
<1>4. Chunks
  BY DEF Init, Chunks
<1> QED
  BY <1>2, <1>3, <1>4 DEF Held

\* One lemma for each action.
LEMMA RequestTyped ==
  ASSUME Held, NEW x \in Sels, RequestPaste(x)
  PROVE Held'
<1>0. Types /\ Kept /\ call = Returned /\ x \notin On(events)
  BY DEF Held, RequestPaste, On
<1>1. UNCHANGED <<owner, mine, prop, mask, call, modes>> /\ sent' = <<>> /\ text' = <<>>
      /\ alone' \in BOOLEAN
  BY <1>0 DEF RequestPaste, Types
<1>2. CASE UNCHANGED other /\ \E k \in Kinds : events' = Append(events, Event(k, x))
  <2>1. PICK k \in Kinds : events' = Append(events, Event(k, x))
    BY <1>2
  <2>2. Event(k, x) \in Records /\ Event(k, x).sel = x /\ events \in Seq(Records)
    BY <1>0, EventTypes DEF Types
  <2>3. events' \in Seq(Records) /\ On(events') = On(events) \cup {x}
    BY <2>1, <2>2, OnAppend
  <2>4. other[x].st = "idle"
    BY DEF RequestPaste
  <2>5. Types'
    BY <1>0, <1>1, <1>2, <2>3 DEF Types, modes, KeyLast
  <2>6. Kept'
    BY <1>0, <1>1, <1>2, <2>3, <2>4 DEF Kept
  <2>7. Chunks'
    BY <1>0, <1>1 DEF Chunks
  <2> QED
    BY <2>5, <2>6, <2>7 DEF Held
<1>3. CASE UNCHANGED events /\ other' = [other EXCEPT ![x].st = "asked"]
  <2>1. other \in [Sels -> Senders]
    BY <1>0 DEF Types
  <2>2. other' \in [Sels -> Senders] /\ \A y \in Sels : y # x => other'[y] = other[y]
    BY <1>3, <2>1 DEF Senders
  <2>3. Types'
    BY <1>0, <1>1, <1>3, <2>2 DEF Types, modes, KeyLast
  <2>4. Kept'
    BY <1>0, <1>1, <1>3, <2>2 DEF Kept
  <2>5. Chunks'
    BY <1>0, <1>1 DEF Chunks
  <2> QED
    BY <2>3, <2>4, <2>5 DEF Held
<1> QED
  BY <1>2, <1>3 DEF RequestPaste, Kinds

LEMMA RefuseTyped ==
  ASSUME Held, NEW x \in Sels, Refuse(x)
  PROVE Held'
<1>0. Types /\ Kept /\ Chunks
  BY DEF Held
<1>1. /\ UNCHANGED <<owner, mine, prop, mask, call, modes, history>>
      /\ other' = [other EXCEPT ![x].st = "idle"]
      /\ events' = Append(events, Event("refused", x)) /\ "refused" \in Kinds
  BY DEF Refuse, Kinds
<1>2. Event("refused", x) \in Records /\ Event("refused", x).sel = x /\ events \in Seq(Records)
  BY <1>0, <1>1, EventTypes DEF Types
<1>3. events' \in Seq(Records) /\ On(events') = On(events) \cup {x}
  BY <1>1, <1>2, OnAppend
<1>4. /\ other' \in [Sels -> Senders] /\ other'[x].st = "idle"
      /\ \A y \in Sels : y # x => other'[y] = other[y]
  BY <1>0, <1>1 DEF Types, Senders
<1>5. Types'
  BY <1>0, <1>1, <1>3, <1>4 DEF Types, modes, history
<1>6. Kept'
  BY <1>0, <1>1, <1>3, <1>4 DEF Kept
<1>7. Chunks'
  BY <1>0, <1>1 DEF Chunks, Content
<1> QED
  BY <1>5, <1>6, <1>7 DEF Held

\* What SendWhole and StartIncr leave.
LEMMA AnswerTyped ==
  ASSUME Held, NEW x \in Sels, other[x].st = "asked", NEW v \in Values, NEW t \in Seq(Bytes),
         NEW r \in Senders, r.st # "asked", other' = [other EXCEPT ![x] = r],
         Changed(x, v, Answered(x)), text' = Noted(t),
         UNCHANGED <<owner, mine, mask, call, modes, sent, alone, acts>>
  PROVE Held'
<1>0. Types /\ Kept /\ Chunks /\ <<>> \in Seq(Bytes)
  BY DEF Held
<1>1. /\ prop' \in [Sels -> Values] /\ \A y \in Sels : y # x => prop'[y] = prop[y]
      /\ events' \in Seq(Records) /\ On(events') \subseteq On(events) \cup {x}
  BY <1>0, ChangedFacts
<1>2. /\ other' \in [Sels -> Senders] /\ other'[x] = r
      /\ \A y \in Sels : y # x => other'[y] = other[y]
  BY <1>0 DEF Types
<1>3. Types'
  BY <1>0, <1>1, <1>2 DEF Types, modes, Noted
<1>4. Kept'
  BY <1>0, <1>1, <1>2 DEF Kept
<1>5. call # Returned => call.sel # x /\ call.sel \in Sels
  BY <1>0 DEF Kept, Types, Calls
<1>6. Chunks'
  BY <1>0, <1>1, <1>5 DEF Chunks, Content
<1> QED
  BY <1>3, <1>4, <1>6 DEF Held

LEMMA SendWholeTyped ==
  ASSUME Held, NEW x \in Sels, NEW t \in Texts, SendWhole(x, t)
  PROVE Held'
<1> DEFINE r == [other[x] EXCEPT !.st = "idle"]
<1>1. other \in [Sels -> Senders] /\ t \in Seq(Bytes) /\ other[x] \in Senders
  BY TextsAssumption DEF Held, Types
<1>2. r \in Senders /\ r.st = "idle"
  BY <1>1 DEF Senders
<1>3. other' = [other EXCEPT ![x] = r]
  BY DEF SendWhole
<1>4. Text(t) \in Values
  BY <1>1 DEF Values
<1>5. /\ other[x].st = "asked" /\ Changed(x, Text(t), Answered(x)) /\ text' = Noted(t)
      /\ UNCHANGED <<owner, mine, mask, call, modes, sent, alone, acts>>
  BY DEF SendWhole
<1> HIDE DEF r
<1> QED
  BY <1>1, <1>2, <1>3, <1>4, <1>5, AnswerTyped

LEMMA StartIncrTyped ==
  ASSUME Held, NEW x \in Sels, NEW t \in Texts, StartIncr(x, t)
  PROVE Held'
<1> DEFINE r == [st |-> "sending", s |-> t]
<1>1. t \in Seq(Bytes)
  BY TextsAssumption
<1>2. r \in Senders /\ r.st = "sending"
  BY <1>1 DEF Senders
<1>3. Incr \in Values
  BY DEF Values
<1>4. /\ other[x].st = "asked" /\ Changed(x, Incr, Answered(x)) /\ text' = Noted(t)
      /\ UNCHANGED <<owner, mine, mask, call, modes, sent, alone, acts>>
      /\ other' = [other EXCEPT ![x] = r]
  BY DEF StartIncr
<1> HIDE DEF r
<1> QED
  BY <1>1, <1>2, <1>3, <1>4, AnswerTyped

\* A piece and what is left after it.
LEMMA SplitSeq ==
  ASSUME NEW s \in Seq(Bytes), NEW n \in 0 .. Len(s)
  PROVE /\ SubSeq(s, 1, n) \in Seq(Bytes) /\ Len(SubSeq(s, 1, n)) = n
        /\ SubSeq(s, n + 1, Len(s)) \in Seq(Bytes)
        /\ SubSeq(s, 1, n) \o SubSeq(s, n + 1, Len(s)) = s
<1>1. Len(s) \in Nat /\ \A i \in 1 .. Len(s) : s[i] \in Bytes
  BY LenProperties, ElementOfSeq
<1>2. SubSeq(s, 1, n) \in Seq(Bytes) /\ Len(SubSeq(s, 1, n)) = n
  <2>1. \A i \in 1 .. n : s[i] \in Bytes
    BY <1>1
  <2>2. /\ SubSeq(s, 1, n) \in Seq(Bytes)
        /\ Len(SubSeq(s, 1, n)) = IF 1 <= n THEN n - 1 + 1 ELSE 0
    BY <2>1, SubSeqProperties
  <2> QED
    BY <1>1, <2>2
<1>3. SubSeq(s, n + 1, Len(s)) \in Seq(Bytes)
  <2>1. \A i \in n + 1 .. Len(s) : s[i] \in Bytes
    BY <1>1
  <2> QED
    BY <1>1, <2>1, SubSeqProperties
<1>4. SubSeq(s, 1, n) \o SubSeq(s, n + 1, Len(s)) = SubSeq(s, 1, Len(s))
  <2>1. 1 \in 1 .. Len(s) + 1 /\ n \in 1 - 1 .. Len(s) /\ Len(s) \in n .. Len(s)
    BY <1>1
  <2> QED
    BY <2>1, ConcatAdjacentSubSeq
<1> QED
  BY <1>2, <1>3, <1>4, SubSeqFull

LEMMA SendPieceTyped ==
  ASSUME Held, NEW x \in Sels, NEW n \in 0 .. Len(other[x].s), SendPiece(x, n)
  PROVE Held'
<1> DEFINE q == other[x].s
           r == [st |-> IF n = 0 THEN "idle" ELSE "sending", s |-> SubSeq(q, n + 1, Len(q))]
<1>0. Types /\ Kept /\ Chunks /\ other \in [Sels -> Senders] /\ other[x] \in Senders
  BY DEF Held, Types
<1>1. /\ UNCHANGED <<owner, mine, mask, call, modes, history>>
      /\ other[x].st = "sending" /\ prop[x] = None
      /\ Changed(x, Text(SubSeq(q, 1, n)), <<>>)
  BY DEF SendPiece
<1>2. q \in Seq(Bytes) /\ SubSeq(q, n + 1, Len(q)) \in Seq(Bytes) /\ SubSeq(q, 1, n) \in Seq(Bytes)
  <2>1. q \in Seq(Bytes)
    BY <1>0 DEF Senders
  <2> QED
    BY <2>1, SplitSeq
<1>3. r \in Senders /\ r.st # "asked"
  BY <1>1, <1>2 DEF Senders
<1>4. other' = [other EXCEPT ![x] = r]
  BY <1>1 DEF SendPiece
<1> HIDE DEF r
<1>5. /\ other' \in [Sels -> Senders] /\ other'[x].st # "asked"
      /\ \A y \in Sels : y # x => other'[y] = other[y]
  BY <1>0, <1>3, <1>4
<1>6. Text(SubSeq(q, 1, n)) \in Values
  BY <1>2 DEF Values
<1>7. /\ prop' \in [Sels -> Values] /\ prop'[x] = Text(SubSeq(q, 1, n))
      /\ \A y \in Sels : y # x => prop'[y] = prop[y]
      /\ events' \in Seq(Records) /\ On(events') \subseteq On(events) \cup {x}
  BY <1>0, <1>1, <1>6, ChangedFacts
<1>8. Types'
  BY <1>0, <1>1, <1>5, <1>7 DEF Types, modes, history
<1>9. Kept'
  BY <1>0, <1>1, <1>5, <1>7 DEF Kept
<1>10. Chunks'
  <2> SUFFICES ASSUME call' # Returned
               PROVE Chunks'
    BY DEF Chunks
  <2>1. call \in Calls /\ call' = call /\ call # Returned
    BY <1>0, <1>1 DEF Types
  <2>2. CASE call.sel # x
    <3>1. call.sel \in Sels
      BY <2>1 DEF Calls
    <3> QED
      BY <1>0, <1>7, <2>1, <2>2, <3>1 DEF Chunks, Content
  <2>3. CASE call.sel = x
    <3>1. Content(x) = <<>>
      BY <1>1 DEF Content, None
    <3>2. /\ call.ofs \in Nat /\ call.rem \in Nat /\ Len(call.data) \in Nat
          /\ Len(call.data) <= Chunk
          /\ call.at = "get" => call.ofs = 0 \/ call.ofs < Len(<<>>)
          /\ call.at # "get" /\ call.rem > 0 => call.ofs + Len(call.data) + call.rem = Len(<<>>)
      <4>1. call.data \in Seq(Bytes) /\ call.ofs \in Nat /\ call.rem \in Nat
        BY <2>1 DEF Calls
      <4>2. Len(call.data) \in Nat
        BY <4>1, LenProperties
      <4> QED
        BY <1>0, <2>1, <2>3, <3>1, <4>1, <4>2 DEF Chunks
    <3>3. Len(<<>>) = 0
      OBVIOUS
    <3>4. /\ call.at = "get" => call.ofs = 0
          /\ call.at # "get" => ~ (call.rem > 0)
      BY <3>2, <3>3
    <3> QED
      BY <2>1, <3>2, <3>4 DEF Chunks
  <2> QED
    BY <2>2, <2>3
<1> QED
  BY <1>8, <1>9, <1>10 DEF Held

\* Who owns a selection, and what slterm would send, concerns no transfer.
LEMMA OwnersTyped ==
  ASSUME Held, \/ \E x \in Sels : OtherTakes(x)
               \/ \E s \in Owned : setsel(s)
               \/ clipcopy
  PROVE Held'
<1>0. Types /\ Kept /\ Chunks
  BY DEF Held
<1>1. UNCHANGED <<other, prop, events, mask, call, modes, sent, text, alone>>
  BY DEF OtherTakes, setsel, clipcopy
<1>2. owner' \in [Sels -> {"none", "us", "other"}] /\ mine' \in [Sels -> Owns]
  <2>0. owner \in [Sels -> {"none", "us", "other"}] /\ mine \in [Sels -> Owns]
    BY <1>0 DEF Types
  <2>1. CASE \E x \in Sels : OtherTakes(x)
    BY <2>0, <2>1 DEF OtherTakes
  <2>2. CASE \E s \in Owned : setsel(s)
    <3>1. PICK s \in Owned : setsel(s)
      BY <2>2
    <3>2. Text(s) \in Owns
      BY DEF Owns
    <3>3. owner' = [x \in Sels |-> "us"] \/ owner' = [owner EXCEPT !["CLIPBOARD"] = "us"]
      BY <3>1 DEF setsel
    <3>4. mine' = [x \in Sels |-> Text(s)]
      BY <3>1 DEF setsel
    <3> QED
      BY <2>0, <3>2, <3>3, <3>4
  <2>3. CASE clipcopy
    <3>1. "PRIMARY" \in Sels
      BY DEF Sels
    <3> QED
      BY <2>0, <2>3, <3>1 DEF clipcopy
  <2> QED
    BY <2>1, <2>2, <2>3
<1>3. Types'
  BY <1>0, <1>1, <1>2 DEF Types, modes
<1>4. Kept' /\ Chunks'
  BY <1>0, <1>1 DEF Kept, Chunks, Content
<1> QED
  BY <1>3, <1>4 DEF Held

\* An event is taken from the queue.
LEMMA PopFacts ==
  ASSUME Types, NEW k, Pop(k)
  PROVE /\ call = Returned /\ Head(events).sel \in Sels /\ Head(events).sel \in On(events)
        /\ Head(events).k = k
        /\ Tail(events) \in Seq(Records) /\ On(Tail(events)) \subseteq On(events)
<1>1. events \in Seq(Records) /\ events # <<>>
  BY DEF Types, Pop
<1>2. Head(events) \in Records
  BY <1>1, OnTail
<1> QED
  BY <1>1, <1>2, OnTail DEF Pop, Records

LEMMA RequestServedTyped ==
  ASSUME Held, selrequest
  PROVE Held'
<1> DEFINE x == Head(events).sel
           t == to_utf8(mine[x].s)
<1>0. Types /\ Kept /\ Chunks /\ Pop("request")
  BY DEF Held, selrequest
<1>1. /\ call = Returned /\ x \in Sels /\ x \in On(events)
      /\ Tail(events) \in Seq(Records) /\ On(Tail(events)) \subseteq On(events)
  BY <1>0, PopFacts
<1>2. UNCHANGED <<owner, mine, other, mask, call, modes, sent, alone, acts>>
  BY DEF selrequest
<1>3. CASE mine[x] = NoText
  <2>1. /\ events' = Append(Tail(events), Event("refused", x)) /\ UNCHANGED <<prop, text>>
        /\ "refused" \in Kinds
    BY <1>3 DEF selrequest, Kinds
  <2> HIDE DEF x
  <2>2. Event("refused", x) \in Records /\ Event("refused", x).sel = x
    BY <1>1, <2>1, EventTypes
  <2>3. events' \in Seq(Records) /\ On(events') = On(Tail(events)) \cup {x}
    BY <1>1, <2>1, <2>2, OnAppend
  <2>4. Types'
    BY <1>0, <1>2, <2>1, <2>3 DEF Types, modes
  <2>5. Kept' /\ Chunks'
    BY <1>0, <1>1, <1>2, <2>1, <2>3 DEF Kept, Chunks
  <2> QED
    BY <2>4, <2>5 DEF Held
<1>4. CASE mine[x] # NoText
  <2>1. /\ prop' = [prop EXCEPT ![x] = Text(t)]
        /\ events' = Tail(events) \o (IF mask THEN <<Event("newvalue", x)>> ELSE <<>>) \o Answered(x)
        /\ text' = Noted(t)
    BY <1>4 DEF selrequest
  <2>2. t \in Seq(Bytes)
    <3>1. PICK s \in Owned : mine[x] = Text(s)
      BY <1>0, <1>1, <1>4 DEF Types, Owns
    <3>2. mine[x].s = s /\ s \in Seq(Chars)
      BY <3>1, TextFacts, TextsAssumption
    <3> QED
      BY <3>2, Utf8Bytes
  <2> HIDE DEF x, t
  <2>3. /\ Event("newvalue", x) \in Records /\ Event("newvalue", x).sel = x
        /\ Event("selection", x) \in Records /\ Event("selection", x).sel = x
        /\ \A q \in Seq(Records) : /\ q \o <<Event("newvalue", x)>> = Append(q, Event("newvalue", x))
                                   /\ q \o <<Event("selection", x)>> = Append(q, Event("selection", x))
    <3>1. "newvalue" \in Kinds /\ "selection" \in Kinds
      BY DEF Kinds
    <3> QED
      BY <1>1, <3>1, EventTypes
  <2> DEFINE q == Tail(events) \o (IF mask THEN <<Event("newvalue", x)>> ELSE <<>>)
  <2>4. q \in Seq(Records) /\ On(q) \subseteq On(events)
    <3>1. CASE mask
      <4>1. q = Append(Tail(events), Event("newvalue", x))
        BY <1>1, <2>3, <3>1
      <4> HIDE DEF q
      <4>2. Event("newvalue", x) \in Records /\ Event("newvalue", x).sel = x
        BY <1>1, <2>3
      <4>3. Tail(events) \in Seq(Records) /\ On(Tail(events)) \subseteq On(events)
        BY <1>1
      <4>4. q \in Seq(Records) /\ On(q) = On(Tail(events)) \cup {x}
        BY <4>1, <4>2, <4>3, OnAppend
      <4> QED
        BY <1>1, <4>3, <4>4
    <3>2. CASE ~mask
      BY <1>1, <3>2, ConcatEmptySeq
    <3> QED
      BY <3>1, <3>2
  <2> HIDE DEF q
  <2>5. events' \in Seq(Records) /\ On(events') \subseteq On(events)
    <3>1. events' = Append(q, Event("selection", x))
      BY <2>1, <2>3, <2>4 DEF Answered, q
    <3> QED
      BY <1>1, <2>3, <2>4, <3>1, OnAppend
  <2>6. prop' \in [Sels -> Values]
    BY <1>0, <2>1, <2>2 DEF Types, Values
  <2>7. Types'
    BY <1>0, <1>2, <2>1, <2>2, <2>5, <2>6 DEF Types, modes, Noted
  <2>8. Kept' /\ Chunks'
    BY <1>0, <1>1, <1>2, <2>5 DEF Kept, Chunks
  <2> QED
    BY <2>7, <2>8 DEF Held
<1> QED
  BY <1>3, <1>4

LEMMA IgnoreTyped ==
  ASSUME Held, Ignore
  PROVE Held'
<1>0. Types /\ Kept /\ Chunks
  BY DEF Held
<1>1. /\ UNCHANGED <<owner, mine, other, prop, mask, call, modes, history>>
      /\ events' \in Seq(Records) /\ On(events') \subseteq On(events)
  <2>1. \E k \in Kinds : Pop(k)
    BY DEF Ignore, Kinds
  <2> QED
    BY <1>0, <2>1, PopFacts DEF Ignore
<1>2. Types'
  BY <1>0, <1>1 DEF Types, modes, history
<1>3. Kept' /\ Chunks'
  BY <1>0, <1>1 DEF Kept, Chunks, Content
<1> QED
  BY <1>2, <1>3 DEF Held

LEMMA EnterTyped ==
  ASSUME Held, Enter
  PROVE Held' /\ call' \in Calls /\ call'.at = "get" /\ call'.ofs = 0 /\ call'.rem = 0
        /\ call'.data = <<>> /\ call'.sel = Head(events).sel /\ call'.ev = Head(events).k
        /\ Head(events).sel \in Sels
<1>0. Types /\ Kept /\ Chunks /\ Chunk \in Nat \ {0}
  BY PasteAssumption DEF Held
<1>1. /\ UNCHANGED <<owner, mine, other, prop, mask, modes, history>>
      /\ events' = Tail(events)
      /\ call' = [at |-> "get", ev |-> Head(events).k, sel |-> Head(events).sel,
                  ofs |-> 0, data |-> <<>>, rem |-> 0]
  BY DEF Enter
<1>2. /\ events' \in Seq(Records) /\ On(events') \subseteq On(events)
      /\ Head(events).sel \in Sels /\ Head(events).sel \in On(events)
      /\ Head(events).k \in {"selection", "newvalue"}
  BY <1>0, <1>1, PopFacts DEF Enter
<1>3. call' \in Calls /\ call'.at = "get" /\ call'.ofs = 0 /\ call'.rem = 0 /\ call'.data = <<>>
      /\ call'.sel = Head(events).sel /\ call'.ev = Head(events).k
  <2>1. <<>> \in Seq(Bytes)
    OBVIOUS
  <2> QED
    BY <1>1, <1>2, <2>1 DEF Calls
<1>4. Types'
  BY <1>0, <1>1, <1>2, <1>3 DEF Types, modes, history
<1>5. Kept'
  BY <1>0, <1>1, <1>2, <1>3 DEF Kept
<1>6. Chunks'
  <2>1. Len(<<>>) = 0
    OBVIOUS
  <2> QED
    BY <1>0, <1>3, <2>1 DEF Chunks
<1> QED
  BY <1>2, <1>3, <1>4, <1>5, <1>6 DEF Held

\* What a call of selnotify may rely on.
LEMMA CallGiven ==
  ASSUME Types, call # Returned
  PROVE /\ call \in Calls /\ call.sel \in Sels /\ call.ofs \in Nat /\ call.rem \in Nat
        /\ call.data \in Seq(Bytes) /\ Len(call.data) \in Nat /\ Whole = Content(call.sel)
        /\ prop[call.sel] \in Values
<1>1. call \in Calls
  BY DEF Types
<1>2. call.sel \in Sels /\ call.ofs \in Nat /\ call.rem \in Nat /\ call.data \in Seq(Bytes)
  BY <1>1 DEF Calls
<1>3. Len(call.data) \in Nat
  BY <1>2, LenProperties
<1> QED
  BY <1>1, <1>2, <1>3 DEF Whole, Value, Content, Types

LEMMA AtGiven ==
  ASSUME Types, NEW at \in {"get", "start", "data", "end"}, call.at = at
  PROVE call # Returned
BY DEF Returned

\* What a call leaves behind.
LEMMA LeaveFacts ==
  ASSUME Types, call # Returned, NEW m \in BOOLEAN, Leave(m)
  PROVE /\ prop' \in [Sels -> Values] /\ prop'[call.sel] = None
        /\ \A y \in Sels : y # call.sel => prop'[y] = prop[y]
        /\ events' \in Seq(Records) /\ On(events') \subseteq On(events) \cup {call.sel}
        /\ call' = Returned
<1>1. call.sel \in Sels /\ None \in Values /\ "deleted" \in Kinds
  BY CallGiven DEF Values, Kinds
<1>2. Event("deleted", call.sel) \in Records /\ Event("deleted", call.sel).sel = call.sel
  BY <1>1, EventTypes
<1>3. events \in Seq(Records)
  BY DEF Types
<1>4. events' \in Seq(Records) /\ On(events') \subseteq On(events) \cup {call.sel}
  <2>1. events' = Append(events, Event("deleted", call.sel)) \/ events' = events
    BY DEF Leave
  <2> QED
    BY <1>2, <1>3, <2>1, OnAppend
<1> QED
  BY <1>1, <1>4 DEF Types, Leave

\* The end of a call.
LEMMA LeaveTyped ==
  ASSUME Held, call # Returned, NEW m \in BOOLEAN, Leave(m), mask' \in BOOLEAN,
         sent' \in Seq(Tokens), ~KeyLast(sent'),
         UNCHANGED <<owner, mine, other, modes, text, alone>>
  PROVE Held'
<1>0. Types /\ Kept /\ Chunks
  BY DEF Held
<1>1. /\ prop' \in [Sels -> Values]
      /\ events' \in Seq(Records) /\ On(events') \subseteq On(events) \cup {call.sel}
      /\ call' = Returned
  BY <1>0, LeaveFacts
<1>2. Types'
  BY <1>0, <1>1 DEF Types, modes
<1>3. Kept'
  BY <1>0, <1>1 DEF Kept
<1>4. Chunks'
  BY <1>1 DEF Chunks
<1> QED
  BY <1>2, <1>3, <1>4 DEF Held

LEMMA BeginIncrTyped ==
  ASSUME Held, BeginIncr
  PROVE Held'
<1>1. Types /\ call # Returned /\ Leave(TRUE) /\ mask' \in BOOLEAN
      /\ UNCHANGED <<owner, mine, other, modes, history>>
  BY AtGiven DEF Held, BeginIncr
<1>2. sent' \in Seq(Tokens) /\ ~KeyLast(sent')
  BY <1>1 DEF Types, history, KeyLast
<1>3. UNCHANGED <<text, alone>>
  BY <1>1 DEF history
<1> QED
  BY <1>1, <1>2, <1>3, LeaveTyped

\* The chunk that is read is the part of the property at ofs.
LEMMA GetChunkFacts ==
  ASSUME Held, GetChunk
  PROVE LET w == Content(call.sel)
        IN /\ call \in Calls /\ call' \in Calls /\ call.at = "get" /\ call'.at = "start"
           /\ call'.sel = call.sel /\ call'.ev = call.ev /\ call'.ofs = call.ofs
           /\ call'.data = SubSeq(w, call.ofs + 1, call.ofs + Len(call'.data))
           /\ Len(call'.data) \in Nat /\ Len(call'.data) <= Chunk
           /\ call.ofs + Len(call'.data) + call'.rem = Len(w)
           /\ mask' = (mask /\ ~(call.ev = "newvalue" /\ Len(w) = call.ofs))
<1> DEFINE w == Content(call.sel)
           n == Len(w) - call.ofs
           m == IF n < Chunk THEN n ELSE Chunk
           d == SubSeq(w, call.ofs + 1, call.ofs + m)
<1>0. Types /\ Chunks /\ Chunk \in Nat \ {0} /\ call.at = "get" /\ call # Returned
  BY AtGiven, PasteAssumption DEF Held, GetChunk
<1>1. call \in Calls /\ call.sel \in Sels /\ call.ofs \in Nat /\ Whole = w
  BY <1>0, CallGiven
<1>2. w \in Seq(Bytes) /\ Len(w) \in Nat /\ \A i \in 1 .. Len(w) : w[i] \in Bytes
  BY <1>0, <1>1, ContentFacts, ElementOfSeq
<1>3. call.ofs = 0 \/ call.ofs < Len(w)
  BY <1>0 DEF Chunks
<1>4. /\ call' = [call EXCEPT !.at = "start", !.data = d, !.rem = n - Len(d)]
      /\ mask' = (mask /\ ~(call.ev = "newvalue" /\ n = 0))
  BY <1>1 DEF GetChunk
<1> HIDE DEF w
<1>5. n \in Nat /\ m \in Nat /\ m <= n /\ m <= Chunk /\ call.ofs + m <= Len(w)
  BY <1>0, <1>1, <1>2, <1>3
<1>6. d \in Seq(Bytes) /\ Len(d) = m
  <2> HIDE DEF m
  <2> DEFINE a == call.ofs + 1
             b == call.ofs + m
  <2>1. a \in Int /\ b \in Int /\ \A i \in a .. b : w[i] \in Bytes
    BY <1>1, <1>2, <1>5
  <2>2. SubSeq(w, a, b) \in Seq(Bytes) /\ Len(SubSeq(w, a, b)) = IF a <= b THEN b - a + 1 ELSE 0
    <3> HIDE DEF a, b
    <3> QED
      BY <2>1, SubSeqProperties
  <2>3. (IF a <= b THEN b - a + 1 ELSE 0) = m
    BY <1>1, <1>5
  <2> QED
    BY <2>2, <2>3
<1> HIDE DEF d, n
<1>7. /\ call' \in Calls /\ call'.at = "start" /\ call'.sel = call.sel /\ call'.ev = call.ev
      /\ call'.ofs = call.ofs /\ call'.data = d /\ call'.rem = n - Len(d)
  <2>1. n - Len(d) \in Nat
    BY <1>5, <1>6
  <2> QED
    BY <1>1, <1>4, <1>6, <2>1 DEF Calls
<1>8. call.ofs + Len(d) + (n - Len(d)) = Len(w)
  <2>1. call.ofs \in Nat /\ Len(d) \in Nat /\ Len(w) \in Nat /\ n = Len(w) - call.ofs
    BY <1>1, <1>2, <1>5, <1>6 DEF n
  <2> HIDE DEF w
  <2> QED
    BY <2>1, SMTT(30)
<1>9. n = 0 <=> Len(w) = call.ofs
  BY <1>1, <1>2 DEF n
<1> QED
  BY <1>0, <1>1, <1>4, <1>5, <1>6, <1>7, <1>8, <1>9 DEF w, d

LEMMA GetChunkTyped ==
  ASSUME Held, GetChunk
  PROVE Held'
<1>0. Types /\ Kept /\ Chunks
  BY DEF Held
<1>1. UNCHANGED <<owner, mine, other, prop, events, modes, history>>
  BY DEF GetChunk
<1>2. /\ call \in Calls /\ call' \in Calls /\ call'.at = "start" /\ call'.sel = call.sel
      /\ call'.ofs = call.ofs /\ Len(call'.data) <= Chunk
      /\ call.ofs + Len(call'.data) + call'.rem = Len(Content(call.sel))
      /\ mask' \in BOOLEAN
  BY GetChunkFacts
<1>3. Types'
  BY <1>0, <1>1, <1>2 DEF Types, modes, history
<1>4. Kept'
  BY <1>0, <1>1, <1>2, CallFacts DEF Kept
<1>5. Content(call.sel)' = Content(call.sel)
  BY <1>1, <1>2 DEF Content
<1>6. Chunks'
  BY <1>1, <1>2, <1>5 DEF Chunks
<1> QED
  BY <1>3, <1>4, <1>6 DEF Held

\* A step of the call that only sends.
LEMMA SendTyped ==
  ASSUME Held, call # Returned, NEW at \in {"data", "end"}, call' = [call EXCEPT !.at = at],
         call.at # "get", sent' \in Seq(Tokens), ~KeyLast(sent'),
         UNCHANGED <<owner, mine, other, prop, events, mask, modes, text, alone, acts>>
  PROVE /\ Held' /\ call' \in Calls /\ call'.at = at /\ call'.sel = call.sel /\ call'.ev = call.ev
        /\ call'.ofs = call.ofs /\ call'.data = call.data /\ call'.rem = call.rem
<1>0. Types /\ Kept /\ Chunks /\ call \in Calls
  BY CallGiven DEF Held
<1>1. /\ call' \in Calls /\ call'.at = at /\ call'.sel = call.sel /\ call'.ev = call.ev
      /\ call'.ofs = call.ofs /\ call'.data = call.data /\ call'.rem = call.rem
  BY <1>0 DEF Calls
<1>2. Types'
  BY <1>0, <1>1 DEF Types, modes
<1>3. Kept'
  BY <1>0, <1>1 DEF Kept
<1>4. Content(call.sel)' = Content(call.sel)
  BY <1>1 DEF Content
<1>5. Chunks'
  BY <1>0, <1>1, <1>4 DEF Chunks
<1> QED
  BY <1>1, <1>2, <1>3, <1>5 DEF Held

\* What the steps of a call send: only data counts among the bytes of the text.
LEMMA StartSent ==
  ASSUME Types, StartBracket
  PROVE sent' \in Seq(Tokens) /\ ~KeyLast(sent') /\ (alone => Undone(sent') = Undone(sent))
<1>1. sent' = sent \/ sent' = Append(sent, "start") \/ (~alone /\ sent' = <<>>)
  BY DEF StartBracket, Noted
<1>2. sent \in Seq(Tokens) /\ ~KeyLast(sent) /\ <<>> \in Seq(Tokens) /\ ~KeyLast(<<>>)
  BY DEF Types, KeyLast
<1> QED
  BY <1>1, <1>2, QuietAppend

LEMMA DataSent ==
  ASSUME Types, WriteData
  PROVE /\ sent' \in Seq(Tokens) /\ ~KeyLast(sent')
        /\ alone => Undone(sent') = Undone(sent) \o call.data
<1>0. call # Returned
  BY AtGiven DEF WriteData
<1>1. call.data \in Seq(Bytes)
  BY <1>0, CallGiven
<1>2. sent' = IF alone THEN sent \o ttywrite(from_utf8(call.data)) ELSE <<>>
  BY DEF WriteData, Noted
<1>3. sent \in Seq(Tokens) /\ ~KeyLast(sent) /\ <<>> \in Seq(Tokens) /\ ~KeyLast(<<>>)
  BY DEF Types, KeyLast
<1> QED
  BY <1>1, <1>2, <1>3, PasteWrites

LEMMA EndSent ==
  ASSUME Types, EndBracket
  PROVE sent' \in Seq(Tokens) /\ ~KeyLast(sent') /\ (alone => Undone(sent') = Undone(sent))
<1>1. sent' = sent \/ sent' = Append(sent, "end") \/ (~alone /\ sent' = <<>>)
  BY DEF EndBracket, Noted
<1>2. sent \in Seq(Tokens) /\ ~KeyLast(sent) /\ <<>> \in Seq(Tokens) /\ ~KeyLast(<<>>)
  BY DEF Types, KeyLast
<1> QED
  BY <1>1, <1>2, QuietAppend

LEMMA StartTyped ==
  ASSUME Held, StartBracket
  PROVE Held'
<1>1. /\ call.at = "start" /\ call # Returned /\ call' = [call EXCEPT !.at = "data"]
      /\ UNCHANGED <<owner, mine, other, prop, events, mask, modes, text, alone, acts>>
  BY AtGiven DEF Held, StartBracket
<1>2. sent' \in Seq(Tokens) /\ ~KeyLast(sent')
  BY StartSent DEF Held
<1> QED
  BY <1>1, <1>2, SendTyped

LEMMA DataTyped ==
  ASSUME Held, WriteData
  PROVE Held'
<1>1. /\ call.at = "data" /\ call # Returned /\ call' = [call EXCEPT !.at = "end"]
      /\ UNCHANGED <<owner, mine, other, prop, events, mask, modes, text, alone, acts>>
  BY AtGiven DEF Held, WriteData
<1>2. sent' \in Seq(Tokens) /\ ~KeyLast(sent')
  BY DataSent DEF Held
<1> QED
  BY <1>1, <1>2, SendTyped

\* After the last chunk selnotify returns, else it asks for the next.
LEMMA NextChunk ==
  ASSUME Held, EndBracket, call.rem > 0
  PROVE /\ Held' /\ call' \in Calls /\ call'.at = "get" /\ call'.sel = call.sel
        /\ call'.ev = call.ev /\ call'.ofs = call.ofs + Len(call.data)
<1>0. Types /\ Kept /\ Chunks /\ call.at = "end" /\ call # Returned
  BY AtGiven DEF Held, EndBracket
<1>1. /\ call \in Calls /\ call.ofs \in Nat /\ call.rem \in Nat /\ call.sel \in Sels
      /\ Len(call.data) \in Nat /\ Len(Content(call.sel)) \in Nat
  BY <1>0, CallGiven, ContentFacts
<1>2. /\ call' = [call EXCEPT !.at = "get", !.ofs = @ + Len(call.data)]
      /\ UNCHANGED <<owner, mine, other, mask, modes, text, alone, acts, prop, events>>
  BY DEF EndBracket
<1>3. /\ call' \in Calls /\ call'.at = "get" /\ call'.sel = call.sel /\ call'.ev = call.ev
      /\ call'.ofs = call.ofs + Len(call.data) /\ call'.data = call.data
  <2>1. call.ofs + Len(call.data) \in Nat
    BY <1>1
  <2> QED
    BY <1>1, <1>2, <2>1 DEF Calls
<1>4. sent' \in Seq(Tokens) /\ ~KeyLast(sent')
  BY <1>0, EndSent
<1>5. Types'
  BY <1>0, <1>2, <1>3, <1>4 DEF Types, modes
<1>6. Kept'
  BY <1>0, <1>2, <1>3 DEF Kept
<1>7. Content(call.sel)' = Content(call.sel)
  BY <1>2, <1>3 DEF Content
<1>8. call.ofs + Len(call.data) + call.rem = Len(Content(call.sel)) /\ Len(call.data) <= Chunk
  BY <1>0, <1>1 DEF Chunks
<1>9. call.ofs + Len(call.data) < Len(Content(call.sel))
  BY <1>1, <1>8
<1>10. Chunks'
  BY <1>3, <1>7, <1>8, <1>9 DEF Chunks
<1> QED
  BY <1>3, <1>5, <1>6, <1>10 DEF Held

LEMMA EndTyped ==
  ASSUME Held, EndBracket
  PROVE Held'
<1>1. Types /\ call # Returned
  BY AtGiven DEF Held, EndBracket
<1>2. CASE call.rem > 0
  BY <1>2, NextChunk
<1>3. CASE ~ (call.rem > 0)
  <2>1. Leave(mask) /\ UNCHANGED <<owner, mine, other, modes, text, alone>>
        /\ mask \in BOOLEAN /\ mask' \in BOOLEAN
    BY <1>1, <1>3 DEF EndBracket, Types
  <2>2. sent' \in Seq(Tokens) /\ ~KeyLast(sent')
    BY <1>1, EndSent
  <2> QED
    BY <1>1, <2>1, <2>2, LeaveTyped
<1> QED
  BY <1>2, <1>3

LEMMA ReturnSent ==
  ASSUME Types, Return
  PROVE sent' \in Seq(Tokens) /\ ~KeyLast(sent') /\ (alone => Undone(sent') = Undone(sent))
<1>1. sent' = IF alone THEN sent \o ttywrite(<<"key", "cr">>) ELSE <<>>
  BY DEF Return, Noted
<1>2. sent \in Seq(Tokens) /\ <<>> \in Seq(Tokens) /\ ~KeyLast(<<>>)
  BY DEF Types, KeyLast
<1> QED
  BY <1>1, <1>2, ReturnWrites

LEMMA ReturnTyped ==
  ASSUME Held, Return
  PROVE Held'
<1>1. Types /\ Kept /\ Chunks
      /\ UNCHANGED <<owner, mine, other, prop, events, mask, call, modes, text, alone>>
  BY DEF Held, Return
<1>2. sent' \in Seq(Tokens) /\ ~KeyLast(sent')
  BY <1>1, ReturnSent
<1>3. Types'
  BY <1>1, <1>2 DEF Types, modes
<1>4. Kept' /\ Chunks'
  BY <1>1 DEF Kept, Chunks, Content
<1> QED
  BY <1>3, <1>4 DEF Held

LEMMA ModesTyped ==
  ASSUME Held, tsetmode
  PROVE Held'
<1>1. Types /\ Kept /\ Chunks
      /\ UNCHANGED <<owner, mine, other, prop, events, mask, call, sent, text, alone>>
  BY DEF Held, tsetmode
<1>2. termmode' \subseteq 0 .. 20 /\ winmode' \subseteq 0 .. 20
  <2>1. MODE_CRLF \in 0 .. 20 /\ MODE_MOUSEBTN \in 0 .. 20 /\ MODE_BRCKTPASTE \in 0 .. 20
    BY DEF MODE_CRLF, MODE_MOUSEBTN, MODE_BRCKTPASTE
  <2>2. \A w \in SUBSET (0 .. 20) : \A b \in 0 .. 20 : Switch(w, b) \subseteq 0 .. 20
    BY DEF Switch
  <2>3. termmode \subseteq 0 .. 20 /\ winmode \subseteq 0 .. 20
    BY <1>1 DEF Types
  <2>4. \/ winmode' = Switch(winmode, MODE_BRCKTPASTE) /\ termmode' = termmode
        \/ winmode' = Switch(winmode, MODE_MOUSEBTN) /\ termmode' = termmode
        \/ termmode' = Switch(termmode, MODE_CRLF) /\ winmode' = winmode
    BY DEF tsetmode
  <2> QED
    BY <2>1, <2>2, <2>3, <2>4
<1>3. Types'
  BY <1>1, <1>2 DEF Types, KeyLast
<1>4. Kept' /\ Chunks'
  BY <1>1 DEF Kept, Chunks, Content
<1> QED
  BY <1>3, <1>4 DEF Held

LEMMA NextTyped ==
  ASSUME Held, [Next]_vars
  PROVE Held'
<1>1. CASE selrequest
  BY <1>1, RequestServedTyped
<1>2. CASE Ignore
  BY <1>2, IgnoreTyped
<1>3. CASE selnotify
  BY <1>3, EnterTyped, BeginIncrTyped, GetChunkTyped, StartTyped, DataTyped, EndTyped DEF selnotify
<1>4. CASE Return
  BY <1>4, ReturnTyped
<1>5. CASE tsetmode
  BY <1>5, ModesTyped
<1>6. CASE \/ \E x \in Sels : OtherTakes(x)
           \/ \E s \in Owned : setsel(s)
           \/ clipcopy
  BY <1>6, OwnersTyped
<1>7. ASSUME NEW x \in Sels, RequestPaste(x)
      PROVE Held'
  BY <1>7, RequestTyped
<1>8. ASSUME NEW x \in Sels, Answers(x)
      PROVE Held'
  BY <1>8, RefuseTyped, SendWholeTyped, StartIncrTyped, SendPieceTyped DEF Answers
<1>9. CASE UNCHANGED vars
  BY <1>9 DEF vars, modes, history, Held, Types, Kept, Chunks, Content, On, KeyLast
<1> QED
  BY <1>1, <1>2, <1>3, <1>4, <1>5, <1>6, <1>7, <1>8, <1>9 DEF Next, Handlers

LEMMA AlwaysTyped == Spec => []Held
BY InitTyped, NextTyped, PTL DEF Spec

\* Every reachable state has the types of selnotify's variables and of the protocol; what
\* a chunk holds fits the buffer, and no rest is negative.
THEOREM PasteTyped == Spec => []TypeOK
<1>1. Held => TypeOK
  <2> SUFFICES ASSUME Held
               PROVE TypeOK
    OBVIOUS
  <2>0. Types /\ Chunks
    BY DEF Held
  <2>1. \A x \in Sels : mine[x] = NoText \/ \E s \in Owned : mine[x] = Text(s)
    BY <2>0 DEF Types, Owns
  <2>2. \A x \in Sels : other[x].st \in {"idle", "asked", "sending"}
    BY <2>0 DEF Types, Senders
  <2>3. \A x \in Sels : prop[x].t \in {"none", "incr", "text"}
    BY <2>0, ValueFacts DEF Types
  <2>4. \A k \in DOMAIN events : events[k].sel \in Sels
    <3>1. events \in Seq(Records)
      BY <2>0 DEF Types
    <3>2. \A k \in DOMAIN events : events[k] \in Records
      BY <3>1
    <3> QED
      BY <3>2 DEF Records
  <2>5. \A k \in DOMAIN sent : sent[k] \in Tokens
    <3>1. sent \in Seq(Tokens)
      BY <2>0 DEF Types
    <3> QED
      BY <3>1
  <2>6. call # Returned => Len(call.data) <= Chunk /\ call.rem >= 0
    BY <2>0, CallGiven DEF Chunks
  <2> QED
    BY <2>0, <2>1, <2>2, <2>3, <2>4, <2>5, <2>6 DEF Types, TypeOK
<1> QED
  BY <1>1, AlwaysTyped, PTL

-----------------------------------------------------------------------------
\* What is left of the text.
LEMMA RestNothing ==
  ASSUME NEW g \in Nat, NEW o \in Seq(Bytes)
  PROVE RestOf(<<>>, g, o) = o
<1>1. Len(<<>>) = 0 /\ 0 < g + 1
  OBVIOUS
<1>2. SubSeq(<<>>, g + 1, Len(<<>>)) = <<>>
  BY <1>1, SubSeqEmpty
<1> QED
  BY <1>2, ConcatEmptySeq DEF RestOf

\* Of the whole, of nothing, of one chunk more: what is left of a transfer.
LEMMA RestAll ==
  ASSUME NEW w \in Seq(Bytes), NEW o \in Seq(Bytes)
  PROVE RestOf(w, 0, o) = w \o o
<1>1. 0 + 1 = 1
  OBVIOUS
<1>2. SubSeq(w, 0 + 1, Len(w)) = w
  BY <1>1, SubSeqFull
<1> QED
  BY <1>2 DEF RestOf

LEMMA RestDone ==
  ASSUME NEW w \in Seq(Bytes), NEW o \in Seq(Bytes)
  PROVE RestOf(w, Len(w), o) = o
<1>1. Len(w) \in Nat
  BY LenProperties
<1>2. SubSeq(w, Len(w) + 1, Len(w)) = <<>>
  BY <1>1, SubSeqEmpty
<1> QED
  BY <1>2, ConcatEmptySeq DEF RestOf

\* Balance makes what was sent a beginning of the text.
LEMMA PrefixOfSum ==
  ASSUME NEW u \in Seq(Bytes), NEW r \in Seq(Bytes)
  PROVE IsPrefix(u, u \o r)
<1> DEFINE v == u \o r
<1>1. /\ v \in Seq(Bytes) /\ Len(v) = Len(u) + Len(r) /\ Len(u) \in Nat /\ Len(r) \in Nat
      /\ \A i \in 1 .. Len(u) : v[i] = u[i]
  BY ConcatProperties, LenProperties
<1> HIDE DEF v
<1>2. \A i \in 1 .. Len(u) : v[i] \in Bytes
  BY <1>1, ElementOfSeq
<1>3. /\ SubSeq(v, 1, Len(u)) \in Seq(Bytes)
      /\ Len(SubSeq(v, 1, Len(u))) = Len(u)
      /\ \A i \in 1 .. Len(u) : SubSeq(v, 1, Len(u))[i] = v[i]
  <2> DEFINE n == Len(u)
  <2>1. n \in Nat
    BY <1>1
  <2>2. /\ SubSeq(v, 1, n) \in Seq(Bytes)
        /\ Len(SubSeq(v, 1, n)) = IF 1 <= n THEN n - 1 + 1 ELSE 0
        /\ \A i \in 1 .. n - 1 + 1 : SubSeq(v, 1, n)[i] = v[1 + i - 1]
    BY <1>2, <2>1, SubSeqProperties
  <2> HIDE DEF n
  <2> QED
    BY <2>1, <2>2 DEF n
<1>4. \A i \in 1 .. Len(u) : SubSeq(v, 1, Len(u))[i] = u[i]
  BY <1>1, <1>3
<1>5. SubSeq(v, 1, Len(u)) = u
  BY <1>3, <1>4, SeqEqual
<1>6. SubSeq(u, 1, Len(u)) = u
  BY SubSeqFull
<1>7. Len(u) <= Len(v)
  BY <1>1
<1> QED
  BY <1>1, <1>5, <1>6, <1>7 DEF IsPrefix, v

LEMMA RestTyped ==
  ASSUME NEW w \in Seq(Bytes), NEW o \in Seq(Bytes), NEW g \in Nat
  PROVE RestOf(w, g, o) \in Seq(Bytes)
<1>1. Len(w) \in Nat /\ \A i \in g + 1 .. Len(w) : w[i] \in Bytes
  BY LenProperties, ElementOfSeq
<1>2. SubSeq(w, g + 1, Len(w)) \in Seq(Bytes)
  BY <1>1, SubSeqProperties
<1> QED
  BY <1>2, ConcatProperties DEF RestOf

\* A chunk moves from what is left to what was sent.
LEMMA RestStep ==
  ASSUME NEW w \in Seq(Bytes), NEW o \in Seq(Bytes), NEW g \in Nat, NEW d \in Seq(Bytes),
         d = SubSeq(w, g + 1, g + Len(d)), g + Len(d) <= Len(w)
  PROVE RestOf(w, g, o) = d \o RestOf(w, g + Len(d), o)
<1> DEFINE k == g + Len(d)
           e == SubSeq(w, k + 1, Len(w))
<1>1. Len(w) \in Nat /\ Len(d) \in Nat /\ k \in Nat /\ k <= Len(w)
      /\ \A i \in k + 1 .. Len(w) : w[i] \in Bytes
  BY LenProperties, ElementOfSeq
<1> HIDE DEF k
<1>2. e \in Seq(Bytes)
  BY <1>1, SubSeqProperties
<1>3. SubSeq(w, g + 1, k) \o SubSeq(w, k + 1, Len(w)) = SubSeq(w, g + 1, Len(w))
  <2> DEFINE m == g + 1
  <2>1. m \in 1 .. Len(w) + 1 /\ k \in m - 1 .. Len(w) /\ Len(w) \in k .. Len(w)
    BY <1>1 DEF k
  <2> HIDE DEF m
  <2>2. SubSeq(w, m, k) \o SubSeq(w, k + 1, Len(w)) = SubSeq(w, m, Len(w))
    BY <2>1, ConcatAdjacentSubSeq
  <2> QED
    BY <2>2 DEF m
<1>4. SubSeq(w, g + 1, Len(w)) = d \o e
  BY <1>3 DEF k
<1> HIDE DEF e
<1>5. (d \o e) \o o = d \o (e \o o)
  BY <1>2, Regroup
<1> QED
  BY <1>4, <1>5 DEF RestOf, k, e

\* Queues of one and two events.
LEMMA OneEvent ==
  ASSUME NEW x \in Sels, NEW k \in Kinds
  PROVE /\ <<Event(k, x)>> # <<>> /\ Head(<<Event(k, x)>>).k = k /\ Head(<<Event(k, x)>>).sel = x
        /\ Tail(<<Event(k, x)>>) = <<>>
        /\ Append(<<>>, Event(k, x)) = <<Event(k, x)>> /\ <<>> \o <<Event(k, x)>> = <<Event(k, x)>>
<1>1. /\ Event(k, x) \in Records /\ Event(k, x).sel = x /\ Event(k, x).k = k
      /\ <<Event(k, x)>> \in Seq(Records)
  BY EventTypes
<1> DEFINE e == Event(k, x)
<1> HIDE DEF e
<1>2. <<e>> # <<>> /\ Head(<<e>>) = e /\ Tail(<<e>>) = <<>> /\ Append(<<>>, e) = <<e>>
  OBVIOUS
<1>3. <<>> \o <<e>> = <<e>>
  BY <1>1, ConcatEmptySeq DEF e
<1> QED
  BY <1>1, <1>2, <1>3 DEF e

LEMMA TwoEvents ==
  ASSUME NEW x \in Sels, NEW k \in Kinds, NEW j \in Kinds
  PROVE LET q == <<Event(k, x), Event(j, x)>>
        IN /\ q # <<>> /\ Head(q).k = k /\ Head(q).sel = x /\ Tail(q) = <<Event(j, x)>>
           /\ Append(<<Event(k, x)>>, Event(j, x)) = q
           /\ <<Event(k, x)>> \o <<Event(j, x)>> = q
<1>1. /\ Event(k, x) \in Records /\ Event(k, x).sel = x /\ Event(k, x).k = k
      /\ <<Event(k, x)>> \in Seq(Records) /\ Event(j, x) \in Records
      /\ <<Event(j, x)>> \in Seq(Records)
  BY EventTypes
<1> DEFINE e == Event(k, x)
           f == Event(j, x)
<1>2. e \in Records /\ f \in Records /\ <<e>> \in Seq(Records) /\ e.sel = x /\ e.k = k
  BY <1>1
<1> HIDE DEF e, f
<1>3. Append(<<>>, e) = <<e>> /\ <<>> \in Seq(Records) /\ Tail(<<e>>) = <<>>
  OBVIOUS
<1>4. <<>> \o <<e, f>> = Append(Append(<<>>, e), f) /\ <<e, f>> \in Seq(Records)
  BY <1>2, <1>3, AppendPair
<1>5. <<e, f>> = Append(<<e>>, f)
  BY <1>3, <1>4, ConcatEmptySeq
<1>6. <<e>> \o <<f>> = Append(<<e>>, f)
  BY <1>2, AppendIsConcat
<1>7. <<e, f>> # <<>> /\ Head(<<e, f>>) = e
  OBVIOUS
<1>8. <<e>> # <<>> /\ Append(<<>>, f) = <<f>>
  OBVIOUS
<1>9. Tail(Append(<<e>>, f)) = Append(Tail(<<e>>), f)
  BY <1>2, <1>8, HeadTailAppend
<1> QED
  BY <1>2, <1>3, <1>5, <1>6, <1>7, <1>8, <1>9 DEF e, f

-----------------------------------------------------------------------------
\* The stages of a transfer that is alone.
LEMMA SenderFacts ==
  ASSUME Types, NEW x \in Sels
  PROVE other[x].s \in Seq(Bytes) /\ prop[x] \in Values /\ Undone(sent) \in Seq(Bytes) /\ Got \in Nat
<1>1. "a" \in Tokens
  BY DEF Tokens
<1>2. Undone(sent) \in Seq(Bytes)
  BY <1>1, UndoneAppend DEF Types
<1>3. Got \in Nat
  BY CallGiven DEF Got
<1> QED
  BY <1>2, <1>3 DEF Types, Senders

\* What leaves the transfer alone leaves its stage.
LEMMA Undisturbed ==
  ASSUME Alone, alone' => alone, UNCHANGED <<other, prop, events, mask, call, text>>,
         alone => Undone(sent') = Undone(sent)
  PROVE Alone'
<1> SUFFICES ASSUME alone'
             PROVE \E x \in Sels : Pasting(x)'
  BY DEF Alone
<1>1. PICK x \in Sels : Pasting(x)
  BY DEF Alone
<1>2. Others(x)' /\ ReadsChunk'
  BY <1>1 DEF Pasting, Others, Empty, ReadsChunk, Content
<1>3. Balance(x)'
  BY <1>1 DEF Pasting, Balance, Rest, Got, Content
<1>4. Stage(x)'
  BY <1>1 DEF Pasting, Stage, Resting, Refused, Requested, Asked, WholeSent, WholeRead, IncrSent,
              IncrRead, PieceDue, PieceSent, PieceRead, Queued, Reading, Empty, Content
<1> QED
  BY <1>2, <1>3, <1>4 DEF Pasting

\* One lemma for each action, which goes from a stage to the next.
LEMMA InitAlone == Init => Alone
<1> SUFFICES ASSUME Init
             PROVE Alone
  OBVIOUS
<1> DEFINE x == "PRIMARY"
<1>1. Held /\ x \in Sels
  BY InitTyped DEF Sels
<1>2. /\ \A y \in Sels : other[y].st = "idle" /\ other[y].s = <<>> /\ prop[y] = None
      /\ call = Returned /\ events = <<>> /\ mask = FALSE /\ sent = <<>> /\ text = <<>>
  BY DEF Init
<1> HIDE DEF x
<1>3. Resting(x) /\ Others(x) /\ ReadsChunk
  BY <1>1, <1>2 DEF Resting, Others, ReadsChunk, Queued, Empty, None
<1>4. Content(x) = <<>> /\ Got = 0
  BY <1>1, <1>2 DEF Content, Got, None
<1>5. Rest(x) = <<>>
  <2>1. <<>> \in Seq(Bytes) /\ 0 \in Nat
    OBVIOUS
  <2>2. RestOf(<<>>, 0, <<>>) = <<>>
    BY <2>1, RestNothing
  <2> QED
    BY <1>1, <1>2, <1>4, <2>2 DEF Rest
<1>6. Balance(x)
  <2>1. <<>> \o <<>> = <<>>
    OBVIOUS
  <2> QED
    BY <1>2, <1>5, <2>1, UndoneNothing DEF Balance
<1> QED
  BY <1>1, <1>3, <1>6 DEF Alone, Pasting, Stage

\* Nothing under way: the transfer rests.
LEMMA NothingUnderway ==
  ASSUME Types, NEW x \in Sels, Pasting(x), ~Underway
  PROVE /\ Resting(x) /\ \A y \in Sels : other[y].st = "idle" /\ Empty(y) /\ prop[y] = None
<1>1. events = <<>> /\ call = Returned /\ other[x].st = "idle"
  BY DEF Underway
<1>2. \A k \in Kinds : <<Event(k, x)>> # <<>>
  BY OneEvent
<1>3. \A j, k \in Kinds : <<Event(j, x), Event(k, x)>> # <<>>
  BY TwoEvents
<1>4. "refused" \in Kinds /\ "request" \in Kinds /\ "selection" \in Kinds /\ "deleted" \in Kinds
      /\ "newvalue" \in Kinds
  BY DEF Kinds
<1>5. Resting(x)
  BY <1>1, <1>2, <1>3, <1>4 DEF Pasting, Stage, Refused, Requested, Asked, WholeSent, WholeRead,
     IncrSent, IncrRead, PieceDue, PieceSent, PieceRead, Queued, Reading
<1>6. prop[x] = None
  BY <1>5, SenderFacts, ValueFacts DEF Resting, Queued
<1> QED
  BY <1>1, <1>5, <1>6 DEF Pasting, Others, Resting

LEMMA RequestAlone ==
  ASSUME Held, Held', Alone, NEW y \in Sels, RequestPaste(y)
  PROVE Alone'
<1> SUFFICES ASSUME alone'
             PROVE \E x \in Sels : Pasting(x)'
  BY DEF Alone
<1>0. Types /\ alone /\ ~Underway
  BY DEF RequestPaste, Held
<1>1. PICK x \in Sels : Pasting(x)
  BY <1>0 DEF Alone
<1>2. /\ Resting(x) /\ \A z \in Sels : other[z].st = "idle" /\ Empty(z) /\ prop[z] = None
  BY <1>0, <1>1, NothingUnderway
<1>3. /\ events = <<>> /\ call = Returned /\ mask = FALSE /\ call' = Returned /\ mask' = FALSE
      /\ UNCHANGED prop /\ sent' = <<>> /\ text' = <<>>
  BY <1>2 DEF Resting, Queued, RequestPaste
<1>4. \/ UNCHANGED other /\ \/ events' = Append(<<>>, Event("refused", y))
                            \/ events' = Append(<<>>, Event("request", y))
      \/ other' = [other EXCEPT ![y].st = "asked"] /\ events' = <<>>
  BY <1>3 DEF RequestPaste
<1>5. other \in [Sels -> Senders]
  BY <1>0 DEF Types
<1>6. /\ Empty(y)' /\ Others(y)' /\ prop'[y].t = "none"
  BY <1>2, <1>3, <1>4, <1>5 DEF Empty, Others, None, Senders
<1>7. Append(<<>>, Event("refused", y)) = <<Event("refused", y)>>
      /\ Append(<<>>, Event("request", y)) = <<Event("request", y)>>
  <2>1. "refused" \in Kinds /\ "request" \in Kinds
    BY DEF Kinds
  <2> QED
    BY <2>1, OneEvent
<1>8. Stage(y)'
  <2>1. CASE /\ other' = other
             /\ \/ events' = Append(<<>>, Event("refused", y))
                \/ events' = Append(<<>>, Event("request", y))
    <3>1. other'[y].st = "idle"
      <4>1. other' = other
        BY <2>1
      <4>2. other[y].st = "idle"
        BY <1>2
      <4> QED
        BY <4>1, <4>2
    <3> QED
      BY <1>3, <1>6, <1>7, <2>1, <3>1 DEF Stage, Refused, Requested, Queued
  <2>2. CASE other' = [other EXCEPT ![y].st = "asked"] /\ events' = <<>>
    <3>1. other'[y].st = "asked"
      BY <1>5, <2>2 DEF Senders
    <3> QED
      BY <1>3, <1>6, <2>2, <3>1 DEF Stage, Asked, Queued
  <2> QED
    BY <1>4, <2>1, <2>2
<1>9. Balance(y)'
  <2>1. Content(y)' = <<>> /\ Got' = 0 /\ other'[y].s = <<>>
    BY <1>3, <1>6 DEF Content, Got, Empty
  <2>2. RestOf(<<>>, 0, <<>>) = <<>> /\ <<>> \o <<>> = <<>>
    <3>1. <<>> \in Seq(Bytes) /\ 0 \in Nat
      OBVIOUS
    <3> QED
      BY <3>1, RestNothing, ConcatEmptySeq
  <2> QED
    BY <1>3, <2>1, <2>2, UndoneNothing DEF Balance, Rest
<1>10. ReadsChunk'
  BY <1>3 DEF ReadsChunk
<1> QED
  BY <1>6, <1>8, <1>9, <1>10 DEF Pasting

LEMMA RestFacts ==
  ASSUME Types, NEW x \in Sels
  PROVE Rest(x) \in Seq(Bytes)
BY ContentFacts, SenderFacts, RestTyped DEF Rest

\* Before the text is known nothing was sent.
LEMMA NothingSent ==
  ASSUME Types, NEW x \in Sels, Pasting(x), text = <<>>
  PROVE Undone(sent) = <<>>
<1>1. Rest(x) \in Seq(Bytes) /\ Undone(sent) \in Seq(Bytes)
  BY RestFacts, SenderFacts
<1>2. Undone(sent) \o Rest(x) = <<>>
  BY DEF Pasting, Balance
<1> QED
  BY <1>1, <1>2, ConcatEqualIffEmpty

\* An owner that is to answer, one that is to go on, and an event that is handled belong to
\* the one paste and tell its stage.
LEMMA AskedOnly ==
  ASSUME NEW x \in Sels, Pasting(x), NEW y \in Sels, other[y].st = "asked"
  PROVE y = x /\ Asked(x)
<1>1. y = x
  BY DEF Pasting, Others
<1>2. Asked(x)
  BY <1>1 DEF Pasting, Stage, Resting, Refused, Requested, WholeSent, WholeRead, IncrSent, IncrRead,
              PieceDue, PieceSent, PieceRead, Queued, Reading
<1> QED
  BY <1>1, <1>2

LEMMA DueOnly ==
  ASSUME NEW x \in Sels, Pasting(x), NEW y \in Sels, other[y].st = "sending", prop[y] = None
  PROVE y = x /\ PieceDue(x)
<1>1. y = x
  BY DEF Pasting, Others
<1>2. prop[x].t = "none"
  BY <1>1 DEF None
<1>3. PieceDue(x)
  BY <1>1, <1>2 DEF Pasting, Stage, Resting, Refused, Requested, Asked, WholeSent, WholeRead,
              IncrSent, IncrRead, PieceSent, PieceRead, Queued, Reading
<1> QED
  BY <1>1, <1>3

LEMMA PoppedOnly ==
  ASSUME NEW x \in Sels, Pasting(x), NEW k \in Kinds, Pop(k)
  PROVE /\ Head(events).sel = x
        /\ k = "refused" => Refused(x) /\ Tail(events) = <<>>
        /\ k = "request" => Requested(x) /\ Tail(events) = <<>>
        /\ k = "selection" => (WholeSent(x) \/ IncrSent(x)) /\ Tail(events) = <<>>
        /\ k = "newvalue" => PieceSent(x) /\ Tail(events) = <<>>
        /\ k = "deleted" => \/ PieceDue(x) /\ Tail(events) = <<>>
                            \/ PieceSent(x) /\ Tail(events) = <<Event("newvalue", x)>>
<1>0. events # <<>> /\ Head(events).k = k /\ call = Returned
  BY DEF Pop
<1>1. \A j \in Kinds : events = <<Event(j, x)>> =>
        j = k /\ Head(events).sel = x /\ Tail(events) = <<>>
  BY <1>0, OneEvent
<1>2. events = <<Event("deleted", x), Event("newvalue", x)>> =>
        "deleted" = k /\ Head(events).sel = x /\ Tail(events) = <<Event("newvalue", x)>>
  <2>1. "deleted" \in Kinds /\ "newvalue" \in Kinds
    BY DEF Kinds
  <2> DEFINE q == <<Event("deleted", x), Event("newvalue", x)>>
  <2>2. Head(q).k = "deleted" /\ Head(q).sel = x /\ Tail(q) = <<Event("newvalue", x)>>
    <3>1. /\ q # <<>> /\ Head(q) = Event("deleted", x)
          /\ Tail(q) = <<Event("newvalue", x)>>
      OBVIOUS
    <3>2. Event("deleted", x).k = "deleted" /\ Event("deleted", x).sel = x
      BY DEF Event
    <3> QED
      BY <3>1, <3>2
  <2> HIDE DEF q
  <2>3. events = q => "deleted" = k /\ Head(events).sel = x /\ Tail(events) = <<Event("newvalue", x)>>
    BY <1>0, <2>2
  <2> QED
    BY <2>3 DEF q
<1>3. "refused" \in Kinds /\ "request" \in Kinds /\ "selection" \in Kinds /\ "deleted" \in Kinds
      /\ "newvalue" \in Kinds
  BY DEF Kinds
<1>4. CASE Refused(x)
  BY <1>1, <1>3, <1>4 DEF Refused, Queued
<1>5. CASE Requested(x)
  BY <1>1, <1>3, <1>5 DEF Requested, Queued
<1>6. CASE WholeSent(x)
  BY <1>1, <1>3, <1>6 DEF WholeSent, Queued
<1>7. CASE IncrSent(x)
  BY <1>1, <1>3, <1>7 DEF IncrSent, Queued
<1>8. CASE PieceDue(x)
  <2>1. events = <<Event("deleted", x)>>
    BY <1>0, <1>8 DEF PieceDue, Queued
  <2> QED
    BY <1>1, <1>3, <1>8, <2>1
<1>9. CASE PieceSent(x)
  <2>1. events = <<Event("newvalue", x)>> \/ events = <<Event("deleted", x), Event("newvalue", x)>>
    BY <1>9 DEF PieceSent
  <2>2. CASE events = <<Event("newvalue", x)>>
    BY <1>1, <1>3, <1>9, <2>2
  <2>3. CASE events = <<Event("deleted", x), Event("newvalue", x)>>
    BY <1>2, <1>3, <1>9, <2>3
  <2> QED
    BY <2>1, <2>2, <2>3
<1>10. CASE Resting(x) \/ Asked(x) \/ WholeRead(x) \/ IncrRead(x) \/ PieceRead(x)
  BY <1>0, <1>10 DEF Resting, Asked, WholeRead, IncrRead, PieceRead, Queued, Reading
<1> QED
  BY <1>4, <1>5, <1>6, <1>7, <1>8, <1>9, <1>10 DEF Pasting, Stage

LEMMA RefuseAlone ==
  ASSUME Held, Held', Alone, NEW y \in Sels, Refuse(y)
  PROVE Alone'
<1> SUFFICES ASSUME alone'
             PROVE \E x \in Sels : Pasting(x)'
  BY DEF Alone
<1>0. /\ Types /\ alone /\ UNCHANGED <<owner, mine, prop, mask, call, modes, history>>
      /\ other' = [other EXCEPT ![y].st = "idle"] /\ other[y].st = "asked"
      /\ events' = Append(events, Event("refused", y)) /\ "refused" \in Kinds
  BY DEF Refuse, Held, history, Kinds
<1>1. PICK x \in Sels : Pasting(x)
  BY <1>0 DEF Alone
<1>2. y = x /\ Asked(x) /\ Others(x)
  BY <1>0, <1>1, AskedOnly DEF Pasting
<1>3. /\ other'[x].st = "idle" /\ other'[x].s = other[x].s
      /\ \A z \in Sels : z # x => other'[z] = other[z]
  BY <1>0, <1>2 DEF Types, Senders
<1>4. events' = <<Event("refused", x)>>
  BY <1>0, <1>2, OneEvent DEF Asked, Queued
<1>5. Refused(x)'
  BY <1>0, <1>2, <1>3, <1>4 DEF Asked, Refused, Queued, Empty
<1>6. Others(x)'
  BY <1>0, <1>2, <1>3 DEF Others, Empty
<1>7. Balance(x)' /\ ReadsChunk'
  BY <1>0, <1>1, <1>3 DEF Pasting, Balance, Rest, Got, Content, ReadsChunk, history
<1> QED
  BY <1>5, <1>6, <1>7 DEF Pasting, Stage

\* The text is known from now on: whole in the property, or with its owner.
LEMMA SendWholeAlone ==
  ASSUME Held, Held', Alone, NEW y \in Sels, NEW t \in Texts, SendWhole(y, t)
  PROVE Alone'
<1> SUFFICES ASSUME alone'
             PROVE \E x \in Sels : Pasting(x)'
  BY DEF Alone
<1>0. /\ Types /\ alone /\ UNCHANGED <<owner, mine, mask, call, modes, sent, alone, acts>>
      /\ other' = [other EXCEPT ![y].st = "idle"] /\ other[y].st = "asked"
      /\ Changed(y, Text(t), Answered(y)) /\ text' = t
  BY DEF SendWhole, Held, Noted
<1>1. PICK x \in Sels : Pasting(x)
  BY <1>0 DEF Alone
<1>2. y = x /\ Asked(x) /\ Others(x) /\ mask = FALSE /\ events = <<>> /\ call = Returned
  BY <1>0, <1>1, AskedOnly DEF Pasting, Asked, Queued
<1>3. /\ other'[x].st = "idle" /\ other'[x].s = <<>>
      /\ \A z \in Sels : z # x => other'[z] = other[z]
  BY <1>0, <1>2 DEF Types, Senders, Asked, Empty
<1>4. t \in Seq(Bytes) /\ Text(t) \in Values /\ Text(t).t = "text" /\ Text(t).s = t
  BY TextsAssumption, TextFacts DEF Values
<1>5. /\ prop'[x] = Text(t) /\ \A z \in Sels : z # x => prop'[z] = prop[z]
  BY <1>0, <1>2, <1>4, ChangedFacts
<1>6. events' = <<Event("selection", x)>>
  <2>1. "selection" \in Kinds /\ <<>> \o <<>> = <<>>
    BY DEF Kinds
  <2>2. events' = <<>> \o <<>> \o <<Event("selection", x)>>
    BY <1>0, <1>2 DEF Changed, Answered
  <2> QED
    BY <2>1, <2>2, OneEvent
<1>7. WholeSent(x)'
  BY <1>0, <1>2, <1>3, <1>4, <1>5, <1>6 DEF WholeSent, Queued, Empty
<1>8. Others(x)' /\ ReadsChunk'
  BY <1>0, <1>2, <1>3, <1>5 DEF Others, Empty, ReadsChunk
<1>9. Balance(x)'
  <2>1. Undone(sent') = <<>>
    BY <1>0, <1>1, <1>2, NothingSent DEF Asked
  <2>2. Content(x)' = t /\ Got' = 0
    BY <1>0, <1>2, <1>4, <1>5 DEF Content, Got
  <2>3. RestOf(t, 0, <<>>) = t
    <3>1. <<>> \in Seq(Bytes)
      OBVIOUS
    <3> QED
      BY <1>4, <3>1, RestAll, ConcatEmptySeq
  <2>4. <<>> \o t = t
    BY <1>4, ConcatEmptySeq
  <2> QED
    BY <1>0, <1>3, <2>1, <2>2, <2>3, <2>4 DEF Balance, Rest
<1> QED
  BY <1>7, <1>8, <1>9 DEF Pasting, Stage

LEMMA StartIncrAlone ==
  ASSUME Held, Held', Alone, NEW y \in Sels, NEW t \in Texts, StartIncr(y, t)
  PROVE Alone'
<1> SUFFICES ASSUME alone'
             PROVE \E x \in Sels : Pasting(x)'
  BY DEF Alone
<1>0. /\ Types /\ alone /\ UNCHANGED <<owner, mine, mask, call, modes, sent, alone, acts>>
      /\ other' = [other EXCEPT ![y] = [st |-> "sending", s |-> t]] /\ other[y].st = "asked"
      /\ Changed(y, Incr, Answered(y)) /\ text' = t
  BY DEF StartIncr, Held, Noted
<1>1. PICK x \in Sels : Pasting(x)
  BY <1>0 DEF Alone
<1>2. y = x /\ Asked(x) /\ Others(x) /\ mask = FALSE /\ events = <<>> /\ call = Returned
  BY <1>0, <1>1, AskedOnly DEF Pasting, Asked, Queued
<1>3. /\ other'[x].st = "sending" /\ other'[x].s = t
      /\ \A z \in Sels : z # x => other'[z] = other[z]
  BY <1>0, <1>2 DEF Types
<1>4. t \in Seq(Bytes) /\ Incr \in Values /\ Incr.t = "incr"
  BY TextsAssumption DEF Values, Incr
<1>5. /\ prop'[x] = Incr /\ \A z \in Sels : z # x => prop'[z] = prop[z]
  BY <1>0, <1>2, <1>4, ChangedFacts
<1>6. events' = <<Event("selection", x)>>
  <2>1. "selection" \in Kinds /\ <<>> \o <<>> = <<>>
    BY DEF Kinds
  <2>2. events' = <<>> \o <<>> \o <<Event("selection", x)>>
    BY <1>0, <1>2 DEF Changed, Answered
  <2> QED
    BY <2>1, <2>2, OneEvent
<1>7. IncrSent(x)'
  BY <1>0, <1>2, <1>3, <1>4, <1>5, <1>6 DEF IncrSent, Queued
<1>8. Others(x)' /\ ReadsChunk'
  BY <1>0, <1>2, <1>3, <1>5 DEF Others, Empty, ReadsChunk
<1>9. Balance(x)'
  <2>1. Undone(sent') = <<>>
    BY <1>0, <1>1, <1>2, NothingSent DEF Asked
  <2>2. Content(x)' = <<>> /\ Got' = 0
    BY <1>0, <1>2, <1>4, <1>5 DEF Content, Got
  <2>3. RestOf(<<>>, 0, t) = t
    BY <1>4, RestNothing
  <2>4. <<>> \o t = t
    BY <1>4, ConcatEmptySeq
  <2> QED
    BY <1>0, <1>3, <2>1, <2>2, <2>3, <2>4 DEF Balance, Rest
<1> QED
  BY <1>7, <1>8, <1>9 DEF Pasting, Stage

LEMMA SendPieceAlone ==
  ASSUME Held, Held', Alone, NEW y \in Sels, NEW n \in 0 .. Len(other[y].s), SendPiece(y, n)
  PROVE Alone'
<1> DEFINE q == other[y].s
           h == SubSeq(q, 1, n)
           r == SubSeq(q, n + 1, Len(q))
<1> SUFFICES ASSUME alone'
             PROVE \E x \in Sels : Pasting(x)'
  BY DEF Alone
<1>0. /\ Types /\ alone /\ UNCHANGED <<owner, mine, mask, call, modes, history>>
      /\ other' = [other EXCEPT ![y] = [st |-> IF n = 0 THEN "idle" ELSE "sending", s |-> r]]
      /\ other[y].st = "sending" /\ prop[y] = None
      /\ n = 0 => q = <<>>
      /\ Changed(y, Text(h), <<>>)
  BY DEF SendPiece, Held, history
<1>1. PICK x \in Sels : Pasting(x)
  BY <1>0 DEF Alone
<1>2. /\ y = x /\ PieceDue(x) /\ Others(x) /\ mask = TRUE /\ call = Returned
      /\ events = <<>> \/ events = <<Event("deleted", x)>>
  BY <1>0, <1>1, DueOnly DEF Pasting, PieceDue, Queued
<1>3. q \in Seq(Bytes) /\ h \in Seq(Bytes) /\ r \in Seq(Bytes) /\ Len(h) = n /\ h \o r = q
  BY <1>0, SenderFacts, SplitSeq
<1>4. n = 0 => r = <<>> /\ h = <<>>
  <2>1. <<>> \o r = r
    BY <1>3, ConcatEmptySeq
  <2>2. n = 0 => h = <<>>
    BY <1>3, EmptySeq
  <2> QED
    BY <1>0, <1>3, <2>1, <2>2
<1>5. n # 0 => h # <<>>
  BY <1>3, EmptySeq
<1> HIDE DEF q, h, r
<1>6. /\ other'[x].st = (IF n = 0 THEN "idle" ELSE "sending") /\ other'[x].s = r
      /\ \A z \in Sels : z # x => other'[z] = other[z]
  BY <1>0, <1>2 DEF Types
<1>7. Text(h) \in Values /\ Text(h).t = "text" /\ Text(h).s = h /\ Text(h) # None
  BY <1>3, TextFacts DEF Values
<1>8. prop'[x] = Text(h) /\ \A z \in Sels : z # x => prop'[z] = prop[z]
  BY <1>0, <1>2, <1>7, ChangedFacts
<1>9. \/ events' = <<Event("newvalue", x)>>
      \/ events' = <<Event("deleted", x), Event("newvalue", x)>>
  <2> DEFINE e == <<Event("newvalue", x)>>
             d == <<Event("deleted", x)>>
  <2>1. "newvalue" \in Kinds /\ "deleted" \in Kinds
    BY DEF Kinds
  <2>2. /\ <<>> \o e = e /\ e \in Seq(Records)
        /\ d \o e = <<Event("deleted", x), Event("newvalue", x)>> /\ d \o e \in Seq(Records)
    <3>1. d \in Seq(Records) /\ e \in Seq(Records)
      BY <2>1, EventTypes
    <3>2. d \o e \in Seq(Records)
      BY <3>1, ConcatProperties
    <3> QED
      BY <2>1, <3>1, <3>2, OneEvent, TwoEvents
  <2>3. events' = events \o e \o <<>>
    BY <1>0, <1>2, <1>7 DEF Changed
  <2> HIDE DEF e, d
  <2>4. events = <<>> \/ events = d
    BY <1>2 DEF d
  <2>5. events' = e \/ events' = d \o e
    BY <2>2, <2>3, <2>4, ConcatEmptySeq
  <2> QED
    BY <2>2, <2>5 DEF e
<1>10. Content(x)' = h /\ Got' = 0 /\ call' = Returned /\ mask' = TRUE
  BY <1>0, <1>2, <1>7, <1>8 DEF Content, Got
<1>11. PieceSent(x)'
  <2>1. n = 0 => Queued("idle", "text", x, events, TRUE)' /\ Content(x)' = <<>> /\ Empty(x)'
    BY <1>4, <1>6, <1>7, <1>8, <1>10 DEF Queued, Empty
  <2>2. n # 0 => Queued("sending", "text", x, events, TRUE)' /\ Content(x)' # <<>>
    BY <1>5, <1>6, <1>7, <1>8, <1>10 DEF Queued
  <2> QED
    BY <1>9, <2>1, <2>2 DEF PieceSent
<1>12. Others(x)' /\ ReadsChunk'
  BY <1>2, <1>6, <1>8, <1>10 DEF Others, Empty, ReadsChunk
<1>13. Balance(x)'
  <2>1. Content(x) = <<>> /\ Got = 0
    BY <1>0, <1>2 DEF Content, None, Got
  <2>2. Rest(x) = q
    <3>1. RestOf(<<>>, 0, q) = q
      BY <1>3, RestNothing
    <3> QED
      BY <1>2, <2>1, <3>1 DEF Rest, q
  <2>3. Rest(x)' = q
    <3>1. RestOf(h, 0, r) = h \o r
      BY <1>3, RestAll
    <3>2. Rest(x)' = RestOf(h, 0, r)
      BY <1>6, <1>10 DEF Rest
    <3> QED
      BY <1>3, <3>1, <3>2
  <2> QED
    BY <1>0, <1>1, <2>2, <2>3 DEF Pasting, Balance, history
<1> QED
  BY <1>11, <1>12, <1>13 DEF Pasting, Stage

\* slterm answers itself.
LEMMA RequestServedAlone ==
  ASSUME Held, Held', Alone, selrequest
  PROVE Alone'
<1> DEFINE y == Head(events).sel
           t == to_utf8(mine[y].s)
<1> SUFFICES ASSUME alone'
             PROVE \E x \in Sels : Pasting(x)'
  BY DEF Alone
<1>0. /\ Types /\ alone /\ UNCHANGED <<owner, mine, other, mask, call, modes, sent, alone, acts>>
      /\ Pop("request") /\ "request" \in Kinds /\ "refused" \in Kinds /\ "selection" \in Kinds
  BY DEF selrequest, Held, Kinds
<1>1. PICK x \in Sels : Pasting(x)
  BY <1>0 DEF Alone
<1>2. y = x /\ Requested(x) /\ Tail(events) = <<>>
  BY <1>0, <1>1, PoppedOnly
<1>3. /\ Others(x) /\ Empty(x) /\ call = Returned /\ other[x].st = "idle" /\ prop[x].t = "none"
      /\ mask = FALSE /\ text = <<>>
  BY <1>1, <1>2 DEF Pasting, Requested, Queued
<1>4. CASE mine[y] = NoText
  <2>1. events' = Append(<<>>, Event("refused", x)) /\ UNCHANGED <<prop, text>>
    BY <1>2, <1>4 DEF selrequest
  <2>2. events' = <<Event("refused", x)>>
    BY <1>0, <2>1, OneEvent
  <2>3. Refused(x)'
    BY <1>0, <1>3, <2>1, <2>2 DEF Refused, Queued, Empty
  <2>4. Others(x)' /\ Balance(x)' /\ ReadsChunk'
    BY <1>0, <1>1, <2>1 DEF Pasting, Others, Empty, Balance, Rest, Got, Content, ReadsChunk
  <2> QED
    BY <2>3, <2>4 DEF Pasting, Stage
<1>5. CASE mine[y] # NoText
  <2>1. /\ prop' = [prop EXCEPT ![x] = Text(t)] /\ text' = t
        /\ events' = <<>> \o <<>> \o <<Event("selection", x)>>
    BY <1>0, <1>2, <1>3, <1>5 DEF selrequest, Answered, Noted
  <2>2. t \in Seq(Bytes)
    <3>1. PICK s \in Owned : mine[x] = Text(s)
      BY <1>0, <1>2, <1>5 DEF Types, Owns
    <3>2. mine[x].s = s /\ s \in Seq(Chars)
      BY <3>1, TextFacts, TextsAssumption
    <3> QED
      BY <1>2, <3>2, Utf8Bytes
  <2>3. Text(t).t = "text" /\ Text(t).s = t
    BY TextFacts
  <2> HIDE DEF t
  <2>4. events' = <<Event("selection", x)>>
    <3>1. <<>> \o <<>> = <<>>
      OBVIOUS
    <3> QED
      BY <1>0, <2>1, <3>1, OneEvent
  <2>5. prop'[x] = Text(t) /\ \A z \in Sels : z # x => prop'[z] = prop[z]
    BY <1>0, <2>1 DEF Types
  <2>6. WholeSent(x)'
    BY <1>0, <1>3, <2>3, <2>4, <2>5 DEF WholeSent, Queued, Empty
  <2>7. Others(x)' /\ ReadsChunk'
    BY <1>0, <1>3, <2>5 DEF Others, Empty, ReadsChunk
  <2>8. Balance(x)'
    <3>1. Undone(sent') = <<>>
      BY <1>0, <1>1, <1>3, NothingSent
    <3>2. Content(x)' = t /\ Got' = 0 /\ other'[x].s = <<>>
      BY <1>0, <1>3, <2>3, <2>5 DEF Content, Got, Empty
    <3>3. RestOf(t, 0, <<>>) = t
      <4>1. <<>> \in Seq(Bytes)
        OBVIOUS
      <4> QED
        BY <2>2, <4>1, RestAll, ConcatEmptySeq
    <3>4. <<>> \o t = t
      BY <2>2, ConcatEmptySeq
    <3> QED
      BY <2>1, <3>1, <3>2, <3>3, <3>4 DEF Balance, Rest
  <2> QED
    BY <2>6, <2>7, <2>8 DEF Pasting, Stage
<1> QED
  BY <1>4, <1>5

LEMMA IgnoreAlone ==
  ASSUME Held, Held', Alone, Ignore
  PROVE Alone'
<1> SUFFICES ASSUME alone'
             PROVE \E x \in Sels : Pasting(x)'
  BY DEF Alone
<1>0. /\ alone /\ UNCHANGED <<owner, mine, other, prop, mask, call, modes, history>>
      /\ Pop("refused") \/ Pop("deleted")
      /\ "refused" \in Kinds /\ "deleted" \in Kinds /\ events' = Tail(events)
  BY DEF Ignore, history, Kinds
<1>1. PICK x \in Sels : Pasting(x)
  BY <1>0 DEF Alone
<1>2. \/ Refused(x) /\ events' = <<>>
      \/ PieceDue(x) /\ events' = <<>>
      \/ PieceSent(x) /\ events' = <<Event("newvalue", x)>>
  BY <1>0, <1>1, PoppedOnly
<1>3. Stage(x)'
  <2>1. CASE Refused(x) /\ events' = <<>>
    BY <1>0, <2>1 DEF Refused, Stage, Resting, Queued, Empty
  <2>2. CASE PieceDue(x) /\ events' = <<>>
    BY <1>0, <2>2 DEF PieceDue, Stage, Queued
  <2>3. CASE PieceSent(x) /\ events' = <<Event("newvalue", x)>>
    BY <1>0, <2>3 DEF PieceSent, Stage, Queued, Empty, Content
  <2> QED
    BY <1>2, <2>1, <2>2, <2>3
<1>4. Others(x)' /\ Balance(x)' /\ ReadsChunk'
  BY <1>0, <1>1 DEF Pasting, Others, Empty, Balance, Rest, Got, Content, ReadsChunk, history
<1> QED
  BY <1>3, <1>4 DEF Pasting

LEMMA EnterAlone ==
  ASSUME Held, Held', Alone, Enter
  PROVE Alone'
<1> SUFFICES ASSUME alone'
             PROVE \E x \in Sels : Pasting(x)'
  BY DEF Alone
<1>0. /\ alone /\ UNCHANGED <<owner, mine, other, prop, mask, modes, history>>
      /\ Pop("selection") \/ Pop("newvalue")
      /\ "selection" \in Kinds /\ "newvalue" \in Kinds /\ events' = Tail(events)
  BY DEF Enter, history, Kinds
<1>1. PICK x \in Sels : Pasting(x)
  BY <1>0 DEF Alone
<1>2. /\ Head(events).sel = x /\ events' = <<>> /\ call = Returned
      /\ \/ Head(events).k = "selection" /\ (WholeSent(x) \/ IncrSent(x))
         \/ Head(events).k = "newvalue" /\ PieceSent(x)
  BY <1>0, <1>1, PoppedOnly DEF Pop
<1>3. /\ call' \in Calls /\ call'.at = "get" /\ call'.ofs = 0 /\ call'.sel = x
      /\ call'.ev = Head(events).k /\ call' # Returned
  BY <1>2, EnterTyped, CallFacts
<1>4. Stage(x)'
  <2>1. CASE Head(events).k = "selection" /\ WholeSent(x)
    BY <1>0, <1>2, <1>3, <2>1 DEF WholeSent, WholeRead, Stage, Queued, Reading, Empty
  <2>2. CASE Head(events).k = "selection" /\ IncrSent(x)
    BY <1>0, <1>2, <1>3, <2>2 DEF IncrSent, IncrRead, Stage, Queued, Reading
  <2>3. CASE Head(events).k = "newvalue" /\ PieceSent(x)
    BY <1>0, <1>2, <1>3, <2>3 DEF PieceSent, PieceRead, Stage, Queued, Reading, Empty, Content
  <2> QED
    BY <1>2, <2>1, <2>2, <2>3
<1>5. Others(x)' /\ ReadsChunk'
  BY <1>0, <1>1, <1>3 DEF Pasting, Others, Empty, ReadsChunk
<1>6. Balance(x)'
  <2>1. Got = 0 /\ Got' = 0
    BY <1>2, <1>3 DEF Got
  <2> QED
    BY <1>0, <1>1, <2>1 DEF Pasting, Balance, Rest, Content, history
<1> QED
  BY <1>4, <1>5, <1>6 DEF Pasting

\* While selnotify is at work.
LEMMA CallOnly ==
  ASSUME NEW x \in Sels, Pasting(x), call # Returned
  PROVE /\ WholeRead(x) \/ IncrRead(x) \/ PieceRead(x)
        /\ call.sel = x /\ events = <<>>
<1>1. WholeRead(x) \/ IncrRead(x) \/ PieceRead(x)
  BY DEF Pasting, Stage, Resting, Refused, Requested, Asked, WholeSent, IncrSent, PieceDue, PieceSent,
         Queued
<1> QED
  BY <1>1 DEF WholeRead, IncrRead, PieceRead, Reading

\* The property is deleted: the next piece is due, or the transfer is over.
LEMMA LeaveAlone ==
  ASSUME Types, Types', NEW x \in Sels, Pasting(x), call # Returned, NEW m \in BOOLEAN, Leave(m),
         UNCHANGED <<other, text>>, mask' = m, Undone(sent') = Undone(sent),
         Rest(x) = other[x].s,
         \/ m /\ other[x].st = "sending" /\ prop[x].t # "none"
         \/ ~m /\ other[x].st = "idle" /\ Empty(x)
  PROVE Pasting(x)'
<1>1. call.sel = x /\ events = <<>> /\ Others(x)
  BY CallOnly DEF Pasting
<1>2. /\ prop'[x] = None /\ \A z \in Sels : z # x => prop'[z] = prop[z]
      /\ call' = Returned
  BY <1>1, LeaveFacts
<1>3. events' = IF m /\ prop[x] # None THEN Append(<<>>, Event("deleted", x)) ELSE <<>>
  BY <1>1 DEF Leave, Value
<1>4. Append(<<>>, Event("deleted", x)) = <<Event("deleted", x)>>
  <2>1. "deleted" \in Kinds
    BY DEF Kinds
  <2> QED
    BY <2>1, OneEvent
<1>5. Stage(x)'
  <2>1. CASE m /\ other[x].st = "sending" /\ prop[x].t # "none"
    <3>1. events' = <<Event("deleted", x)>>
      BY <1>3, <1>4, <2>1 DEF None
    <3> QED
      BY <1>2, <2>1, <3>1 DEF Stage, PieceDue, Queued, None
  <2>2. CASE ~m /\ other[x].st = "idle" /\ Empty(x)
    BY <1>2, <1>3, <2>2 DEF Stage, Resting, Queued, Empty, None
  <2> QED
    BY <2>1, <2>2
<1>6. Others(x)' /\ ReadsChunk'
  BY <1>1, <1>2 DEF Others, Empty, ReadsChunk
<1>7. Balance(x)'
  <2>1. Content(x)' = <<>> /\ Got' = 0
    BY <1>2 DEF Content, Got, None
  <2>2. RestOf(<<>>, 0, other[x].s) = other[x].s
    BY SenderFacts, RestNothing
  <2>3. Rest(x)' = other[x].s
    BY <2>1, <2>2 DEF Rest
  <2> QED
    BY <2>3 DEF Pasting, Balance
<1> QED
  BY <1>5, <1>6, <1>7 DEF Pasting

LEMMA BeginIncrAlone ==
  ASSUME Held, Held', Alone, BeginIncr
  PROVE Alone'
<1> SUFFICES ASSUME alone'
             PROVE \E x \in Sels : Pasting(x)'
  BY DEF Alone
<1>0. /\ Types /\ Types' /\ alone /\ call # Returned /\ Value = Incr /\ mask' = TRUE /\ Leave(TRUE)
      /\ UNCHANGED <<other, sent, text>>
  BY AtGiven DEF BeginIncr, history, Held
<1>1. PICK x \in Sels : Pasting(x)
  BY <1>0 DEF Alone
<1>2. call.sel = x /\ prop[x] = Incr /\ (WholeRead(x) \/ IncrRead(x) \/ PieceRead(x))
  BY <1>0, <1>1, CallOnly DEF Value
<1>3. IncrRead(x) /\ other[x].st = "sending"
  BY <1>2 DEF Incr, WholeRead, IncrRead, PieceRead, Reading
<1>4. Rest(x) = other[x].s
  <2>1. Content(x) = <<>>
    BY <1>2 DEF Content, Incr
  <2>2. RestOf(<<>>, Got, other[x].s) = other[x].s
    BY <1>0, SenderFacts, RestNothing
  <2> QED
    BY <2>1, <2>2 DEF Rest
<1>5. TRUE /\ other[x].st = "sending" /\ prop[x].t # "none"
  BY <1>2, <1>3 DEF Incr
<1>6. Undone(sent') = Undone(sent)
  BY <1>0
<1>7. Pasting(x)'
  BY <1>0, <1>1, <1>4, <1>5, <1>6, LeaveAlone
<1> QED
  BY <1>7

\* A piece that is empty ends the transfer: the mask is reset.
LEMMA GetChunkAlone ==
  ASSUME Held, Held', Alone, GetChunk
  PROVE Alone'
<1> SUFFICES ASSUME alone'
             PROVE \E x \in Sels : Pasting(x)'
  BY DEF Alone
<1>0. /\ Types /\ Chunks /\ alone /\ call # Returned /\ call.at = "get" /\ Value # Incr
      /\ UNCHANGED <<owner, mine, other, prop, events, modes, history>>
  BY AtGiven DEF GetChunk, Held, history
<1>1. PICK x \in Sels : Pasting(x)
  BY <1>0 DEF Alone
<1>2. call.sel = x /\ events = <<>> /\ (WholeRead(x) \/ IncrRead(x) \/ PieceRead(x))
  BY <1>0, <1>1, CallOnly
<1> DEFINE w == Content(x)
<1>3. /\ call' \in Calls /\ call' # Returned /\ call'.at = "start" /\ call'.sel = x
      /\ call'.ev = call.ev /\ call'.ofs = call.ofs
      /\ call'.data = SubSeq(w, call.ofs + 1, call.ofs + Len(call'.data))
      /\ call.ofs + Len(call'.data) + call'.rem = Len(w)
      /\ mask' = (mask /\ ~(call.ev = "newvalue" /\ Len(w) = call.ofs))
  BY <1>2, GetChunkFacts, CallFacts
<1>4. Content(x)' = w
  BY <1>0 DEF Content
<1>5. call.ofs = 0 \/ call.ofs < Len(w)
  BY <1>0, <1>2 DEF Chunks
<1>6. call.ofs \in Nat /\ w \in Seq(Bytes) /\ Len(w) \in Nat
  BY <1>0, CallGiven, ContentFacts
<1>7. prop[x].t # "incr"
  <2>1. prop[x] \in Values /\ prop[x] # Incr
    BY <1>0, <1>2, SenderFacts DEF Value
  <2> QED
    BY <2>1, ValueFacts
<1> HIDE DEF w
<1>8. Stage(x)'
  <2>1. CASE WholeRead(x)
    <3>1. call.ev # "newvalue" /\ mask = FALSE
      BY <1>0, <2>1 DEF WholeRead, Reading
    <3> QED
      BY <1>0, <1>3, <2>1, <3>1 DEF Stage, WholeRead, Reading, Empty
  <2>2. CASE PieceRead(x) /\ w # <<>>
    <3>1. Len(w) # 0
      BY <1>6, <2>2, EmptySeq
    <3>2. mask = TRUE /\ mask' = TRUE
      <4>1. mask = TRUE
        BY <2>2 DEF PieceRead, Reading
      <4>2. ~ (Len(w) = call.ofs)
        BY <1>5, <1>6, <3>1
      <4> QED
        BY <1>3, <4>1, <4>2
    <3> QED
      BY <1>0, <1>3, <1>4, <2>2, <3>2 DEF Stage, PieceRead, Reading, w
  <2>3. CASE PieceRead(x) /\ w = <<>>
    <3>1. Len(w) = 0 /\ call.ofs = 0 /\ call.ev = "newvalue"
      BY <2>3 DEF PieceRead, w
    <3>2. mask' = FALSE
      BY <1>3, <3>1
    <3> QED
      BY <1>0, <1>3, <1>4, <2>3, <3>2 DEF Stage, PieceRead, WholeRead, Reading, Empty, w
  <2> QED
    BY <1>2, <1>7, <2>1, <2>2, <2>3 DEF IncrRead, Reading
<1>9. Others(x)'
  BY <1>0, <1>1 DEF Pasting, Others, Empty
<1>10. ReadsChunk'
  BY <1>3, <1>4 DEF ReadsChunk
<1>11. Balance(x)'
  <2>1. Got' = Got
    BY <1>0, <1>3 DEF Got
  <2> QED
    BY <1>0, <1>1, <1>4, <2>1 DEF Pasting, Balance, Rest, history, w
<1> QED
  BY <1>8, <1>9, <1>10, <1>11 DEF Pasting

LEMMA StartAlone ==
  ASSUME Held, Held', Alone, StartBracket
  PROVE Alone'
<1> SUFFICES ASSUME alone'
             PROVE \E x \in Sels : Pasting(x)'
  BY DEF Alone
<1>0. /\ Types /\ alone /\ call # Returned /\ call.at = "start"
      /\ call' = [call EXCEPT !.at = "data"]
      /\ UNCHANGED <<owner, mine, other, prop, events, mask, modes, text, alone, acts>>
  BY AtGiven DEF StartBracket, Held
<1>1. PICK x \in Sels : Pasting(x)
  BY <1>0 DEF Alone
<1>2. call.sel = x /\ events = <<>> /\ (WholeRead(x) \/ IncrRead(x) \/ PieceRead(x))
  BY <1>0, <1>1, CallOnly
<1>3. sent' \in Seq(Tokens) /\ ~KeyLast(sent') /\ Undone(sent') = Undone(sent)
  BY <1>0, StartSent
<1>4. /\ call' \in Calls /\ call' # Returned /\ call'.at = "data" /\ call'.sel = call.sel
      /\ call'.ev = call.ev /\ call'.ofs = call.ofs /\ call'.data = call.data /\ call'.rem = call.rem
  BY <1>0, <1>3, SendTyped, CallFacts
<1>5. Stage(x)'
  BY <1>0, <1>2, <1>4 DEF Stage, WholeRead, IncrRead, PieceRead, Reading, Empty, Content
<1>6. Others(x)' /\ ReadsChunk'
  BY <1>0, <1>1, <1>4 DEF Pasting, Others, Empty, ReadsChunk, Content
<1>7. Balance(x)'
  <2>1. Got' = Got
    BY <1>0, <1>4 DEF Got
  <2> QED
    BY <1>0, <1>1, <1>3, <2>1 DEF Pasting, Balance, Rest, Content
<1> QED
  BY <1>5, <1>6, <1>7 DEF Pasting

\* The chunk passes from what is left to what was sent.
LEMMA DataAlone ==
  ASSUME Held, Held', Alone, WriteData
  PROVE Alone'
<1> SUFFICES ASSUME alone'
             PROVE \E x \in Sels : Pasting(x)'
  BY DEF Alone
<1>0. /\ Types /\ alone /\ call # Returned /\ call.at = "data"
      /\ call' = [call EXCEPT !.at = "end"]
      /\ UNCHANGED <<owner, mine, other, prop, events, mask, modes, text, alone, acts>>
  BY AtGiven DEF WriteData, Held
<1>1. PICK x \in Sels : Pasting(x)
  BY <1>0 DEF Alone
<1>2. call.sel = x /\ events = <<>> /\ (WholeRead(x) \/ IncrRead(x) \/ PieceRead(x))
  BY <1>0, <1>1, CallOnly
<1>3. sent' \in Seq(Tokens) /\ ~KeyLast(sent') /\ Undone(sent') = Undone(sent) \o call.data
  BY <1>0, DataSent
<1>4. /\ call' \in Calls /\ call' # Returned /\ call'.at = "end" /\ call'.sel = call.sel
      /\ call'.ev = call.ev /\ call'.ofs = call.ofs /\ call'.data = call.data /\ call'.rem = call.rem
  BY <1>0, <1>3, SendTyped, CallFacts
<1>5. Stage(x)'
  BY <1>0, <1>2, <1>4 DEF Stage, WholeRead, IncrRead, PieceRead, Reading, Empty, Content
<1>6. Others(x)' /\ ReadsChunk'
  BY <1>0, <1>1, <1>4 DEF Pasting, Others, Empty, ReadsChunk, Content
<1>7. Balance(x)'
  <2> DEFINE w == Content(x)
             o == other[x].s
             g == call.ofs
             d == call.data
             k == g + Len(d)
  <2>1. Got = g /\ Got' = k /\ Content(x)' = w /\ other'[x].s = o
    BY <1>0, <1>4 DEF Got, Content
  <2>2. /\ w \in Seq(Bytes) /\ o \in Seq(Bytes) /\ g \in Nat /\ d \in Seq(Bytes) /\ Len(d) \in Nat
        /\ call.rem \in Nat /\ Len(w) \in Nat /\ Undone(sent) \in Seq(Bytes)
    BY <1>0, CallGiven, ContentFacts, SenderFacts
  <2>3. d = SubSeq(w, g + 1, g + Len(d)) /\ g + Len(d) + call.rem = Len(w)
    BY <1>0, <1>1, <1>2 DEF Pasting, ReadsChunk
  <2>4. text = Undone(sent) \o RestOf(w, g, o)
    BY <1>1, <2>1 DEF Pasting, Balance, Rest
  <2> DEFINE u == Undone(sent)
             r == RestOf(w, k, o)
  <2>5. r \in Seq(Bytes)
    <3>1. k \in Nat /\ w \in Seq(Bytes) /\ o \in Seq(Bytes)
      BY <2>2
    <3> HIDE DEF k, w, o
    <3> QED
      BY <3>1, RestTyped
  <2>6. RestOf(w, g, o) = d \o r
    <3>1. /\ w \in Seq(Bytes) /\ o \in Seq(Bytes) /\ g \in Nat /\ d \in Seq(Bytes)
          /\ d = SubSeq(w, g + 1, g + Len(d)) /\ g + Len(d) <= Len(w)
      BY <2>2, <2>3
    <3> HIDE DEF w, o, g, d
    <3>2. RestOf(w, g, o) = d \o RestOf(w, g + Len(d), o)
      BY <3>1, RestStep
    <3> QED
      BY <3>2
  <2>7. Balance(x)' <=> text = (u \o d) \o r
    BY <1>0, <1>3, <2>1 DEF Balance, Rest
  <2>9. u \in Seq(Bytes) /\ d \in Seq(Bytes)
    BY <2>2
  <2> HIDE DEF w, o, g, d, k, u, r
  <2>8. (u \o d) \o r = u \o (d \o r)
    BY <2>5, <2>9, Regroup
  <2> QED
    BY <2>4, <2>6, <2>7, <2>8 DEF u
<1> QED
  BY <1>5, <1>6, <1>7 DEF Pasting

LEMMA EndAlone ==
  ASSUME Held, Held', Alone, EndBracket
  PROVE Alone'
<1> SUFFICES ASSUME alone'
             PROVE \E x \in Sels : Pasting(x)'
  BY DEF Alone
<1>0. /\ Types /\ Types' /\ alone /\ call # Returned /\ call.at = "end"
      /\ UNCHANGED <<owner, mine, other, mask, modes, text, alone, acts>>
  BY AtGiven DEF EndBracket, Held
<1>1. PICK x \in Sels : Pasting(x)
  BY <1>0 DEF Alone
<1>2. call.sel = x /\ events = <<>> /\ (WholeRead(x) \/ PieceRead(x))
  BY <1>0, <1>1, CallOnly DEF IncrRead
<1>3. Undone(sent') = Undone(sent)
  BY <1>0, EndSent
<1> DEFINE w == Content(x)
           o == other[x].s
           k == call.ofs + Len(call.data)
<1>4. /\ call.ofs \in Nat /\ Len(call.data) \in Nat /\ call.rem \in Nat /\ k + call.rem = Len(w)
      /\ w \in Seq(Bytes) /\ o \in Seq(Bytes) /\ Len(w) \in Nat /\ Got = k
  BY <1>0, <1>1, <1>2, CallGiven, ContentFacts, SenderFacts DEF Pasting, ReadsChunk, Got
<1>5. CASE call.rem > 0
  <2>1. /\ call' \in Calls /\ call'.at = "get" /\ call'.sel = x /\ call'.ev = call.ev
        /\ call'.ofs = k /\ call' # Returned
    BY <1>2, <1>5, NextChunk, CallFacts
  <2>2. UNCHANGED <<prop, events>>
    BY <1>5 DEF EndBracket
  <2>3. w # <<>>
    <3>1. Len(w) # 0
      BY <1>4, <1>5
    <3> QED
      BY <1>4, <3>1, EmptySeq
  <2>4. Stage(x)'
    BY <1>0, <1>2, <2>1, <2>2, <2>3 DEF Stage, WholeRead, PieceRead, Reading, Empty, Content
  <2>5. Others(x)' /\ ReadsChunk'
    BY <1>0, <1>1, <2>1, <2>2 DEF Pasting, Others, Empty, ReadsChunk
  <2>6. Balance(x)'
    <3>1. Got' = k
      BY <2>1 DEF Got
    <3> QED
      BY <1>0, <1>1, <1>3, <1>4, <2>2, <3>1 DEF Pasting, Balance, Rest, Content
  <2> QED
    BY <2>4, <2>5, <2>6 DEF Pasting
<1>6. CASE ~ (call.rem > 0)
  <2>1. Leave(mask) /\ mask \in BOOLEAN
    BY <1>0, <1>6 DEF EndBracket, Types
  <2>2. Rest(x) = o
    <3>1. k = Len(w)
      BY <1>4, <1>6
    <3>2. RestOf(w, Len(w), o) = o
      BY <1>4, RestDone
    <3> QED
      BY <1>4, <3>1, <3>2 DEF Rest
  <2>3. \/ mask /\ other[x].st = "sending" /\ prop[x].t # "none"
        \/ ~mask /\ other[x].st = "idle" /\ Empty(x)
    BY <1>0, <1>2 DEF WholeRead, PieceRead, Reading
  <2>4. mask' = mask /\ UNCHANGED <<other, text>>
    BY <1>0
  <2>5. Pasting(x)'
    BY <1>0, <1>1, <1>3, <2>1, <2>2, <2>3, <2>4, LeaveAlone
  <2> QED
    BY <2>5
<1> QED
  BY <1>5, <1>6

LEMMA NextAlone ==
  ASSUME Held, Held', Alone, [Next]_vars
  PROVE Alone'
<1>1. CASE selrequest
  BY <1>1, RequestServedAlone
<1>2. CASE Ignore
  BY <1>2, IgnoreAlone
<1>3. CASE selnotify
  BY <1>3, EnterAlone, BeginIncrAlone, GetChunkAlone, StartAlone, DataAlone, EndAlone DEF selnotify
<1>4. CASE Return
  <2>1. UNCHANGED <<other, prop, events, mask, call, text>> /\ alone' = alone
    BY <1>4 DEF Return
  <2>2. alone => Undone(sent') = Undone(sent)
    BY <1>4, ReturnSent DEF Held
  <2> QED
    BY <2>1, <2>2, Undisturbed
<1>5. CASE tsetmode
  BY <1>5, Undisturbed DEF tsetmode
<1>6. CASE clipcopy \/ (\E x \in Sels : OtherTakes(x)) \/ (\E s \in Owned : setsel(s))
  <2>1. UNCHANGED <<other, prop, events, mask, call, sent, text, alone>>
    BY <1>6 DEF OtherTakes, setsel, clipcopy
  <2> QED
    BY <2>1, Undisturbed
<1>7. ASSUME NEW x \in Sels, RequestPaste(x)
      PROVE Alone'
  BY <1>7, RequestAlone
<1>8. ASSUME NEW x \in Sels, Answers(x)
      PROVE Alone'
  BY <1>8, RefuseAlone, SendWholeAlone, StartIncrAlone, SendPieceAlone DEF Answers
<1>9. CASE UNCHANGED vars
  BY <1>9, Undisturbed DEF vars, history
<1> QED
  BY <1>1, <1>2, <1>3, <1>4, <1>5, <1>6, <1>7, <1>8, <1>9 DEF Next, Handlers

LEMMA AlwaysAlone == Spec => []Alone
BY InitAlone, NextAlone, AlwaysTyped, PTL DEF Spec

\* For all texts, chunk sizes and ways to cut a text into pieces: what the program was
\* sent is a beginning of the text, and all of it once nothing is under way.
THEOREM TextDelivered == Spec => []NothingLost
<1>1. Held /\ Alone => NothingLost
  <2> SUFFICES ASSUME Held, Alone, alone
               PROVE /\ IsPrefix(Undone(sent), text)
                     /\ ~Underway => Undone(sent) = text
    BY DEF NothingLost
  <2>1. PICK x \in Sels : Pasting(x)
    BY DEF Alone
  <2>2. Types /\ Rest(x) \in Seq(Bytes) /\ Undone(sent) \in Seq(Bytes)
    BY RestFacts, SenderFacts DEF Held
  <2>3. text = Undone(sent) \o Rest(x)
    BY <2>1 DEF Pasting, Balance
  <2>4. IsPrefix(Undone(sent), text)
    BY <2>2, <2>3, PrefixOfSum
  <2>5. ASSUME ~Underway
        PROVE Undone(sent) = text
    <3>1. Resting(x) /\ Empty(x) /\ prop[x] = None /\ call = Returned
      BY <2>1, <2>2, <2>5, NothingUnderway DEF Underway
    <3>2. Content(x) = <<>> /\ Got = 0
      BY <3>1 DEF Content, None, Got
    <3>3. RestOf(<<>>, 0, <<>>) = <<>>
      <4>1. <<>> \in Seq(Bytes) /\ 0 \in Nat
        OBVIOUS
      <4> QED
        BY <4>1, RestNothing
    <3>4. Rest(x) = <<>>
      BY <3>1, <3>2, <3>3 DEF Rest, Empty
    <3> QED
      BY <2>2, <2>3, <3>4, ConcatEmptySeq
  <2> QED
    BY <2>4, <2>5
<1> QED
  BY <1>1, AlwaysTyped, AlwaysAlone, PTL

\* However a transfer went, the window asks for no property events after it.
THEOREM MaskReset == Spec => []MaskOff
<1>1. Held /\ Alone => MaskOff
  <2> SUFFICES ASSUME Held, Alone, alone, ~Underway
               PROVE ~mask
    BY DEF MaskOff
  <2>1. PICK x \in Sels : Pasting(x)
    BY DEF Alone
  <2>2. Resting(x)
    BY <2>1, NothingUnderway DEF Held
  <2> QED
    BY <2>2 DEF Resting, Queued
<1> QED
  BY <1>1, AlwaysTyped, AlwaysAlone, PTL

-----------------------------------------------------------------------------
(***************************************************************************)
(* Keyboard.                                                               *)
(***************************************************************************)

\* While a keysym is being placed it is the least of those not yet sorted.
Placing == pt <= scan /\ \A j \in pt .. Len(table) : bing <= table[j].keysym

KInv ==
  /\ declared \in Tables
  /\ table \in Seq(Bindings)
  /\ TableOK
  /\ phase = "place" => Placing

\* Keysyms lie between 1 and ALL_KEYS.
LEMMA BindingFacts ==
  ASSUME NEW t \in Seq(Bindings)
  PROVE /\ Len(t) \in Nat /\ DOMAIN t = 1 .. Len(t) /\ t \in [1 .. Len(t) -> Bindings]
        /\ \A i \in 1 .. Len(t) : t[i].keysym \in 1 .. ALL_KEYS
<1>1. Len(t) \in Nat /\ DOMAIN t = 1 .. Len(t) /\ t \in [1 .. Len(t) -> Bindings]
  OBVIOUS
<1>2. \A b \in Bindings : b.keysym \in 1 .. ALL_KEYS
  BY DEF Bindings
<1> QED
  BY <1>1, <1>2

\* A swap is a permutation.
LEMMA SwapFacts ==
  ASSUME table \in Seq(Bindings), pt \in 1 .. Len(table), NEW i \in pt .. Len(table)
  PROVE /\ Swapped(i) \in Seq(Bindings) /\ Len(Swapped(i)) = Len(table)
        /\ {Swapped(i)[j] : j \in DOMAIN Swapped(i)} = {table[j] : j \in DOMAIN table}
        /\ \A j \in 1 .. Len(table) :
             Swapped(i)[j] = IF j = pt THEN table[i] ELSE IF j = i THEN table[pt] ELSE table[j]
<1> DEFINE n == Len(table)
           s == Swapped(i)
<1>0. n \in Nat /\ DOMAIN table = 1 .. n /\ table \in [1 .. n -> Bindings] /\ i \in 1 .. n
  BY BindingFacts
<1>1. s \in [1 .. n -> Bindings] /\ DOMAIN s = 1 .. n
  BY <1>0 DEF Swapped
<1>2. \A j \in 1 .. n : s[j] = IF j = pt THEN table[i] ELSE IF j = i THEN table[pt] ELSE table[j]
  BY <1>0 DEF Swapped
<1>3. s \in Seq(Bindings) /\ Len(s) = n
  BY <1>0, <1>1, SeqDef, IsASeq
<1> HIDE DEF s, n
<1>4. \A j \in 1 .. n : \E k \in 1 .. n : s[j] = table[k]
  BY <1>0, <1>2
<1>5. \A j \in 1 .. n : \E k \in 1 .. n : table[j] = s[k]
  <2> SUFFICES ASSUME NEW j \in 1 .. n
               PROVE \E k \in 1 .. n : table[j] = s[k]
    OBVIOUS
  <2>1. CASE j = pt
    BY <1>0, <1>2, <2>1
  <2>2. CASE j = i
    BY <1>0, <1>2, <2>2 DEF n
  <2>3. CASE j # pt /\ j # i
    BY <1>2, <2>3
  <2> QED
    BY <2>1, <2>2, <2>3
<1>6. {s[j] : j \in 1 .. n} = {table[j] : j \in 1 .. n}
  <2>1. {s[j] : j \in 1 .. n} \subseteq {table[j] : j \in 1 .. n}
    BY <1>4
  <2>2. {table[j] : j \in 1 .. n} \subseteq {s[j] : j \in 1 .. n}
    BY <1>5
  <2> QED
    BY <2>1, <2>2
<1> QED
  BY <1>0, <1>1, <1>2, <1>3, <1>6 DEF s, n

\* A round begins with the least of the keysyms that are not sorted yet.
LEMMA LeastFound ==
  ASSUME KInv, FindLeast
  PROVE KInv'
<1> DEFINE n == Len(table)
<1>0. n \in Nat /\ DOMAIN table = 1 .. n /\ \A j \in 1 .. n : table[j].keysym \in 1 .. ALL_KEYS
  BY BindingFacts DEF KInv
<1>1. UNCHANGED <<declared, table, pt>> /\ pt \in 1 .. n + 1
  BY DEF FindLeast, KInv, TableOK
<1>2. CASE Unplaced # {} /\ phase' = "place"
  <2>1. Unplaced \subseteq Nat
    BY <1>0, <1>1 DEF Unplaced
  <2>2. \E k \in Unplaced : \A j \in Unplaced : k <= j
    BY <1>2, <2>1, Least
  <2>3. /\ bing' = CHOOSE k \in Unplaced : \A j \in Unplaced : k <= j
        /\ scan' = pt
    BY <1>2 DEF FindLeast
  <2>4. bing' \in Unplaced /\ \A j \in Unplaced : bing' <= j
    BY <2>2, <2>3
  <2>5. \A j \in pt .. n : bing' <= table[j].keysym
    BY <2>4 DEF Unplaced
  <2>6. Placing'
    BY <1>0, <1>1, <2>3, <2>5 DEF Placing
  <2>7. TableOK'
    BY <1>1, <1>2, <2>3 DEF KInv, TableOK
  <2> QED
    BY <1>1, <2>6, <2>7 DEF KInv
<1>3. CASE Unplaced = {} /\ phase' = "ready" /\ scan' = scan
  <2>1. \A j \in pt .. n : table[j].keysym \in Unplaced
    BY DEF Unplaced
  <2>2. pt .. n = {}
    BY <1>3, <2>1
  <2>3. pt = n + 1
    BY <1>0, <1>1, <2>2
  <2> QED
    BY <1>1, <1>3, <2>3 DEF KInv, TableOK
<1> QED
  BY <1>2, <1>3 DEF FindLeast

\* The next binding of that keysym goes behind the sorted ones.
LEMMA Placed ==
  ASSUME KInv, PlaceNext
  PROVE KInv'
<1> DEFINE n == Len(table)
<1>0. n \in Nat /\ DOMAIN table = 1 .. n /\ \A j \in 1 .. n : table[j].keysym \in 1 .. ALL_KEYS
  BY BindingFacts DEF KInv
<1>1. PICK i \in scan .. n : /\ table[i].keysym = bing
                             /\ table' = Swapped(i)
                             /\ scan' = i + 1
  BY DEF PlaceNext
<1>2. /\ pt' = pt + 1 /\ UNCHANGED <<declared, bing, phase>> /\ phase = "place"
      /\ pt \in 1 .. n + 1 /\ scan \in 1 .. n + 1 /\ pt <= scan
      /\ \A j \in pt .. n : bing <= table[j].keysym
      /\ \A a \in 1 .. pt - 1 : \A b \in a .. n : table[a].keysym <= table[b].keysym
      /\ n = Len(declared)
  BY DEF PlaceNext, KInv, TableOK, Placing
<1>3. i \in pt .. n /\ pt \in 1 .. n
  BY <1>0, <1>2
<1>4. /\ table' \in Seq(Bindings) /\ Len(table') = n
      /\ {table'[j] : j \in DOMAIN table'} = {table[j] : j \in DOMAIN table}
      /\ \A j \in 1 .. n :
           table'[j] = IF j = pt THEN table[i] ELSE IF j = i THEN table[pt] ELSE table[j]
  BY <1>1, <1>3, SwapFacts DEF KInv
<1> HIDE DEF n
<1>5. \A j \in pt .. n : bing <= table'[j].keysym
  <2> SUFFICES ASSUME NEW j \in pt .. n
               PROVE bing <= table'[j].keysym
    OBVIOUS
  <2>1. PICK c \in pt .. n : table'[j] = table[c]
    BY <1>0, <1>2, <1>3, <1>4
  <2> QED
    BY <1>2, <2>1
<1>6. \A a \in 1 .. pt' - 1 : \A b \in a .. n : table'[a].keysym <= table'[b].keysym
  <2> SUFFICES ASSUME NEW a \in 1 .. pt, NEW b \in a .. n
               PROVE table'[a].keysym <= table'[b].keysym
    BY <1>2
  <2>0. a \in 1 .. n /\ b \in 1 .. n
    BY <1>0, <1>3
  <2>1. CASE a = pt
    BY <1>1, <1>4, <1>5, <2>0, <2>1
  <2>2. CASE a < pt
    <3>1. table'[a] = table[a] /\ a \in 1 .. pt - 1
      BY <1>3, <1>4, <2>0, <2>2
    <3>2. PICK c \in a .. n : table'[b] = table[c]
      BY <1>0, <1>3, <1>4, <2>0, <2>2
    <3> QED
      BY <1>2, <3>1, <3>2
  <2> QED
    BY <1>3, <2>1, <2>2
<1>7. pt' \in 1 .. n + 1 /\ scan' \in 1 .. n + 1 /\ pt' <= scan'
  BY <1>0, <1>1, <1>2, <1>3
<1>8. {table'[j] : j \in DOMAIN table'} = {declared'[j] : j \in DOMAIN declared'}
  BY <1>2, <1>4 DEF KInv, TableOK
<1>9. TableOK'
  BY <1>2, <1>4, <1>6, <1>7, <1>8 DEF TableOK
<1>10. Placing'
  BY <1>0, <1>2, <1>3, <1>4, <1>5, <1>7 DEF Placing
<1> QED
  BY <1>2, <1>4, <1>9, <1>10 DEF KInv

\* sort_shortcuts sorts in place; afterwards nothing touches the table.
LEMMA NextSorts ==
  ASSUME KInv, [KeyNext]_keyVars
  PROVE KInv'
<1>1. CASE FindLeast
  BY <1>1, LeastFound
<1>2. CASE PlaceNext
  BY <1>2, Placed
<1>3. CASE RoundEnds
  BY <1>3 DEF RoundEnds, KInv, TableOK
<1>4. CASE kpress \/ Modes
  <2>1. /\ UNCHANGED <<declared, table, pt, scan>>
        /\ phase \in {"ready", "pressed"} /\ phase' \in {"ready", "pressed"}
    BY <1>4 DEF kpress, Modes
  <2> QED
    BY <2>1 DEF KInv, TableOK
<1>5. CASE UNCHANGED keyVars
  BY <1>5 DEF keyVars, sortVars, KInv, TableOK, Placing
<1> QED
  BY <1>1, <1>2, <1>3, <1>4, <1>5 DEF KeyNext

LEMMA InitSorts == KeyInit => KInv
<1> SUFFICES ASSUME KeyInit
             PROVE KInv
  OBVIOUS
<1>1. declared \in Tables /\ table = declared /\ table \in Seq(Bindings)
  BY TablesAssumption DEF KeyInit
<1>2. Len(table) \in Nat
  BY <1>1, BindingFacts
<1> QED
  BY <1>1, <1>2 DEF KeyInit, KInv, TableOK

LEMMA Sorts == KeySpec => []KInv
BY InitSorts, NextSorts, PTL DEF KeySpec

\* For every table sort_shortcuts loses no binding and repeats none, at every moment,
\* and the table is sorted when it is done.
THEOREM ShortcutsSorted == KeySpec => []TableOK
BY Sorts, PTL DEF KInv

-----------------------------------------------------------------------------
LEMMA Keysyms == ALL_KEYS \in Nat /\ 228 < ALL_KEYS
BY SMTT(60) DEF ALL_KEYS

\* The loop of kpress over the sorted table sees exactly the bindings of the key:
\* no greater keysym stops it early, and ALL_KEYS is greater than every key.
LEMMA FindsBound ==
  ASSUME KInv, phase = "ready", NEW k \in 1 .. ALL_KEYS - 1, NEW state
  PROVE /\ Found(k, state) \subseteq Nat
        /\ \A i \in Found(k, state) :
             \E j \in OwnFor(k, state) : declared[j] = table[i]
        /\ OwnFor(k, state) # {} => Found(k, state) # {}
<1> DEFINE n == Len(table)
<1>0. n \in Nat /\ DOMAIN table = 1 .. n /\ \A j \in 1 .. n : table[j].keysym \in 1 .. ALL_KEYS
  BY BindingFacts DEF KInv
<1>1. \A i \in 1 .. n : \A j \in i .. n : table[i].keysym <= table[j].keysym
  BY <1>0 DEF KInv, TableOK
<1>2. {table[i] : i \in DOMAIN table} = {declared[i] : i \in DOMAIN declared}
  BY DEF KInv, TableOK
<1> HIDE DEF n
<1>3. Found(k, state) \subseteq Nat
  BY <1>0 DEF Found, Reached
<1>4. ASSUME NEW i \in Found(k, state)
      PROVE \E j \in OwnFor(k, state) : declared[j] = table[i]
  <2>1. i \in 1 .. n /\ table[i].keysym <= k /\ Matches(table[i], k, state)
    BY <1>0 DEF Found, Reached
  <2>2. table[i].keysym # ALL_KEYS
    <3>1. table[i].keysym \in Int /\ table[i].keysym <= k
      BY <1>0, <2>1
    <3>2. k \in Int /\ k < ALL_KEYS /\ ALL_KEYS \in Int
      BY Keysyms
    <3> QED
      BY <3>1, <3>2
  <2>3. table[i].keysym = k
    BY <2>1, <2>2 DEF Matches
  <2>4. PICK j \in DOMAIN declared : declared[j] = table[i]
    BY <1>0, <1>2, <2>1
  <2> QED
    BY <2>1, <2>3, <2>4 DEF OwnFor, BoundFor
<1>5. ASSUME NEW j \in OwnFor(k, state)
      PROVE Found(k, state) # {}
  <2>1. j \in DOMAIN declared /\ declared[j].keysym = k /\ Matches(declared[j], k, state)
    BY DEF OwnFor, BoundFor
  <2>2. PICK i \in 1 .. n : table[i] = declared[j]
    BY <1>0, <1>2, <2>1
  <2>3. \A a \in 1 .. i : table[a].keysym <= k
    BY <1>0, <1>1, <2>1, <2>2
  <2> QED
    BY <1>0, <2>1, <2>2, <2>3 DEF Found, Reached
<1> QED
  BY <1>3, <1>4, <1>5

\* The keys of an event are below ALL_KEYS.
LEMMA KeyRange ==
  ASSUME KInv
  PROVE Keys \subseteq 1 .. ALL_KEYS - 1
<1>1. declared \in Seq(Bindings)
  BY TablesAssumption DEF KInv
<1>2. DOMAIN declared = 1 .. Len(declared)
      /\ \A i \in 1 .. Len(declared) : declared[i].keysym \in 1 .. ALL_KEYS
  BY <1>1, BindingFacts
<1> SUFFICES ASSUME NEW k \in Keys
             PROVE k \in 1 .. ALL_KEYS - 1
  OBVIOUS
<1>3. CASE k \in {97, 228}
  BY <1>3, Keysyms
<1>4. CASE k \notin {97, 228}
  <2>1. PICK i \in DOMAIN declared : k = declared[i].keysym /\ k # ALL_KEYS
    BY <1>4 DEF Keys
  <2>2. k \in 1 .. ALL_KEYS /\ k # ALL_KEYS
    BY <1>2, <2>1
  <2> QED
    BY <2>2, Keysyms
<1> QED
  BY <1>3, <1>4

\* A press with a binding of the key's own runs one, any other runs nothing.
Finds ==
  Handled =>
    LET Own == OwnFor(last.key, last.state)
    IN /\ Own # {} => last.sent = <<>> /\ \E i \in Own : declared[i].func = last.func
       /\ Own = {} => last.func = "none"

LEMMA PressedFinds ==
  ASSUME KInv, kpress, Handled'
  PROVE Finds'
<1>0. /\ phase = "ready" /\ UNCHANGED <<declared, table, inputmode, mode>>
      /\ ~mode.kbdlock /\ ~mode.kbdselect
  BY DEF kpress, Handled, modeVars
<1>1. PICK k \in Keys, state \in States : KeyBound(k, state) \/ KeySent(k, state)
  BY <1>0 DEF kpress, KeyLocked, KeySelects
<1>2. k \in 1 .. ALL_KEYS - 1
  BY KeyRange
<1>3. /\ Found(k, state) \subseteq Nat
      /\ \A i \in Found(k, state) : \E j \in OwnFor(k, state) : declared[j] = table[i]
      /\ OwnFor(k, state) # {} => Found(k, state) # {}
  BY <1>0, <1>2, FindsBound
<1>4. OwnFor(k, state)' = OwnFor(k, state)
  BY <1>0 DEF OwnFor, BoundFor, Matches
<1>5. CASE KeyBound(k, state)
  <2>1. /\ Found(k, state) # {}
        /\ last' = [key |-> k, state |-> state, func |-> table[FirstFound(k, state)].func,
                    sent |-> <<>>]
    BY <1>5 DEF KeyBound, Press
  <2>2. \E i \in Found(k, state) : \A j \in Found(k, state) : i <= j
    BY <1>3, <2>1, Least
  <2>3. FirstFound(k, state) \in Found(k, state)
    BY <2>2 DEF FirstFound
  <2>4. PICK j \in OwnFor(k, state) : declared[j] = table[FirstFound(k, state)]
    BY <1>3, <2>3
  <2> QED
    BY <1>0, <1>4, <2>1, <2>4 DEF Finds
<1>6. CASE KeySent(k, state)
  <2>1. Found(k, state) = {} /\ last'.func = "none" /\ last'.key = k /\ last'.state = state
    BY <1>6 DEF KeySent, Press
  <2>2. OwnFor(k, state) = {}
    BY <1>3, <2>1
  <2> QED
    BY <1>4, <2>1, <2>2 DEF Finds
<1> QED
  BY <1>1, <1>5, <1>6

LEMMA AlwaysFinds == KeySpec => []Finds
<1>1. KeyInit => Finds
  BY DEF KeyInit, Finds, Handled
<1>2. KInv /\ Finds /\ [KeyNext]_keyVars => Finds'
  <2> SUFFICES ASSUME KInv, Finds, [KeyNext]_keyVars, Handled'
               PROVE Finds'
    BY DEF Finds
  <2>1. CASE kpress
    BY <2>1, PressedFinds
  <2>2. CASE FindLeast \/ PlaceNext \/ RoundEnds \/ Modes
    <3>1. phase' # "pressed"
      BY <2>2 DEF FindLeast, PlaceNext, RoundEnds, Modes
    <3> QED
      BY <3>1 DEF Handled
  <2>3. CASE UNCHANGED keyVars
    BY <2>3 DEF keyVars, sortVars, modeVars, Finds, Handled, OwnFor, BoundFor, Matches
  <2> QED
    BY <2>1, <2>2, <2>3 DEF KeyNext
<1> QED
  BY <1>1, <1>2, Sorts, PTL DEF KeySpec

\* For every table, a key runs a function of a binding of its own if one matches, and
\* is then not sent; a key that nothing matches runs nothing.  (sort_shortcuts, kpress.)
THEOREM KeysFind == KeySpec => []PressFinds
<1>1. Finds => PressFinds
  BY DEF Finds, PressFinds, OwnFor
<1> QED
  BY <1>1, AlwaysFinds, PTL

\* For every table, a binding of ALL_KEYS is never what a key runs: the table's order
\* puts it last, and the search stops at the first greater keysym, against what
\* config.h means it for.  (sort_shortcuts, kpress, config.h's binding of dummy.)
THEOREM CatchAllNeverRuns == KeySpec => []CatchAllMissed
<1>1. Finds => CatchAllMissed
  BY DEF Finds, CatchAllMissed
<1> QED
  BY <1>1, AlwaysFinds, PTL
=============================================================================
