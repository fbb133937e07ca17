------------------------------- MODULE Tty_proofs -------------------------------
(***************************************************************************)
(* Theorems about Tty, for every size of the kernel's queues and of the    *)
(* array of ttyread, and for answers and keys of any length.               *)
(***************************************************************************)
EXTENDS Tty, SequenceTheorems, TLAPS

OutByte == [b : Nat, ask : BOOLEAN]
Reading == [f : {"read"}, i : Nat, n : 1 .. BufSize, ret : 1 .. BufSize]
Writing == [f : {"raw"}, src : Sources, a : Nat, b : Nat, lim : Nat \ {0}, w : Nat, rfd : BOOLEAN]

\* A call has not parsed, or chosen to write, more than there is.
Frame == {fr \in Reading : fr.i <= fr.n}
           \cup {fr \in Writing : fr.a <= fr.b /\ fr.w <= Left(fr)}

ReadsIn(s)   == {k \in 1 .. Len(s) : s[k].f = "read"}
Alternate(s) == \A k \in 1 .. Len(s) - 1 : s[k].f # s[k + 1].f

Typed ==
  /\ inp \in Seq(Byte) /\ Len(inp) <= InCap
  /\ out \in Seq(OutByte) /\ Len(out) <= OutCap
  /\ buf \in Seq(OutByte) /\ Len(buf) <= BufSize
  /\ buflen \in Int /\ nout \in Nat /\ seen \in Int
  /\ issued \in [Sources -> Nat] /\ reentered \in BOOLEAN
  /\ program \in {"free", "text", "ask"}
  /\ stack \in Seq(Frame) /\ Alternate(stack)

\* What twrite was given is in the array, and buflen does not count more than the
\* array holds, or the innermost call was given.
Counted ==
  /\ buflen <= Len(buf)
  /\ \A k \in Reads : /\ stack[k].n <= Len(buf)
                      /\ (\A j \in Reads : j <= k) => buflen <= stack[k].n
  /\ Reads = {} => buflen <= 0

\* The queue from the program holds the last bytes it wrote.
QueueNumbered == \A k \in 1 .. Len(out) : out[k].b = nout - Len(out) + k

\* Until ttyread is re-entered at most one call of it is in progress.  The array
\* holds the bytes before those of the queue, and seen is the one parsed last.
OneRead ==
  ~reentered =>
    /\ \A j, k \in Reads : j = k
    /\ Reads = {} => buflen = 0 /\ seen = nout - Len(out)
    /\ \A k \in Reads :
         /\ buflen = stack[k].n
         /\ seen = nout - Len(out) - stack[k].n + stack[k].i
         /\ \A j \in 1 .. stack[k].n : buf[j].b = nout - Len(out) - stack[k].n + j

IInv == Typed /\ Counted /\ QueueNumbered /\ OneRead

\* A call on the stack.
LEMMA FrameFacts ==
  ASSUME NEW fr \in Frame
  PROVE /\ fr.f \in {"read", "raw"}
        /\ fr.f = "read" => /\ fr \in Reading /\ fr.i <= fr.n /\ fr.i \in Nat
                            /\ fr.n \in 1 .. BufSize /\ fr.ret \in 1 .. BufSize
        /\ fr.f = "raw"  => /\ fr \in Writing /\ fr.src \in Sources /\ fr.a \in Nat /\ fr.b \in Nat
                            /\ fr.lim \in Nat \ {0} /\ fr.w \in Nat /\ fr.rfd \in BOOLEAN
                            /\ fr.a <= fr.b /\ fr.w <= fr.b - fr.a + 1
BY DEF Frame, Reading, Writing, Left

\* The first elements of a sequence.
LEMMA PrefixFacts ==
  ASSUME NEW S, NEW s \in Seq(S), NEW n \in Nat, n <= Len(s)
  PROVE /\ SubSeq(s, 1, n) \in Seq(S) /\ Len(SubSeq(s, 1, n)) = n
        /\ \A k \in 1 .. n : SubSeq(s, 1, n)[k] = s[k]
OBVIOUS

\* The elements behind the first ones.
LEMMA SuffixFacts ==
  ASSUME NEW S, NEW s \in Seq(S), NEW n \in Nat, n <= Len(s)
  PROVE /\ SubSeq(s, n + 1, Len(s)) \in Seq(S) /\ Len(SubSeq(s, n + 1, Len(s))) = Len(s) - n
        /\ \A k \in 1 .. Len(s) - n : SubSeq(s, n + 1, Len(s))[k] = s[n + k]
OBVIOUS

\* The elements of s from i + 1 to n, followed by o.
Rest(new, s, i, n, o) ==
  /\ Len(new) = (n - i) + Len(o)
  /\ \A k \in 1 .. n - i : new[k] = s[i + k]
  /\ \A j \in 1 .. Len(o) : new[(n - i) + j] = o[j]

\* What Unparsed is: a part of the array and the queue.
LEMMA RestFacts ==
  ASSUME NEW S, NEW s \in Seq(S), NEW o \in Seq(S), NEW i \in Nat, NEW n \in Nat,
         i <= n, n <= Len(s)
  PROVE Rest(SubSeq(s, i + 1, n) \o o, s, i, n, o)
<1> DEFINE P == SubSeq(s, i + 1, n)
<1>1. P \in Seq(S) /\ Len(P) = n - i /\ \A k \in 1 .. n - i : P[k] = s[i + k]
  OBVIOUS
<1> HIDE DEF P
<1>2. /\ Len(P \o o) = Len(P) + Len(o)
      /\ \A k \in 1 .. Len(P) : (P \o o)[k] = P[k]
      /\ \A j \in 1 .. Len(o) : (P \o o)[Len(P) + j] = o[j]
  BY SMTT(40), <1>1
<1> QED
  BY <1>1, <1>2 DEF P, Rest

\* Three sequences in a row.
LEMMA JoinFacts ==
  ASSUME NEW S, NEW p \in Seq(S), NEW q \in Seq(S), NEW t \in Seq(S)
  PROVE /\ p \o q \o t \in Seq(S) /\ Len(p \o q \o t) = Len(p) + Len(q) + Len(t)
        /\ \A j \in 1 .. Len(q) : (p \o q \o t)[Len(p) + j] = q[j]
OBVIOUS

\* What read(2) does: r elements of o overwrite those of b from the n'th on.
Filled(new, S, b, o, n, r) ==
  /\ new \in Seq(S)
  /\ n + r <= Len(b) => Len(new) = Len(b)
  /\ ~(n + r <= Len(b)) => Len(new) = n + r
  /\ \A j \in 1 .. r : new[n + j] = o[j]

\* The array after a read(2).
LEMMA FillFacts ==
  ASSUME NEW S, NEW b \in Seq(S), NEW o \in Seq(S), NEW n \in Nat, n <= Len(b),
         NEW r \in Nat, r <= Len(o)
  PROVE Filled(SubSeq(b, 1, n) \o SubSeq(o, 1, r) \o SubSeq(b, n + r + 1, Len(b)), S, b, o, n, r)
<1> DEFINE P == SubSeq(b, 1, n)
           Q == SubSeq(o, 1, r)
           R == SubSeq(b, n + r + 1, Len(b))
<1>1. Len(b) \in Nat /\ n + r \in Nat
  OBVIOUS
<1>2. P \in Seq(S) /\ Len(P) = n
  BY PrefixFacts
<1>3. Q \in Seq(S) /\ Len(Q) = r /\ \A j \in 1 .. r : Q[j] = o[j]
  BY PrefixFacts
<1>4. /\ R \in Seq(S) /\ Len(R) \in Nat
      /\ n + r <= Len(b) => Len(R) = Len(b) - (n + r)
      /\ ~(n + r <= Len(b)) => Len(R) = 0
  <2>1. CASE n + r <= Len(b)
    BY <1>1, <2>1, SuffixFacts
  <2>2. CASE ~(n + r <= Len(b))
    <3>1. R = <<>>
      BY <1>1, <2>2, SubSeqEmpty
    <3> QED
      BY <2>2, <3>1
  <2> QED
    BY <2>1, <2>2
<1> HIDE DEF P, Q, R
<1>5. /\ P \o Q \o R \in Seq(S) /\ Len(P \o Q \o R) = Len(P) + Len(Q) + Len(R)
      /\ \A j \in 1 .. Len(Q) : (P \o Q \o R)[Len(P) + j] = Q[j]
  <2>1. P \in Seq(S) /\ Q \in Seq(S) /\ R \in Seq(S)
    BY <1>2, <1>3, <1>4
  <2> QED
    BY <2>1, JoinFacts
<1>6. Len(P \o Q \o R) = n + r + Len(R) /\ \A j \in 1 .. r : (P \o Q \o R)[n + j] = o[j]
  BY <1>2, <1>3, <1>5
<1>7. n + r <= Len(b) => Len(P \o Q \o R) = Len(b)
  BY <1>1, <1>4, <1>6
<1>8. ~(n + r <= Len(b)) => Len(P \o Q \o R) = n + r
  BY <1>1, <1>4, <1>6
<1> QED
  BY <1>5, <1>6, <1>7, <1>8 DEF P, Q, R, Filled

\* A call is made.
LEMMA PushFacts ==
  ASSUME NEW s \in Seq(Frame), NEW fr \in Frame, Alternate(s),
         s = <<>> \/ s[Len(s)].f # fr.f
  PROVE /\ Append(s, fr) \in Seq(Frame) /\ Len(Append(s, fr)) = Len(s) + 1
        /\ \A k \in 1 .. Len(s) : Append(s, fr)[k] = s[k]
        /\ Append(s, fr)[Len(s) + 1] = fr
        /\ ReadsIn(Append(s, fr)) = ReadsIn(s) \cup (IF fr.f = "read" THEN {Len(s) + 1} ELSE {})
        /\ Alternate(Append(s, fr))
<1>1. /\ Append(s, fr) \in Seq(Frame) /\ Len(Append(s, fr)) = Len(s) + 1 /\ Len(s) \in Nat
      /\ \A k \in 1 .. Len(s) : Append(s, fr)[k] = s[k]
      /\ Append(s, fr)[Len(s) + 1] = fr
      /\ s # <<>> => Len(s) >= 1
  BY AppendProperties, LenProperties, EmptySeq
<1>2. ReadsIn(Append(s, fr)) = ReadsIn(s) \cup (IF fr.f = "read" THEN {Len(s) + 1} ELSE {})
  BY <1>1 DEF ReadsIn
<1>3. Alternate(Append(s, fr))
  <2>1. ASSUME NEW k \in 1 .. Len(s)
        PROVE Append(s, fr)[k].f # Append(s, fr)[k + 1].f
    <3>1. CASE k = Len(s)
      <4>1. s # <<>>
        BY <1>1, <3>1, EmptySeq
      <4> QED
        BY <1>1, <3>1, <4>1
    <3>2. CASE k # Len(s)
      BY <1>1, <3>2 DEF Alternate
    <3> QED
      BY <3>1, <3>2
  <2> QED
    BY <1>1, <2>1 DEF Alternate
<1> QED
  BY <1>1, <1>2, <1>3

\* A call returns.
LEMMA PopFacts ==
  ASSUME NEW s \in Seq(Frame), s # <<>>, Alternate(s)
  PROVE LET r == SubSeq(s, 1, Len(s) - 1)
        IN /\ r \in Seq(Frame) /\ Len(r) = Len(s) - 1 /\ Len(s) \in Nat /\ Len(s) >= 1
           /\ \A k \in 1 .. Len(r) : r[k] = s[k]
           /\ s[Len(s)] \in Frame
           /\ ReadsIn(r) = ReadsIn(s) \ {Len(s)}
           /\ Alternate(r)
           /\ r # <<>> => r[Len(r)].f # s[Len(s)].f
<1> DEFINE r == SubSeq(s, 1, Len(s) - 1)
<1>1. Len(s) \in Nat /\ Len(s) >= 1 /\ \A k \in 1 .. Len(s) : s[k] \in Frame
  BY LenProperties, EmptySeq, ElementOfSeq
<1>2. r \in Seq(Frame) /\ Len(r) = Len(s) - 1 /\ \A k \in 1 .. Len(r) : r[k] = s[k]
  <2>1. Len(s) - 1 \in Nat /\ Len(s) - 1 <= Len(s)
    BY <1>1
  <2> QED
    BY <2>1, PrefixFacts
<1> HIDE DEF r
<1>3. ReadsIn(r) = ReadsIn(s) \ {Len(s)}
  BY <1>1, <1>2 DEF ReadsIn
<1>4. Alternate(r)
  BY <1>1, <1>2 DEF Alternate
<1>5. r # <<>> => r[Len(r)].f # s[Len(s)].f
  <2>1. r # <<>> => Len(r) >= 1
    BY <1>2, EmptySeq
  <2> QED
    BY <1>1, <1>2, <2>1 DEF Alternate
<1> QED
  BY <1>1, <1>2, <1>3, <1>4, <1>5 DEF r

\* The innermost call.
LEMMA TopFacts ==
  ASSUME Typed, NEW f \in {"read", "raw"}, Busy(f)
  PROVE /\ stack # <<>> /\ Len(stack) \in Nat /\ Len(stack) >= 1
        /\ Top = stack[Len(stack)] /\ Top \in Frame /\ Top.f = f
        /\ Len(stack) \in ReadsIn(stack) <=> f = "read"
<1>1. stack # <<>> /\ Top.f = f /\ Top = stack[Len(stack)]
  BY DEF Busy, Top
<1>2. Len(stack) \in Nat /\ Len(stack) >= 1
  BY <1>1, LenProperties, EmptySeq DEF Typed
<1>3. stack[Len(stack)] \in Frame
  BY <1>2, ElementOfSeq DEF Typed
<1> QED
  BY <1>1, <1>2, <1>3 DEF ReadsIn

\* The innermost call goes on.
LEMMA SetTopFacts ==
  ASSUME Typed, NEW f \in {"read", "raw"}, Busy(f), NEW fr \in Frame, fr.f = f
  PROVE /\ SetTop(fr) \in Seq(Frame) /\ Alternate(SetTop(fr))
        /\ Len(SetTop(fr)) = Len(stack) /\ SetTop(fr)[Len(stack)] = fr
        /\ \A k \in 1 .. Len(stack) - 1 : SetTop(fr)[k] = stack[k]
        /\ ReadsIn(SetTop(fr)) = ReadsIn(stack)
<1>1. stack # <<>> /\ Len(stack) \in Nat /\ Len(stack) >= 1 /\ stack[Len(stack)].f = f
  BY TopFacts
<1>2. Alternate(stack) /\ stack \in Seq(Frame)
  BY DEF Typed
<1>3. /\ Below \in Seq(Frame) /\ Len(Below) = Len(stack) - 1
      /\ \A k \in 1 .. Len(stack) - 1 : Below[k] = stack[k]
      /\ ReadsIn(Below) = ReadsIn(stack) \ {Len(stack)}
      /\ Alternate(Below)
      /\ Below # <<>> => Below[Len(Below)].f # f
  BY <1>1, <1>2, PopFacts DEF Below
<1>4. /\ Append(Below, fr) \in Seq(Frame) /\ Len(Append(Below, fr)) = Len(Below) + 1
      /\ \A k \in 1 .. Len(Below) : Append(Below, fr)[k] = Below[k]
      /\ Append(Below, fr)[Len(Below) + 1] = fr
      /\ ReadsIn(Append(Below, fr))
           = ReadsIn(Below) \cup (IF fr.f = "read" THEN {Len(Below) + 1} ELSE {})
      /\ Alternate(Append(Below, fr))
  BY <1>3, PushFacts
<1>5. ReadsIn(SetTop(fr)) = ReadsIn(stack)
  BY <1>1, <1>3, <1>4, TopFacts DEF SetTop
<1> QED
  BY <1>1, <1>3, <1>4, <1>5 DEF SetTop

\* Steps of the writing calls, and of the program reading, leave the rest alone.
LEMMA SameReads ==
  ASSUME IInv, UNCHANGED <<out, buf, buflen, nout, seen, reentered>>,
         inp' \in Seq(Byte), Len(inp') <= InCap, issued' \in [Sources -> Nat],
         program' \in {"free", "text", "ask"},
         stack' \in Seq(Frame), Alternate(stack'), ReadsIn(stack') = ReadsIn(stack),
         \A k \in ReadsIn(stack) : stack'[k] = stack[k]
  PROVE IInv'
<1>1. Reads = ReadsIn(stack) /\ Reads' = ReadsIn(stack)
  BY DEF Reads, ReadsIn
<1>2. Typed'
  BY DEF IInv, Typed
<1>3. Counted'
  BY <1>1 DEF IInv, Counted
<1>4. QueueNumbered'
  BY DEF IInv, QueueNumbered
<1>5. OneRead'
  BY <1>1 DEF IInv, OneRead
<1> QED
  BY <1>2, <1>3, <1>4, <1>5 DEF IInv

\* A call of ttywriteraw begins.
LEMMA RawFrameFacts ==
  ASSUME Typed, NEW src \in Sources, NEW n \in Nat \ {0}
  PROVE RawFrame(src, n) \in Frame /\ RawFrame(src, n).f = "raw"
<1>1. issued[src] \in Nat /\ Lim \in Nat \ {0}
  BY TtyAssumption DEF Typed
<1> QED
  BY <1>1 DEF RawFrame, Frame, Writing, Left

\* A key: kpress calls ttywrite.
LEMMA KeyKeeps ==
  ASSUME IInv, NEW n \in KeyLens, Key(n)
  PROVE IInv'
<1>1. /\ stack = <<>> /\ stack' = <<RawFrame("key", n)>> /\ Typed
      /\ UNCHANGED <<out, buf, buflen, nout, seen, reentered, inp, program>>
      /\ issued' = [issued EXCEPT !["key"] = @ + n]
  BY DEF Key, IInv
<1>2. n \in Nat \ {0} /\ "key" \in Sources
  BY TtyAssumption DEF Sources
<1>3. RawFrame("key", n) \in Frame /\ RawFrame("key", n).f = "raw"
  BY <1>1, <1>2, RawFrameFacts
<1>4. stack' \in Seq(Frame) /\ Len(stack') = 1 /\ stack'[1].f = "raw"
  BY <1>1, <1>3
<1>5. Alternate(stack') /\ ReadsIn(stack') = ReadsIn(stack) /\ ReadsIn(stack) = {}
  BY <1>1, <1>4 DEF Alternate, ReadsIn
<1>6. issued' \in [Sources -> Nat]
  BY <1>1, <1>2 DEF Typed
<1> QED
  BY <1>1, <1>4, <1>5, <1>6, SameReads DEF Typed

\* pselect says that the pty is writable.
LEMMA SelectKeeps ==
  ASSUME IInv, SelectWritable
  PROVE IInv'
<1> DEFINE fr == [Top EXCEPT !.w = Lower(Left(Top), Top.lim), !.rfd = out # <<>>]
<1>1. /\ Busy("raw") /\ Typed /\ stack' = SetTop(fr)
      /\ UNCHANGED <<inp, out, buf, buflen, program, nout, seen, issued, reentered>>
  BY DEF SelectWritable, IInv
<1>2. Top \in Frame /\ Top.f = "raw"
  BY <1>1, TopFacts
<1>3. /\ Top \in Writing /\ Top.a \in Nat /\ Top.b \in Nat /\ Top.lim \in Nat \ {0}
      /\ Top.a <= Top.b
  BY <1>2, FrameFacts
<1>4. Lower(Left(Top), Top.lim) \in Nat /\ Lower(Left(Top), Top.lim) <= Left(Top)
  BY <1>3 DEF Lower, Left
<1>5. fr \in Writing /\ fr.a = Top.a /\ fr.b = Top.b /\ fr.w = Lower(Left(Top), Top.lim) /\ fr.f = "raw"
  BY <1>3, <1>4 DEF Writing
<1>6. fr \in Frame
  BY <1>3, <1>4, <1>5 DEF Frame, Left
<1> HIDE DEF fr
<1>7. /\ SetTop(fr) \in Seq(Frame) /\ Alternate(SetTop(fr))
      /\ \A k \in 1 .. Len(stack) - 1 : SetTop(fr)[k] = stack[k]
      /\ ReadsIn(SetTop(fr)) = ReadsIn(stack)
      /\ Len(stack) \notin ReadsIn(stack)
  BY <1>1, <1>5, <1>6, SetTopFacts, TopFacts
<1>8. \A k \in ReadsIn(stack) : stack'[k] = stack[k]
  BY <1>1, <1>7, TopFacts DEF ReadsIn
<1> QED
  BY <1>1, <1>7, <1>8, SameReads DEF Typed

\* A part of the chunk is written; the call returns when all is.
LEMMA WriteChunkKeeps ==
  ASSUME IInv, WriteChunk
  PROVE IInv'
<1> DEFINE r  == Lower(Top.w, Free)
           fr == [Top EXCEPT !.a = @ + r, !.w = @ - r]
           e  == [k \in 1 .. r |-> [src |-> Top.src, b |-> Top.a + k - 1]]
<1>1. /\ Busy("raw") /\ Typed /\ Top.w > 0 /\ Free > 0
      /\ inp' = inp \o e
      /\ stack' = IF Left(fr) = 0 THEN Below ELSE SetTop(fr)
      /\ UNCHANGED <<out, buf, buflen, program, nout, seen, issued, reentered>>
  BY DEF WriteChunk, IInv
<1>2. /\ stack # <<>> /\ Top \in Frame /\ Top.f = "raw" /\ Len(stack) \notin ReadsIn(stack)
      /\ Len(stack) \in Nat /\ Len(stack) >= 1 /\ Top = stack[Len(stack)]
  BY <1>1, TopFacts
<1>3. /\ Top \in Writing /\ Top.a \in Nat /\ Top.b \in Nat /\ Top.w \in Nat /\ Top.src \in Sources
      /\ Top.a <= Top.b /\ Top.w <= Top.b - Top.a + 1
  BY <1>2, FrameFacts
<1>4. r \in Nat /\ r <= Top.w /\ r <= InCap - Len(inp)
  <2>1. Free \in Int /\ Free = InCap - Len(inp)
    <3>1. Len(inp) \in Nat /\ InCap \in Nat
      BY <1>1, LenProperties, TtyAssumption DEF Typed
    <3> QED
      BY <3>1 DEF Free
  <2>2. r = IF Top.w < Free THEN Top.w ELSE Free
    BY DEF Lower
  <2> HIDE DEF r
  <2> QED
    BY <1>1, <1>3, <2>1, <2>2
<1> HIDE DEF r
<1>5. inp' \in Seq(Byte) /\ Len(inp') <= InCap
  <2>1. e \in Seq(Byte) /\ Len(e) = r
    <3>1. \A k \in 1 .. r : Top.a + k - 1 \in Nat
      BY <1>3, <1>4
    <3>2. e \in [1 .. r -> Byte]
      BY <1>3, <3>1 DEF Byte
    <3> HIDE DEF e
    <3> QED
      BY <1>4, <3>2
  <2> HIDE DEF e
  <2>2. Len(inp') = Len(inp) + Len(e) /\ inp' \in Seq(Byte)
    BY <1>1, <2>1, ConcatProperties DEF Typed
  <2> QED
    BY <1>4, <2>1, <2>2, LenProperties, TtyAssumption DEF Typed
<1>6. fr \in Writing /\ fr.a = Top.a + r /\ fr.b = Top.b /\ fr.w = Top.w - r /\ fr.f = "raw"
  <2>1. Top.a + r \in Nat /\ Top.w - r \in Nat
    BY <1>3, <1>4
  <2> QED
    BY <1>3, <2>1 DEF Writing
<1> HIDE DEF fr, e
<1>7. CASE Left(fr) = 0
  <2>1. stack' = Below
    BY <1>1, <1>7
  <2>2. /\ Below \in Seq(Frame) /\ Len(Below) = Len(stack) - 1
        /\ \A k \in 1 .. Len(stack) - 1 : Below[k] = stack[k]
        /\ ReadsIn(Below) = ReadsIn(stack) \ {Len(stack)} /\ Alternate(Below)
    BY <1>1, <1>2, PopFacts DEF Below, Typed
  <2>3. ReadsIn(stack') = ReadsIn(stack) /\ \A k \in ReadsIn(stack) : stack'[k] = stack[k]
    BY <1>2, <2>1, <2>2 DEF ReadsIn
  <2> QED
    BY <1>1, <1>5, <2>1, <2>2, <2>3, SameReads DEF Typed
<1>8. CASE Left(fr) # 0
  <2>1. fr \in Frame
    BY <1>3, <1>4, <1>6, <1>8 DEF Frame, Left
  <2>2. /\ SetTop(fr) \in Seq(Frame) /\ Alternate(SetTop(fr))
        /\ \A k \in 1 .. Len(stack) - 1 : SetTop(fr)[k] = stack[k]
        /\ ReadsIn(SetTop(fr)) = ReadsIn(stack)
    BY <1>1, <1>6, <2>1, SetTopFacts
  <2>3. \A k \in ReadsIn(stack) : stack'[k] = stack[k]
    BY <1>1, <1>2, <1>8, <2>2 DEF ReadsIn
  <2> QED
    BY <1>1, <1>5, <1>8, <2>2, <2>3, SameReads DEF Typed
<1> QED
  BY <1>7, <1>8

\* The program reads a byte, or decides to write one.
LEMMA ProgramKeeps ==
  ASSUME IInv, ProgramRead \/ ProgramDecide
  PROVE IInv'
<1>1. /\ UNCHANGED <<out, buf, buflen, stack, nout, seen, issued, reentered>>
      /\ program' \in {"free", "text", "ask"} /\ Typed
  BY DEF ProgramRead, ProgramDecide, IInv, Typed
<1>2. inp' \in Seq(Byte) /\ Len(inp') <= InCap
  <2>1. CASE ProgramRead
    <3>1. inp # <<>> /\ inp' = Tail(inp)
      BY <2>1 DEF ProgramRead
    <3> QED
      BY <1>1, <3>1, HeadTailProperties, LenProperties, TtyAssumption DEF Typed
  <2>2. CASE ProgramDecide
    BY <1>1, <2>2 DEF ProgramDecide, Typed
  <2> QED
    BY <2>1, <2>2
<1> QED
  BY <1>1, <1>2, SameReads DEF Typed

\* ttyread: called by run, or by a ttywriteraw that waits.
LEMMA TtyReadKeeps ==
  ASSUME IInv, NEW base \in Seq(Frame), Alternate(base), ReadsIn(base) = ReadsIn(stack),
         \A k \in ReadsIn(base) : base[k] = stack[k],
         base = <<>> \/ base[Len(base)].f = "raw",
         TtyRead(base)
  PROVE IInv'
<1>2. /\ Typed /\ 0 <= buflen /\ reentered' = (reentered \/ ReadingBase(base))
      /\ UNCHANGED <<inp, program, nout, seen, issued>> /\ buflen <= Len(buf)
      /\ Reads = ReadsIn(stack)
  BY DEF TtyRead, IInv, Counted, Reads, ReadsIn
<1>0. /\ buf \in Seq(OutByte) /\ out \in Seq(OutByte)
      /\ buflen \in Nat /\ Len(buf) \in Nat /\ Len(out) \in Nat /\ Len(buf) <= BufSize
      /\ Len(base) \in Nat /\ BufSize \in Nat /\ nout \in Nat /\ OutCap \in Nat
  BY <1>2, LenProperties, TtyAssumption DEF Typed
<1>1. PICK r \in Nat :
        /\ 1 <= r /\ r <= Len(out) /\ buflen + r <= BufSize
        /\ buf' = SubSeq(buf, 1, buflen) \o SubSeq(out, 1, r)
                    \o SubSeq(buf, buflen + r + 1, Len(buf))
        /\ buflen' = buflen + r
        /\ stack' = Append(base, ReadFrame(buflen + r, r))
        /\ out' = SubSeq(out, r + 1, Len(out))
  <2>1. \A r \in 1 .. Lower(Len(out), BufSize - buflen) :
          r \in Nat /\ 1 <= r /\ r <= Len(out) /\ buflen + r <= BufSize
    BY <1>0 DEF Lower
  <2> QED
    BY <2>1 DEF TtyRead
<1>3. r \in Nat /\ 1 <= r /\ r <= Len(out) /\ buflen + r <= BufSize
  BY <1>1
<1>4. /\ buf' \in Seq(OutByte) /\ Len(buf') \in Nat /\ Len(buf') <= BufSize
      /\ Len(buf) <= Len(buf') /\ buflen + r <= Len(buf')
      /\ \A j \in 1 .. r : buf'[buflen + j] = out[j]
  <2>1. /\ buf \in Seq(OutByte) /\ out \in Seq(OutByte) /\ buflen \in Nat /\ buflen <= Len(buf)
        /\ r \in Nat /\ r <= Len(out)
    BY <1>0, <1>1, <1>2
  <2>2. Filled(buf', OutByte, buf, out, buflen, r)
    BY <1>1, <2>1, FillFacts
  <2> QED
    BY <1>0, <1>3, <2>2 DEF Filled
<1>5. /\ out' \in Seq(OutByte) /\ Len(out') = Len(out) - r
      /\ \A k \in 1 .. Len(out) - r : out'[k] = out[r + k]
  BY SMTT(40), <1>1, <1>2, <1>0, <1>3, <1>4, SuffixFacts DEF Typed
<1> DEFINE fr == ReadFrame(buflen + r, r)
<1>6. fr \in Frame /\ fr.f = "read" /\ fr.n = buflen + r /\ fr.i = 0
  <2>1. buflen + r \in 1 .. BufSize /\ r \in 1 .. BufSize
    BY <1>0, <1>3, <1>4
  <2> QED
    BY <1>0, <2>1 DEF ReadFrame, Frame, Reading
<1> HIDE DEF fr
<1>7. /\ stack' \in Seq(Frame) /\ Len(stack') = Len(base) + 1 /\ stack'[Len(base) + 1] = fr
      /\ \A k \in 1 .. Len(base) : stack'[k] = base[k]
      /\ ReadsIn(stack') = ReadsIn(base) \cup {Len(base) + 1}
      /\ Alternate(stack')
  BY <1>1, <1>6, PushFacts DEF fr
<1>8. /\ Reads' = ReadsIn(base) \cup {Len(base) + 1}
      /\ \A k \in ReadsIn(base) : k \in 1 .. Len(base) /\ k \in Reads /\ stack'[k] = stack[k]
  <2>1. Reads' = ReadsIn(stack')
    BY DEF Reads, ReadsIn
  <2>2. \A k \in ReadsIn(base) : k \in 1 .. Len(base)
    BY DEF ReadsIn
  <2> QED
    BY <1>2, <1>7, <2>1, <2>2
<1>9. Typed'
  <2>1. buflen' \in Int /\ Len(out') <= OutCap
    <3>1. Len(out) <= OutCap
      BY <1>2 DEF Typed
    <3>2. Len(out) - r <= Len(out) /\ Len(out) - r \in Int /\ buflen + r \in Int
      BY <1>0, <1>3
    <3> QED
      BY <1>0, <1>1, <1>5, <3>1, <3>2
  <2>2. /\ inp' = inp /\ nout' = nout /\ seen' = seen /\ issued' = issued /\ program' = program
        /\ reentered' \in BOOLEAN
    BY <1>2
  <2> QED
    BY <1>2, <1>4, <1>5, <1>7, <2>1, <2>2 DEF Typed
<1>10. Counted'
  <2>1. ASSUME NEW k \in Reads'
        PROVE /\ stack'[k].n <= Len(buf')
              /\ (\A j \in Reads' : j <= k) => buflen' <= stack'[k].n
    <3>1. CASE k = Len(base) + 1
      BY SMTT(40), <1>0, <1>1, <1>4, <1>6, <1>7, <3>1
    <3>2. CASE k \in ReadsIn(base)
      <4>1. stack'[k].n = stack[k].n /\ stack[k].n <= Len(buf)
        BY <1>8, <3>2 DEF IInv, Counted
      <4>2. stack[k].n \in Nat
        <5>1. k \in ReadsIn(stack) /\ stack[k] \in Frame /\ stack[k].f = "read"
          BY <1>2, <3>2, ElementOfSeq DEF Typed, ReadsIn
        <5> QED
          BY <1>0, <5>1, FrameFacts
      <4>3. Len(base) + 1 \in Reads' /\ ~(Len(base) + 1 <= k)
        BY <1>0, <1>4, <1>8, <3>2
      <4> QED
        BY <1>0, <1>3, <1>4, <4>1, <4>2, <4>3
    <3> QED
      BY <1>8, <3>1, <3>2
  <2>2. Reads' # {}
    BY <1>8
  <2> QED
    BY <1>0, <1>1, <1>4, <2>1, <2>2 DEF Counted
<1>11. QueueNumbered'
  <2>1. ASSUME NEW k \in 1 .. Len(out) - r
        PROVE out[r + k].b = nout - (Len(out) - r) + k
    <3>1. r + k \in 1 .. Len(out)
      BY <1>0, <1>3, <1>4
    <3>2. out[r + k].b = nout - Len(out) + (r + k)
      BY <3>1 DEF IInv, QueueNumbered
    <3> QED
      BY <1>0, <1>3, <1>4, <3>2
  <2> QED
    BY <1>2, <1>5, <2>1 DEF QueueNumbered
<1>12. OneRead'
  <2> SUFFICES ASSUME ~reentered'
               PROVE /\ \A j, k \in Reads' : j = k
                     /\ Reads' # {}
                     /\ \A k \in Reads' :
                          /\ buflen' = stack'[k].n
                          /\ seen' = nout' - Len(out') - stack'[k].n + stack'[k].i
                          /\ \A j \in 1 .. stack'[k].n :
                               buf'[j].b = nout' - Len(out') - stack'[k].n + j
    BY DEF OneRead
  <2>1. ~reentered /\ ReadsIn(base) = {}
    BY <1>2 DEF ReadingBase, ReadsIn, Typed
  <2>2. buflen = 0 /\ seen = nout - Len(out) /\ Reads' = {Len(base) + 1}
    BY <1>2, <1>8, <2>1 DEF IInv, OneRead
  <2>3. /\ stack'[Len(base) + 1].n = r /\ stack'[Len(base) + 1].i = 0 /\ buflen' = r
        /\ nout' = nout /\ Len(out') = Len(out) - r /\ seen' = nout - Len(out)
    BY <1>1, <1>2, <1>3, <1>5, <1>6, <1>7, <2>2
  <2>4. ASSUME NEW j \in 1 .. r
        PROVE buf'[j].b = nout - (Len(out) - r) - r + j
    <3>1. buf'[j] = out[j] /\ j \in 1 .. Len(out) /\ j \in Int
      BY <1>0, <1>3, <1>4, <2>2
    <3>2. out[j].b = nout - Len(out) + j
      BY <3>1 DEF IInv, QueueNumbered
    <3> QED
      BY <1>0, <1>3, <1>4, <3>1, <3>2
  <2>5. nout - Len(out) = nout - (Len(out) - r) - r + 0
    BY <1>0, <1>3, <1>4
  <2> QED
    BY <2>2, <2>3, <2>4, <2>5
<1> QED
  BY <1>9, <1>10, <1>11, <1>12 DEF IInv

\* run's ttyread, and those of a ttywriteraw.
LEMMA ReadsKeep ==
  ASSUME IInv, RunReads \/ SelectReadable \/ ReadAfterChunk
  PROVE IInv'
<1>1. stack \in Seq(Frame) /\ Alternate(stack) /\ Typed
  BY DEF IInv, Typed
<1>2. CASE RunReads
  <2>1. stack = <<>> /\ TtyRead(<<>>)
    BY <1>2 DEF RunReads
  <2> QED
    BY <1>1, <2>1, TtyReadKeeps
<1>3. CASE SelectReadable
  <2>1. Busy("raw") /\ TtyRead(stack)
    BY <1>3 DEF SelectReadable
  <2>2. stack[Len(stack)].f = "raw"
    BY <1>1, <2>1, TopFacts
  <2> QED
    BY <1>1, <2>1, <2>2, TtyReadKeeps
<1>4. CASE ReadAfterChunk
  <2> DEFINE fr == [Top EXCEPT !.rfd = FALSE]
  <2>1. Busy("raw") /\ TtyRead(SetTop(fr))
    BY <1>4 DEF ReadAfterChunk
  <2>2. /\ Top \in Frame /\ Top.f = "raw" /\ Len(stack) \notin ReadsIn(stack)
        /\ Len(stack) \in Nat /\ Len(stack) >= 1
    BY <1>1, <2>1, TopFacts
  <2>3. fr \in Frame /\ fr.f = "raw"
    <3>1. Top \in Writing /\ Top.a <= Top.b /\ Top.w <= Top.b - Top.a + 1
      BY <2>2, FrameFacts
    <3>2. fr \in Writing /\ fr.a = Top.a /\ fr.b = Top.b /\ fr.w = Top.w /\ fr.f = "raw"
      BY <3>1 DEF Writing
    <3> QED
      BY <3>1, <3>2 DEF Frame, Left
  <2> HIDE DEF fr
  <2>4. /\ SetTop(fr) \in Seq(Frame) /\ Alternate(SetTop(fr))
        /\ Len(SetTop(fr)) = Len(stack) /\ SetTop(fr)[Len(stack)] = fr
        /\ \A k \in 1 .. Len(stack) - 1 : SetTop(fr)[k] = stack[k]
        /\ ReadsIn(SetTop(fr)) = ReadsIn(stack)
    BY <1>1, <2>1, <2>3, SetTopFacts
  <2>5. \A k \in ReadsIn(SetTop(fr)) : SetTop(fr)[k] = stack[k]
    BY <2>2, <2>4 DEF ReadsIn
  <2>6. SetTop(fr)[Len(SetTop(fr))].f = "raw"
    BY <2>3, <2>4
  <2> QED
    BY <2>1, <2>4, <2>5, <2>6, TtyReadKeeps
<1> QED
  BY <1>2, <1>3, <1>4

\* twrite parses the next byte; the one call of ttyread counts it.
LEMMA ParseKeeps ==
  ASSUME IInv, ParseByte
  PROVE IInv'
<1> DEFINE L == Len(stack)
           c == buf[Top.i + 1]
           fr == [Top EXCEPT !.i = @ + 1]
<1>1. /\ Typed /\ Busy("read") /\ Top.i < Top.n /\ seen' = c.b
      /\ UNCHANGED <<inp, out, buf, buflen, program, nout, reentered>>
      /\ \/ /\ stack' = Append(SetTop(fr), RawFrame("answer", AnswerLen))
            /\ issued' = [issued EXCEPT !["answer"] = @ + AnswerLen]
         \/ stack' = SetTop(fr) /\ issued' = issued
  BY DEF ParseByte, IInv
<1>2. /\ Top \in Frame /\ Top.f = "read" /\ L \in ReadsIn(stack) /\ L \in Nat /\ L >= 1
      /\ Top = stack[L] /\ Reads = ReadsIn(stack)
  BY <1>1, TopFacts DEF Reads, ReadsIn
<1>3. Top \in Reading /\ Top.i \in Nat /\ Top.n \in 1 .. BufSize
  BY <1>2, FrameFacts
<1>4. /\ fr \in Frame /\ fr.f = "read" /\ fr.i = Top.i + 1 /\ fr.n = Top.n
  <2>1. fr \in Reading /\ fr.f = "read" /\ fr.i = Top.i + 1 /\ fr.n = Top.n
    BY <1>3 DEF Reading
  <2>2. fr.i <= fr.n
    BY <1>1, <1>3, <2>1
  <2> QED
    BY <2>1, <2>2 DEF Frame
<1> HIDE DEF fr
<1>5. /\ SetTop(fr) \in Seq(Frame) /\ Alternate(SetTop(fr))
      /\ Len(SetTop(fr)) = L /\ SetTop(fr)[L] = fr
      /\ \A k \in 1 .. L - 1 : SetTop(fr)[k] = stack[k]
      /\ ReadsIn(SetTop(fr)) = ReadsIn(stack)
  BY <1>1, <1>4, SetTopFacts
<1>6. /\ stack' \in Seq(Frame) /\ Alternate(stack') /\ ReadsIn(stack') = ReadsIn(stack)
      /\ \A k \in 1 .. L : stack'[k] = SetTop(fr)[k]
      /\ issued' \in [Sources -> Nat]
  <2>1. CASE stack' = SetTop(fr) /\ issued' = issued
    BY <1>1, <1>5, <2>1 DEF Typed
  <2>2. CASE /\ stack' = Append(SetTop(fr), RawFrame("answer", AnswerLen))
             /\ issued' = [issued EXCEPT !["answer"] = @ + AnswerLen]
    <3>1. AnswerLen \in Nat \ {0} /\ "answer" \in Sources
      BY TtyAssumption DEF Sources
    <3>2. RawFrame("answer", AnswerLen) \in Frame /\ RawFrame("answer", AnswerLen).f = "raw"
      BY <1>1, <3>1, RawFrameFacts
    <3>3. SetTop(fr)[Len(SetTop(fr))].f # RawFrame("answer", AnswerLen).f
      BY <1>4, <1>5, <3>2
    <3>4. issued' \in [Sources -> Nat]
      BY <1>1, <2>2, <3>1 DEF Typed
    <3> DEFINE s == SetTop(fr)  g == RawFrame("answer", AnswerLen)
    <3>5. s \in Seq(Frame) /\ Alternate(s) /\ g \in Frame /\ s[Len(s)].f # g.f
      BY <1>5, <3>2, <3>3
    <3>6. g.f # "read"
      BY <3>2
    <3> HIDE DEF s, g
    <3>7. /\ Append(s, g) \in Seq(Frame) /\ Alternate(Append(s, g))
          /\ \A k \in 1 .. Len(s) : Append(s, g)[k] = s[k]
          /\ ReadsIn(Append(s, g)) = ReadsIn(s) \cup (IF g.f = "read" THEN {Len(s) + 1} ELSE {})
      BY <3>5, PushFacts
    <3>8. ReadsIn(Append(s, g)) = ReadsIn(s)
      BY <3>6, <3>7
    <3> QED
      BY <1>5, <2>2, <3>4, <3>7, <3>8 DEF s, g
  <2> QED
    BY <1>1, <2>1, <2>2
<1>7. /\ Reads' = Reads
      /\ \A k \in Reads : k \in 1 .. L /\ stack'[k].n = stack[k].n
  <2>1. Reads' = ReadsIn(stack')
    BY DEF Reads, ReadsIn
  <2>2. \A k \in Reads : k \in 1 .. L
    BY DEF Reads
  <2> QED
    BY <1>2, <1>4, <1>5, <1>6, <2>1, <2>2
<1>8. Top.i + 1 \in 1 .. Len(buf) /\ Top.i + 1 \in 1 .. Top.n /\ Top.n <= Len(buf)
  <2>1. Top.n <= Len(buf) /\ Len(buf) \in Nat
    BY <1>1, <1>2, LenProperties DEF IInv, Counted, Typed
  <2> QED
    BY <1>1, <1>3, <2>1
<1>9. Typed'
  <2>1. c \in OutByte
    BY <1>1, <1>8, ElementOfSeq DEF Typed
  <2>2. seen' \in Int
    BY <1>1, <2>1 DEF OutByte
  <2> QED
    BY <1>1, <1>6, <2>2 DEF Typed
<1>10. Counted'
  BY <1>1, <1>7 DEF IInv, Counted
<1>11. QueueNumbered'
  BY <1>1 DEF IInv, QueueNumbered
<1>12. OneRead'
  <2> SUFFICES ASSUME ~reentered
               PROVE OneRead'
    BY <1>1 DEF OneRead
  <2>1. Reads = {L} /\ buflen = Top.n /\ \A j \in 1 .. Top.n : buf[j].b = nout - Len(out) - Top.n + j
    BY <1>2 DEF IInv, OneRead
  <2>2. seen' = nout - Len(out) - Top.n + (Top.i + 1)
    BY <1>1, <1>8, <2>1
  <2>3. stack'[L].n = Top.n /\ stack'[L].i = Top.i + 1
    BY <1>2, <1>4, <1>5, <1>6
  <2> QED
    BY <1>1, <1>7, <2>1, <2>2, <2>3 DEF OneRead
<1> QED
  BY <1>9, <1>10, <1>11, <1>12 DEF IInv

\* ttyread is done: the bytes leave the array.
LEMMA ReadReturnsKeeps ==
  ASSUME IInv, ReadReturns
  PROVE IInv'
<1> DEFINE L == Len(stack)
           M == Len(Below)
<1>1. /\ Typed /\ Busy("read") /\ Top.i = Top.n /\ buflen' = buflen - Top.n
      /\ stack' = IF Below # <<>> THEN [Below EXCEPT ![M].lim = Top.ret] ELSE Below
      /\ buf' = IF ReadingBase(Below) THEN buf ELSE <<>>
      /\ UNCHANGED <<inp, out, program, nout, seen, issued, reentered>>
  BY DEF ReadReturns, IInv
<1>2. /\ stack # <<>> /\ Top \in Frame /\ Top.f = "read" /\ L \in ReadsIn(stack) /\ L \in Nat
      /\ L >= 1 /\ Top = stack[L] /\ Reads = ReadsIn(stack)
  BY <1>1, TopFacts DEF Reads, ReadsIn
<1>3. /\ Top.n \in 1 .. BufSize /\ Top.ret \in 1 .. BufSize /\ BufSize \in Nat
      /\ Top.n \in Int /\ buflen \in Int
  BY <1>1, <1>2, FrameFacts, TtyAssumption DEF Typed
<1>4. /\ Below \in Seq(Frame) /\ M = L - 1 /\ Alternate(Below)
      /\ \A k \in 1 .. M : Below[k] = stack[k]
      /\ ReadsIn(Below) = ReadsIn(stack) \ {L}
      /\ Below # <<>> => Below[M].f # "read"
  BY <1>1, <1>2, PopFacts DEF Below, Typed
<1>5. /\ stack' \in Seq(Frame) /\ Len(stack') = M
      /\ \A k \in 1 .. M : stack'[k].f = stack[k].f /\ (stack[k].f = "read" => stack'[k] = stack[k])
  <2>1. CASE Below = <<>>
    BY <1>1, <1>4, <2>1
  <2>2. CASE Below # <<>>
    <3> DEFINE g == [Below[M] EXCEPT !.lim = Top.ret]
    <3>1. M \in 1 .. Len(Below) /\ Below[M] \in Frame /\ Below[M].f = "raw"
      <4>1. M \in Nat /\ M >= 1
        BY <1>4, <2>2, LenProperties, EmptySeq
      <4>2. Below[M] \in Frame
        BY <1>4, <4>1, ElementOfSeq
      <4> QED
        BY <1>4, <2>2, <4>1, <4>2, FrameFacts
    <3>2. g \in Frame /\ g.f = "raw"
      <4>1. Below[M] \in Writing /\ Below[M].a <= Below[M].b /\ Below[M].w <= Left(Below[M])
        BY <3>1, FrameFacts DEF Left
      <4>2. Top.ret \in Nat \ {0}
        BY <1>3
      <4>3. /\ g \in Writing /\ g.a = Below[M].a /\ g.b = Below[M].b /\ g.w = Below[M].w
            /\ g.f = "raw"
        BY <4>1, <4>2 DEF Writing
      <4> QED
        BY <4>1, <4>3 DEF Frame, Left
    <3> HIDE DEF g
    <3>3. stack' = [Below EXCEPT ![M] = g]
      BY <1>1, <2>2 DEF g
    <3>4. /\ stack' \in Seq(Frame) /\ Len(stack') = M
          /\ \A k \in 1 .. M : stack'[k] = IF k = M THEN g ELSE Below[k]
      BY <1>4, <3>1, <3>2, <3>3, ExceptSeq
    <3> QED
      BY <1>4, <3>1, <3>2, <3>4
  <2> QED
    BY <2>1, <2>2
<1>6. Alternate(stack')
  BY <1>2, <1>4, <1>5 DEF Alternate
<1>7. /\ Reads' = Reads \ {L} /\ Reads' = ReadsIn(Below)
      /\ \A k \in Reads' : stack'[k] = stack[k] /\ k \in Reads
  BY SMTT(40), <1>2, <1>4, <1>5 DEF Reads, ReadsIn
<1>8. buflen' \in Int /\ buflen' <= 0
  <2>1. \A j \in Reads : j <= L
    BY <1>2 DEF ReadsIn
  <2>2. buflen <= Top.n
    BY <1>2, <2>1 DEF IInv, Counted
  <2> QED
    BY <1>1, <1>3, <2>2
<1>9. /\ buf' \in Seq(OutByte) /\ Len(buf') <= BufSize /\ Len(buf') \in Nat
      /\ Reads' # {} => buf' = buf
  <2>1. Reads' # {} => ReadingBase(Below)
    BY <1>7 DEF ReadsIn, ReadingBase
  <2>2. buf \in Seq(OutByte) /\ Len(buf) <= BufSize /\ Len(buf) \in Nat
    BY <1>1, LenProperties DEF Typed
  <2>3. CASE buf' = buf
    BY <2>2, <2>3
  <2>4. CASE buf' = <<>> /\ ~ReadingBase(Below)
    BY <1>3, <2>1, <2>4
  <2> QED
    BY <1>1, <2>3, <2>4
<1>10. Typed'
  BY <1>1, <1>5, <1>6, <1>8, <1>9 DEF Typed
<1>11. Counted'
  <2>1. ASSUME NEW k \in Reads'
        PROVE stack'[k].n <= Len(buf') /\ buflen' <= stack'[k].n
    <3>1. k \in Reads /\ stack'[k] = stack[k] /\ buf' = buf /\ stack[k].n <= Len(buf)
      BY <1>7, <1>9 DEF IInv, Counted
    <3>2. stack[k] \in Frame /\ stack[k].f = "read"
      BY <1>1, <3>1, ElementOfSeq DEF Typed, Reads
    <3>3. stack[k].n \in Nat
      BY <1>3, <3>2, FrameFacts
    <3> QED
      BY <1>8, <3>1, <3>3
  <2> QED
    BY <1>8, <1>9, <2>1 DEF Counted
<1>12. QueueNumbered'
  BY <1>1 DEF IInv, QueueNumbered
<1>13. OneRead'
  <2> SUFFICES ASSUME ~reentered
               PROVE Reads' = {} /\ buflen' = 0 /\ seen' = nout' - Len(out')
    BY <1>1 DEF OneRead
  <2>1. /\ Reads = {L} /\ buflen = Top.n
        /\ seen = nout - Len(out) - Top.n + Top.i
    BY <1>2 DEF IInv, OneRead
  <2>2. Len(out) \in Int /\ nout \in Int
    BY <1>1, LenProperties DEF Typed
  <2>3. seen = nout - Len(out)
    BY <1>1, <1>3, <2>1, <2>2
  <2> QED
    BY <1>1, <1>3, <1>7, <2>1, <2>3
<1> QED
  BY <1>10, <1>11, <1>12, <1>13 DEF IInv

\* The program writes a byte.
LEMMA ProgramWriteKeeps ==
  ASSUME IInv, ProgramWrite
  PROVE IInv'
<1> DEFINE e == [b |-> nout + 1, ask |-> program = "ask"]
<1>1. /\ Typed /\ Len(out) < OutCap /\ out' = Append(out, e) /\ nout' = nout + 1
      /\ program' = "free" /\ UNCHANGED <<inp, buf, buflen, stack, seen, issued, reentered>>
  BY DEF ProgramWrite, IInv
<1>2. out \in Seq(OutByte) /\ Len(out) \in Nat /\ nout \in Nat /\ OutCap \in Nat
  BY <1>1, LenProperties, TtyAssumption DEF Typed
<1>3. e \in OutByte /\ e.b = nout + 1
  BY <1>2 DEF OutByte
<1> HIDE DEF e
<1>4. /\ out' \in Seq(OutByte) /\ Len(out') = Len(out) + 1 /\ out'[Len(out) + 1] = e
      /\ \A k \in 1 .. Len(out) : out'[k] = out[k]
  BY <1>1, <1>2, <1>3, AppendProperties
<1>5. nout' - Len(out') = nout - Len(out) /\ Len(out') <= OutCap /\ nout' \in Nat
  BY <1>1, <1>2, <1>4
<1>6. Reads' = Reads
  BY <1>1 DEF Reads
<1>7. Typed'
  BY <1>1, <1>4, <1>5 DEF Typed
<1>8. Counted'
  BY <1>1, <1>6 DEF IInv, Counted
<1>9. QueueNumbered'
  <2>1. ASSUME NEW k \in 1 .. Len(out) + 1
        PROVE out'[k].b = nout - Len(out) + k
    <3>1. CASE k = Len(out) + 1
      BY <1>2, <1>3, <1>4, <3>1
    <3>2. CASE k \in 1 .. Len(out)
      BY <1>4, <3>2 DEF IInv, QueueNumbered
    <3> QED
      BY <1>2, <3>1, <3>2
  <2> QED
    BY <1>4, <1>5, <2>1 DEF QueueNumbered
<1>10. OneRead'
  BY <1>1, <1>5, <1>6 DEF IInv, OneRead
<1> QED
  BY <1>7, <1>8, <1>9, <1>10 DEF IInv

\* At the start nothing is written and no call in progress.
LEMMA InitFacts == Init => IInv
<1> SUFFICES ASSUME Init
             PROVE IInv
  OBVIOUS
<1>1. Typed
  <2>1. issued \in [Sources -> Nat]
    BY DEF Init
  <2>2. /\ inp \in Seq(Byte) /\ Len(inp) = 0 /\ out \in Seq(OutByte) /\ Len(out) = 0
        /\ buf \in Seq(OutByte) /\ Len(buf) = 0 /\ stack \in Seq(Frame) /\ Len(stack) = 0
    BY DEF Init
  <2>3. 0 <= InCap /\ 0 <= OutCap /\ 0 <= BufSize
    BY TtyAssumption
  <2>4. Alternate(stack)
    BY <2>2 DEF Alternate
  <2>5. buflen \in Int /\ nout \in Nat /\ seen \in Int
    BY DEF Init
  <2>6. reentered \in BOOLEAN
    BY DEF Init
  <2>7. program \in {"free", "text", "ask"}
    BY DEF Init
  <2> QED
    BY <2>1, <2>2, <2>3, <2>4, <2>5, <2>6, <2>7 DEF Typed
<1>2. Reads = {} /\ Len(buf) = 0 /\ Len(out) = 0 /\ buflen = 0 /\ seen = 0 /\ nout = 0
  BY DEF Init, Reads
<1>3. Counted
  BY <1>2 DEF Counted
<1>4. QueueNumbered
  BY <1>2 DEF QueueNumbered
<1>5. OneRead
  BY <1>2 DEF OneRead
<1> QED
  BY <1>1, <1>3, <1>4, <1>5 DEF IInv

\* Every step keeps the invariant.
LEMMA NextKeeps == IInv /\ [Next]_vars => IInv'
<1> SUFFICES ASSUME IInv, [Next]_vars
             PROVE IInv'
  OBVIOUS
<1>1. CASE RunReads \/ SelectReadable \/ ReadAfterChunk
  BY <1>1, ReadsKeep
<1>2. CASE ParseByte
  BY <1>2, ParseKeeps
<1>3. CASE ReadReturns
  BY <1>3, ReadReturnsKeeps
<1>4. CASE SelectWritable
  BY <1>4, SelectKeeps
<1>5. CASE WriteChunk
  BY <1>5, WriteChunkKeeps
<1>6. CASE \E n \in KeyLens : Key(n)
  BY <1>6, KeyKeeps
<1>7. CASE ProgramRead \/ ProgramDecide
  BY <1>7, ProgramKeeps
<1>8. CASE ProgramWrite
  BY <1>8, ProgramWriteKeeps
<1>9. CASE UNCHANGED vars
  BY <1>9 DEF vars, IInv, Typed, Counted, QueueNumbered, OneRead, Reads
<1> QED
  BY <1>1, <1>2, <1>3, <1>4, <1>5, <1>6, <1>7, <1>8, <1>9 DEF Next, Terminal

\* So it holds in every state.
LEMMA Invariance == Spec => []IInv
BY InitFacts, NextKeeps, PTL DEF Spec

\* At most one ttyread and the two writes around it are in progress until ttyread is
\* re-entered, buflen counts what twrite was given, and the array and the kernel's
\* queues are never overrun.  (ttyread, ttywriteraw, twrite.)
THEOREM CallsTyped == Spec => []TypeOK
<1>1. IInv => TypeOK
  <2> SUFFICES ASSUME IInv
               PROVE TypeOK
    OBVIOUS
  <2>1. Typed /\ Len(inp) \in Nat /\ Len(stack) \in Nat
    BY LenProperties DEF IInv, Typed
  <2>2. \A k \in 1 .. Len(inp) : inp[k] \in Byte
    BY <2>1, ElementOfSeq DEF Typed
  <2>3. \A k \in 1 .. Len(stack) : stack[k] \in Frame
    BY <2>1, ElementOfSeq DEF Typed
  <2>4. \A fr \in Frame : fr \in Frames
    BY DEF Frame, Frames, Reading, Writing
  <2>5. ASSUME ~reentered
        PROVE /\ Len(stack) <= 3
              /\ \A k \in 1 .. Len(stack) : stack[k].f = "read" => buflen = stack[k].n
    <3>1. \A j, k \in Reads : j = k
      BY <2>5 DEF IInv, OneRead
    <3>2. \A k \in 1 .. Len(stack) - 1 : stack[k].f # stack[k + 1].f
      BY <2>1 DEF Typed, Alternate
    <3>3. ASSUME Len(stack) >= 4
          PROVE FALSE
      <4>1. /\ 1 \in 1 .. Len(stack) - 1 /\ 2 \in 1 .. Len(stack) - 1 /\ 3 \in 1 .. Len(stack) - 1
            /\ 1 + 1 = 2 /\ 2 + 1 = 3 /\ 3 + 1 = 4 /\ {1, 2, 3, 4} \subseteq 1 .. Len(stack)
        BY <2>1, <3>3
      <4>2. stack[1].f # stack[2].f /\ stack[2].f # stack[3].f /\ stack[3].f # stack[4].f
        BY <3>2, <4>1
      <4>3. \A k \in {1, 2, 3, 4} : stack[k].f \in {"read", "raw"}
        BY <2>3, <4>1, FrameFacts
      <4>4. \/ stack[1].f = "read" /\ stack[3].f = "read"
            \/ stack[2].f = "read" /\ stack[4].f = "read"
        BY <4>2, <4>3
      <4>5. (1 \in Reads /\ 3 \in Reads) \/ (2 \in Reads /\ 4 \in Reads)
        BY <4>1, <4>4 DEF Reads
      <4> QED
        BY <3>1, <4>5
    <3>4. \A k \in 1 .. Len(stack) : stack[k].f = "read" => buflen = stack[k].n
      BY <2>5 DEF IInv, OneRead, Reads
    <3> QED
      BY <2>1, <3>3, <3>4
  <2> QED
    BY <2>1, <2>2, <2>3, <2>4, <2>5 DEF TypeOK, Typed
<1> QED
  BY <1>1, Invariance, PTL

\* Every byte of the program is parsed once, in the order written, whatever the
\* terminal writes meanwhile, as long as ttyread is not re-entered.  (ttyread, twrite.)
THEOREM ParsedOnce == Spec => []ParsedInOrder
<1>1. IInv => ParsedInOrder
  <2> SUFFICES ASSUME IInv, ~reentered
               PROVE /\ Len(Unparsed) = nout - seen
                     /\ \A k \in 1 .. Len(Unparsed) : Unparsed[k].b = seen + k
    BY DEF ParsedInOrder
  <2>1. /\ buf \in Seq(OutByte) /\ out \in Seq(OutByte) /\ Len(buf) \in Nat /\ Len(out) \in Nat
        /\ nout \in Nat /\ stack \in Seq(Frame) /\ Len(stack) \in Nat
    BY LenProperties DEF IInv, Typed
  <2>2. \A k \in 1 .. Len(out) : out[k].b = nout - Len(out) + k
    BY DEF IInv, QueueNumbered
  <2>3. CASE Reads = {}
    <3>1. seen = nout - Len(out) /\ Unparsed = out
      BY <2>3 DEF IInv, OneRead, Unparsed
    <3> QED
      BY <2>1, <2>2, <3>1
  <2>4. CASE Reads # {}
    <3> DEFINE r == CHOOSE k \in Reads : TRUE
               fr == stack[r]
    <3>1. r \in Reads
      BY <2>4
    <3>2. Unparsed = SubSeq(buf, fr.i + 1, fr.n) \o out
      BY <2>4 DEF Unparsed
    <3> HIDE DEF r
    <3>3. /\ seen = nout - Len(out) - fr.n + fr.i /\ fr.n <= Len(buf)
          /\ \A j \in 1 .. fr.n : buf[j].b = nout - Len(out) - fr.n + j
      BY <3>1 DEF IInv, OneRead, Counted
    <3>4. fr.i \in Nat /\ fr.n \in Nat /\ fr.i <= fr.n
      <4>1. fr \in Frame /\ fr.f = "read"
        BY <2>1, <3>1, ElementOfSeq DEF Reads
      <4>2. BufSize \in Nat
        BY TtyAssumption
      <4> QED
        BY <4>1, <4>2, FrameFacts
    <3> HIDE DEF fr
    <3> DEFINE i == fr.i  n == fr.n
    <3>5. /\ i \in Nat /\ n \in Nat /\ i <= n /\ n <= Len(buf)
          /\ Unparsed = SubSeq(buf, i + 1, n) \o out
      BY <3>2, <3>3, <3>4
    <3>6. /\ seen = nout - Len(out) - n + i
          /\ \A j \in 1 .. n : buf[j].b = nout - Len(out) - n + j
      BY <3>3
    <3> HIDE DEF i, n
    <3>7. Rest(Unparsed, buf, i, n, out)
      BY <2>1, <3>5, RestFacts
    <3>8. (n - i) + Len(out) = nout - seen
      BY <2>1, <3>5, <3>6
    <3>9. ASSUME NEW k \in 1 .. (n - i) + Len(out)
          PROVE Unparsed[k].b = seen + k
      <4>1. CASE k \in 1 .. n - i
        <5>1. i + k \in 1 .. n /\ Unparsed[k] = buf[i + k]
          BY <3>5, <3>7, <4>1 DEF Rest
        <5>2. buf[i + k].b = nout - Len(out) - n + (i + k)
          BY <3>6, <5>1
        <5>3. nout - Len(out) - n + (i + k) = seen + k
          BY <2>1, <3>5, <3>6, <5>1
        <5> QED
          BY <5>1, <5>2, <5>3, Zenon
      <4>2. CASE k \notin 1 .. n - i
        <5> DEFINE j == k - (n - i)
        <5>1. j \in 1 .. Len(out) /\ k = (n - i) + j
          BY <2>1, <3>5, <4>2
        <5> HIDE DEF j
        <5>2. Unparsed[k] = out[j] /\ out[j].b = nout - Len(out) + j
          BY <2>2, <3>7, <5>1 DEF Rest
        <5>3. nout - Len(out) + j = seen + k
          BY <2>1, <3>5, <3>6, <5>1
        <5> QED
          BY <5>2, <5>3, Zenon
      <4> QED
        BY <4>1, <4>2
    <3> QED
      BY <3>7, <3>8, <3>9 DEF Rest
  <2> QED
    BY <2>3, <2>4
<1> QED
  BY <1>1, Invariance, PTL

\* A key's write is the outermost call; an answer is written by the call of ttyread
\* that parsed the question.
Callers ==
  \A k \in 1 .. Len(stack) : stack[k].f = "raw" => (stack[k].src = "key" <=> k = 1)

WInv == IInv /\ got \in [Sources -> Nat] /\ Callers /\ WrittenInOrder

\* The writes in progress and what they have left to write stay as they are.
RawsKept ==
  /\ \A k \in 1 .. Len(stack) : stack[k].f = "raw" =>
       /\ k \in 1 .. Len(stack') /\ stack'[k].f = "raw" /\ stack'[k].src = stack[k].src
       /\ stack'[k].a = stack[k].a /\ stack'[k].b = stack[k].b
  /\ \A k \in 1 .. Len(stack') : stack'[k].f = "raw" => k \in 1 .. Len(stack) /\ stack[k].f = "raw"

\* A source has one write in progress at most: keys because run makes them, answers
\* until ttyread is re-entered.
LEMMA OneSending ==
  ASSUME IInv, Callers, NEW s \in Sources, s = "key" \/ ~reentered, NEW k \in Sending(s)
  PROVE Sending(s) = {k} /\ First(s) = stack[k].a
<1>1. ASSUME NEW j \in Sending(s)
      PROVE j = k
  <2>1. /\ j \in 1 .. Len(stack) /\ stack[j].f = "raw" /\ stack[j].src = s
        /\ k \in 1 .. Len(stack) /\ stack[k].f = "raw" /\ stack[k].src = s
    BY DEF Sending
  <2>2. CASE s = "key"
    BY <2>1, <2>2 DEF Callers
  <2>3. CASE s # "key"
    <3>1. ASSUME NEW i \in 1 .. Len(stack), stack[i].f = "raw", stack[i].src = s
          PROVE i - 1 \in Reads
      <4>1. stack \in Seq(Frame) /\ Len(stack) \in Nat /\ Alternate(stack)
        BY LenProperties DEF IInv, Typed
      <4>2. i # 1
        BY <2>3, <3>1 DEF Callers
      <4>3. i - 1 \in 1 .. Len(stack) - 1 /\ i - 1 \in 1 .. Len(stack) /\ (i - 1) + 1 = i
        BY <4>1, <4>2
      <4>4. stack[i - 1].f # "raw"
        BY <3>1, <4>1, <4>3 DEF Alternate
      <4>5. stack[i - 1].f \in {"read", "raw"}
        BY <4>1, <4>3, ElementOfSeq, FrameFacts
      <4> QED
        BY <4>3, <4>4, <4>5 DEF Reads
    <3>2. j - 1 = k - 1
      BY <2>1, <2>3, <3>1 DEF IInv, OneRead
    <3> QED
      BY <2>1, <3>2
  <2> QED
    BY <2>2, <2>3
<1>2. Sending(s) = {k}
  BY <1>1
<1> QED
  BY <1>2 DEF First

\* Steps that neither write nor begin a write, nor are the program's reading.
LEMMA SameWrites ==
  ASSUME WInv, UNCHANGED <<inp, issued, got>>, reentered => reentered', RawsKept
  PROVE Callers' /\ WrittenInOrder'
<1>1. Callers'
  BY DEF WInv, Callers, RawsKept
<1>2. ASSUME NEW s \in Sources, s = "key" \/ ~reentered'
      PROVE /\ got'[s] < First(s)'
            /\ {inp'[k].b : k \in Queued(s)'} = got'[s] + 1 .. First(s)' - 1
            /\ \A j, k \in Queued(s)' : j < k => inp'[j].b < inp'[k].b
            /\ \A k \in Sending(s)' : stack'[k].b = issued'[s]
  <2>1. /\ got[s] < First(s)
        /\ {inp[k].b : k \in Queued(s)} = got[s] + 1 .. First(s) - 1
        /\ \A j, k \in Queued(s) : j < k => inp[j].b < inp[k].b
        /\ \A k \in Sending(s) : stack[k].b = issued[s]
    BY <1>2 DEF WInv, WrittenInOrder
  <2>2. Sending(s)' = Sending(s)
    BY DEF RawsKept, Sending
  <2>3. \A k \in Sending(s) : stack'[k].a = stack[k].a /\ stack'[k].b = stack[k].b
    BY DEF RawsKept, Sending
  <2>4. First(s)' = First(s)
    <3>1. CASE Sending(s) = {}
      BY <2>2, <3>1 DEF First
    <3>2. CASE Sending(s) # {}
      <4>1. (CHOOSE k \in Sending(s) : TRUE) \in Sending(s)
        BY <3>2
      <4> QED
        BY <2>2, <2>3, <3>2, <4>1 DEF First
    <3> QED
      BY <3>1, <3>2
  <2>5. Queued(s)' = Queued(s)
    BY DEF Queued
  <2> QED
    BY <2>1, <2>2, <2>3, <2>4, <2>5
<1> QED
  BY <1>1, <1>2 DEF WrittenInOrder

\* The innermost write goes on with the same bytes.
LEMMA SetTopRaws ==
  ASSUME Typed, Busy("raw"), NEW fr \in Frame, fr.f = "raw", stack' = SetTop(fr),
         fr.src = Top.src, fr.a = Top.a, fr.b = Top.b
  PROVE RawsKept
<1>1. /\ Len(stack) \in Nat /\ Len(stack) >= 1 /\ Top = stack[Len(stack)] /\ Top.f = "raw"
      /\ Len(SetTop(fr)) = Len(stack) /\ SetTop(fr)[Len(stack)] = fr
      /\ \A k \in 1 .. Len(stack) - 1 : SetTop(fr)[k] = stack[k]
  BY TopFacts, SetTopFacts
<1>2. \A k \in 1 .. Len(stack) : stack'[k] = IF k = Len(stack) THEN fr ELSE stack[k]
  BY <1>1
<1> QED
  BY <1>1, <1>2 DEF RawsKept

\* ttyread is called.
LEMMA TtyReadRaws ==
  ASSUME Typed, NEW base \in Seq(Frame), TtyRead(base), Len(base) = Len(stack),
         \A k \in 1 .. Len(stack) :
           /\ base[k].f = stack[k].f
           /\ stack[k].f = "raw" => /\ base[k].src = stack[k].src
                                    /\ base[k].a = stack[k].a /\ base[k].b = stack[k].b
  PROVE RawsKept /\ UNCHANGED <<inp, issued, got>> /\ (reentered => reentered')
<1>1. PICK r \in 1 .. Lower(Len(out), BufSize - buflen) :
        stack' = Append(base, ReadFrame(buflen + r, r))
  BY DEF TtyRead
<1>2. /\ Len(stack') = Len(stack) + 1 /\ Len(stack) \in Nat
      /\ \A k \in 1 .. Len(stack) : stack'[k] = base[k]
      /\ stack'[Len(stack) + 1] = ReadFrame(buflen + r, r)
  BY <1>1, LenProperties DEF Typed
<1>3. stack'[Len(stack) + 1].f = "read"
  BY <1>2 DEF ReadFrame
<1>4. RawsKept
  BY <1>2, <1>3 DEF RawsKept
<1> QED
  BY <1>4 DEF TtyRead

\* The steps of the terminal that write nothing.
LEMMA ReadsWriteNothing ==
  ASSUME WInv, RunReads \/ SelectReadable \/ ReadAfterChunk \/ SelectWritable \/ ReadReturns
  PROVE Callers' /\ WrittenInOrder' /\ got' = got
<1>0. Typed /\ stack \in Seq(Frame) /\ Alternate(stack) /\ Len(stack) \in Nat
  BY LenProperties DEF WInv, IInv, Typed
<1>1. CASE RunReads \/ SelectReadable
  <2>1. TtyRead(stack)
    BY <1>1 DEF RunReads, SelectReadable
  <2> QED
    BY <1>0, <2>1, TtyReadRaws, SameWrites
<1>2. CASE ReadAfterChunk
  <2> DEFINE fr == [Top EXCEPT !.rfd = FALSE]
  <2>1. Busy("raw") /\ TtyRead(SetTop(fr))
    BY <1>2 DEF ReadAfterChunk
  <2>2. Top \in Frame /\ Top.f = "raw" /\ Top = stack[Len(stack)] /\ Len(stack) >= 1
    BY <1>0, <2>1, TopFacts
  <2>3. fr \in Frame /\ fr.f = "raw" /\ fr.src = Top.src /\ fr.a = Top.a /\ fr.b = Top.b
    <3>1. Top \in Writing /\ Top.a <= Top.b /\ Top.w <= Top.b - Top.a + 1
      BY <2>2, FrameFacts
    <3>2. fr \in Writing /\ fr.a = Top.a /\ fr.b = Top.b /\ fr.w = Top.w /\ fr.f = "raw"
          /\ fr.src = Top.src
      BY <3>1 DEF Writing
    <3> QED
      BY <3>1, <3>2 DEF Frame, Left
  <2> HIDE DEF fr
  <2>4. /\ SetTop(fr) \in Seq(Frame)
        /\ Len(SetTop(fr)) = Len(stack) /\ SetTop(fr)[Len(stack)] = fr
        /\ \A k \in 1 .. Len(stack) - 1 : SetTop(fr)[k] = stack[k]
    BY <1>0, <2>1, <2>3, SetTopFacts
  <2>5. \A k \in 1 .. Len(stack) : SetTop(fr)[k] = IF k = Len(stack) THEN fr ELSE stack[k]
    BY <1>0, <2>4
  <2>6. RawsKept /\ UNCHANGED <<inp, issued, got>> /\ (reentered => reentered')
    BY <1>0, <2>1, <2>2, <2>3, <2>4, <2>5, TtyReadRaws
  <2> QED
    BY <2>6, SameWrites
<1>3. CASE SelectWritable
  <2> DEFINE fr == [Top EXCEPT !.w = Lower(Left(Top), Top.lim), !.rfd = out # <<>>]
  <2>1. /\ Busy("raw") /\ stack' = SetTop(fr) /\ UNCHANGED <<inp, issued, got, reentered>>
    BY <1>3 DEF SelectWritable
  <2>2. Top \in Frame /\ Top.f = "raw"
    BY <1>0, <2>1, TopFacts
  <2>3. fr \in Frame /\ fr.f = "raw" /\ fr.src = Top.src /\ fr.a = Top.a /\ fr.b = Top.b
    <3>1. /\ Top \in Writing /\ Top.a \in Nat /\ Top.b \in Nat /\ Top.lim \in Nat \ {0}
          /\ Top.a <= Top.b
      BY <2>2, FrameFacts
    <3>2. Lower(Left(Top), Top.lim) \in Nat /\ Lower(Left(Top), Top.lim) <= Left(Top)
      BY <3>1 DEF Lower, Left
    <3>3. /\ fr \in Writing /\ fr.a = Top.a /\ fr.b = Top.b /\ fr.src = Top.src
          /\ fr.w = Lower(Left(Top), Top.lim) /\ fr.f = "raw"
      BY <3>1, <3>2 DEF Writing
    <3> QED
      BY <3>1, <3>2, <3>3 DEF Frame, Left
  <2> HIDE DEF fr
  <2> QED
    BY <1>0, <2>1, <2>3, SetTopRaws, SameWrites
<1>4. CASE ReadReturns
  <2> DEFINE L == Len(stack)
             M == Len(Below)
  <2>1. /\ Busy("read") /\ stack' = IF Below # <<>> THEN [Below EXCEPT ![M].lim = Top.ret] ELSE Below
        /\ UNCHANGED <<inp, issued, got, reentered>>
    BY <1>4 DEF ReadReturns
  <2>2. stack # <<>> /\ Top.f = "read" /\ Top = stack[L] /\ L >= 1
    BY <1>0, <2>1, TopFacts
  <2>3. /\ Below \in Seq(Frame) /\ M = L - 1
        /\ \A k \in 1 .. M : Below[k] = stack[k]
    BY <1>0, <2>2, PopFacts DEF Below
  <2>4. /\ Len(stack') = M
        /\ \A k \in 1 .. M : /\ stack'[k].f = stack[k].f /\ stack'[k].src = stack[k].src
                             /\ stack'[k].a = stack[k].a /\ stack'[k].b = stack[k].b
    <3>1. CASE Below = <<>>
      BY <2>1, <2>3, <3>1
    <3>2. CASE Below # <<>>
      <4> DEFINE g == [Below[M] EXCEPT !.lim = Top.ret]
      <4>1. stack' = [Below EXCEPT ![M] = g]
        BY <2>1, <3>2
      <4>2. g.f = Below[M].f /\ g.src = Below[M].src /\ g.a = Below[M].a /\ g.b = Below[M].b
        OBVIOUS
      <4> HIDE DEF g
      <4>3. Len(stack') = M /\ \A k \in 1 .. M : stack'[k] = IF k = M THEN g ELSE Below[k]
        BY <2>3, <4>1
      <4> QED
        BY <2>3, <4>2, <4>3
    <3> QED
      BY <3>1, <3>2
  <2>5. RawsKept
    BY <1>0, <2>2, <2>3, <2>4 DEF RawsKept
  <2> QED
    BY <2>1, <2>5, SameWrites
<1> QED
  BY <1>1, <1>2, <1>3, <1>4

\* A call of ttywrite begins: it has its source's next bytes.
LEMMA WriteBegins ==
  ASSUME WInv, NEW src \in Sources, NEW n \in Nat \ {0},
         src = "key" <=> Len(stack) = 0,
         src = "key" \/ ~reentered => Sending(src) = {},
         Len(stack') = Len(stack) + 1, stack'[Len(stack) + 1] = RawFrame(src, n),
         \A k \in 1 .. Len(stack) : /\ stack'[k].f = stack[k].f
                                    /\ stack[k].f = "raw" => stack'[k] = stack[k],
         issued' = [issued EXCEPT ![src] = @ + n],
         UNCHANGED <<inp, got, reentered>>
  PROVE Callers' /\ WrittenInOrder'
<1> DEFINE L == Len(stack)
<1>0. L \in Nat /\ issued \in [Sources -> Nat]
  BY LenProperties DEF WInv, IInv, Typed
<1>1. /\ stack'[L + 1].f = "raw" /\ stack'[L + 1].src = src
      /\ stack'[L + 1].a = issued[src] + 1 /\ stack'[L + 1].b = issued[src] + n
  BY DEF RawFrame
<1>2. Callers'
  <2>1. ASSUME NEW k \in 1 .. L + 1, stack'[k].f = "raw"
        PROVE stack'[k].src = "key" <=> k = 1
    <3>1. CASE k = L + 1
      <4>1. k = 1 <=> L = 0
        BY <1>0, <3>1
      <4> QED
        BY <1>1, <3>1, <4>1
    <3>2. CASE k \in 1 .. L
      BY <2>1, <3>2 DEF WInv, Callers
    <3> QED
      BY <1>0, <3>1, <3>2
  <2> QED
    BY <2>1 DEF Callers
<1>3. ASSUME NEW s \in Sources, s = "key" \/ ~reentered
      PROVE /\ got[s] < First(s)'
            /\ {inp[k].b : k \in Queued(s)} = got[s] + 1 .. First(s)' - 1
            /\ \A j, k \in Queued(s) : j < k => inp[j].b < inp[k].b
            /\ \A k \in Sending(s)' : stack'[k].b = issued'[s]
  <2>1. /\ got[s] < First(s)
        /\ {inp[k].b : k \in Queued(s)} = got[s] + 1 .. First(s) - 1
        /\ \A j, k \in Queued(s) : j < k => inp[j].b < inp[k].b
        /\ \A k \in Sending(s) : stack[k].b = issued[s]
    BY <1>3 DEF WInv, WrittenInOrder
  <2>2. CASE s = src
    <3>1. Sending(s) = {} /\ Sending(s)' = {L + 1}
      BY <1>0, <1>1, <1>3, <2>2 DEF Sending
    <3>2. First(s) = issued[s] + 1 /\ First(s)' = issued[s] + 1 /\ issued'[s] = issued[s] + n
      BY <1>0, <1>1, <2>2, <3>1 DEF First
    <3> QED
      BY <1>1, <2>1, <2>2, <3>1, <3>2
  <2>3. CASE s # src
    <3>1. Sending(s)' = Sending(s) /\ \A k \in Sending(s) : stack'[k] = stack[k]
      BY <1>0, <1>1, <2>3 DEF Sending
    <3>2. issued'[s] = issued[s]
      BY <1>0, <2>3
    <3>3. First(s)' = First(s)
      <4>1. CASE Sending(s) = {}
        BY <3>1, <3>2, <4>1 DEF First
      <4>2. CASE Sending(s) # {}
        <5>1. (CHOOSE k \in Sending(s) : TRUE) \in Sending(s)
          BY <4>2
        <5> QED
          BY <3>1, <4>2, <5>1 DEF First
      <4> QED
        BY <4>1, <4>2
    <3> QED
      BY <2>1, <3>1, <3>2, <3>3
  <2> QED
    BY <2>2, <2>3
<1>4. WrittenInOrder'
  BY <1>3 DEF WrittenInOrder, Queued
<1> QED
  BY <1>2, <1>4

\* A key.
LEMMA KeyWrites ==
  ASSUME WInv, NEW n \in KeyLens, Key(n)
  PROVE Callers' /\ WrittenInOrder' /\ got' = got
<1>1. /\ stack = <<>> /\ stack' = <<RawFrame("key", n)>>
      /\ issued' = [issued EXCEPT !["key"] = @ + n] /\ UNCHANGED <<inp, got, reentered>>
  BY DEF Key
<1>2. n \in Nat \ {0} /\ "key" \in Sources
  BY TtyAssumption DEF Sources
<1>3. Len(stack) = 0 /\ Len(stack') = 1 /\ stack'[1] = RawFrame("key", n) /\ Sending("key") = {}
  BY <1>1 DEF Sending
<1>4. /\ "key" = "key" <=> Len(stack) = 0
      /\ Len(stack') = Len(stack) + 1 /\ stack'[Len(stack) + 1] = RawFrame("key", n)
      /\ \A k \in 1 .. Len(stack) : /\ stack'[k].f = stack[k].f
                                    /\ stack[k].f = "raw" => stack'[k] = stack[k]
  BY <1>3
<1> QED
  BY <1>1, <1>2, <1>3, <1>4, WriteBegins

\* twrite: a question of the program is answered at once, over the ttyread that read it.
LEMMA ParseWrites ==
  ASSUME WInv, ParseByte
  PROVE Callers' /\ WrittenInOrder' /\ got' = got
<1> DEFINE L == Len(stack)
           fr == [Top EXCEPT !.i = @ + 1]
<1>1. /\ Busy("read") /\ Top.i < Top.n
      /\ UNCHANGED <<inp, got, reentered>>
      /\ \/ /\ stack' = Append(SetTop(fr), RawFrame("answer", AnswerLen))
            /\ issued' = [issued EXCEPT !["answer"] = @ + AnswerLen]
         \/ stack' = SetTop(fr) /\ issued' = issued
  BY DEF ParseByte
<1>2. /\ Typed /\ stack \in Seq(Frame) /\ Top \in Frame /\ Top.f = "read" /\ L \in ReadsIn(stack)
      /\ L \in Nat /\ L >= 1 /\ Top = stack[L] /\ Reads = ReadsIn(stack)
  BY <1>1, TopFacts DEF Reads, ReadsIn, WInv, IInv, Typed
<1>3. fr \in Frame /\ fr.f = "read"
  <2>1. Top \in Reading /\ Top.i \in Nat /\ Top.n \in 1 .. BufSize
    BY <1>2, FrameFacts
  <2>2. fr \in Reading /\ fr.f = "read" /\ fr.i = Top.i + 1 /\ fr.n = Top.n
    BY <2>1 DEF Reading
  <2>3. fr.i <= fr.n
    BY <1>1, <2>1, <2>2
  <2> QED
    BY <2>2, <2>3 DEF Frame
<1> HIDE DEF fr
<1>4. /\ SetTop(fr) \in Seq(Frame) /\ Len(SetTop(fr)) = L
      /\ \A k \in 1 .. L : SetTop(fr)[k] = IF k = L THEN fr ELSE stack[k]
  <2>1. /\ SetTop(fr) \in Seq(Frame)
        /\ Len(SetTop(fr)) = L /\ SetTop(fr)[L] = fr
        /\ \A k \in 1 .. L - 1 : SetTop(fr)[k] = stack[k]
    BY <1>1, <1>2, <1>3, SetTopFacts
  <2> QED
    BY <1>2, <2>1
<1>5. \A k \in 1 .. L : /\ SetTop(fr)[k].f = stack[k].f
                        /\ stack[k].f = "raw" => SetTop(fr)[k] = stack[k]
  BY <1>2, <1>3, <1>4
<1>6. CASE stack' = SetTop(fr) /\ issued' = issued
  <2>1. RawsKept
    BY <1>4, <1>5, <1>6 DEF RawsKept
  <2> QED
    BY <1>1, <1>6, <2>1, SameWrites
<1>7. CASE /\ stack' = Append(SetTop(fr), RawFrame("answer", AnswerLen))
           /\ issued' = [issued EXCEPT !["answer"] = @ + AnswerLen]
  <2>1. AnswerLen \in Nat \ {0} /\ "answer" \in Sources
    BY TtyAssumption DEF Sources
  <2>2. /\ Len(stack') = L + 1 /\ stack'[L + 1] = RawFrame("answer", AnswerLen)
        /\ \A k \in 1 .. L : stack'[k] = SetTop(fr)[k]
    BY <1>2, <1>4, <1>7
  <2>3. ASSUME ~reentered
        PROVE Sending("answer") = {}
    <3> SUFFICES ASSUME NEW k \in Sending("answer")
                 PROVE FALSE
      OBVIOUS
    <3>1. k \in 1 .. L /\ stack[k].f = "raw" /\ stack[k].src = "answer" /\ k # L
      BY <1>2 DEF Sending
    <3>2. k # 1
      BY <3>1 DEF WInv, Callers
    <3>3. k - 1 \in 1 .. L - 1 /\ k - 1 \in 1 .. L /\ (k - 1) + 1 = k /\ k - 1 # L
      BY <1>2, <3>1, <3>2
    <3>4. stack[k - 1].f # "raw"
      BY <1>2, <3>1, <3>3 DEF Typed, Alternate
    <3>5. stack[k - 1].f \in {"read", "raw"}
      BY <1>2, <3>3, ElementOfSeq, FrameFacts
    <3>6. k - 1 \in Reads /\ L \in Reads
      BY <1>2, <3>3, <3>4, <3>5 DEF Reads
    <3> QED
      BY <2>3, <3>3, <3>6 DEF WInv, IInv, OneRead
  <2>4. \A k \in 1 .. L : /\ stack'[k].f = stack[k].f
                          /\ stack[k].f = "raw" => stack'[k] = stack[k]
    BY <1>5, <2>2
  <2>5. "answer" = "key" <=> L = 0
    BY <1>2
  <2> QED
    BY <1>1, <1>7, <2>1, <2>2, <2>3, <2>4, <2>5, WriteBegins
<1> QED
  BY <1>1, <1>6, <1>7

\* The bytes of s in the queue q are those after g and before f, in their order.
Numbered(q, s, g, f) ==
  /\ \A k \in 1 .. Len(q) : q[k].src = s => g < q[k].b /\ q[k].b < f
  /\ \A b \in g + 1 .. f - 1 : \E k \in 1 .. Len(q) : q[k].src = s /\ q[k].b = b
  /\ \A j, k \in 1 .. Len(q) : q[j].src = s /\ q[k].src = s /\ j < k => q[j].b < q[k].b

LEMMA NumberedFacts ==
  ASSUME NEW q \in Seq(Byte), NEW s, NEW g \in Nat, NEW f \in Nat
  PROVE LET Q == {k \in 1 .. Len(q) : q[k].src = s}
        IN Numbered(q, s, g, f) <=>
             /\ {q[k].b : k \in Q} = g + 1 .. f - 1
             /\ \A j, k \in Q : j < k => q[j].b < q[k].b
<1> DEFINE Q == {k \in 1 .. Len(q) : q[k].src = s}
<1>1. \A k \in 1 .. Len(q) : q[k].b \in Nat
  <2>1. \A k \in 1 .. Len(q) : q[k] \in Byte
    BY LenProperties, ElementOfSeq
  <2> QED
    BY <2>1 DEF Byte
<1>2. ASSUME Numbered(q, s, g, f)
      PROVE /\ {q[k].b : k \in Q} = g + 1 .. f - 1
            /\ \A j, k \in Q : j < k => q[j].b < q[k].b
  <2>1. \A k \in Q : q[k].b \in g + 1 .. f - 1
    BY <1>1, <1>2 DEF Numbered
  <2>2. \A b \in g + 1 .. f - 1 : \E k \in Q : q[k].b = b
    BY <1>2 DEF Numbered
  <2>3. \A j, k \in Q : j < k => q[j].b < q[k].b
    BY <1>2 DEF Numbered
  <2> HIDE DEF Q
  <2> QED
    BY <2>1, <2>2, <2>3
<1>3. ASSUME {q[k].b : k \in Q} = g + 1 .. f - 1,
             \A j, k \in Q : j < k => q[j].b < q[k].b
      PROVE Numbered(q, s, g, f)
  <2>1. \A k \in Q : q[k].b \in g + 1 .. f - 1
    BY <1>3
  <2>2. \A b \in g + 1 .. f - 1 : \E k \in Q : q[k].b = b
    <3> HIDE DEF Q
    <3> QED
      BY <1>3
  <2>3. \A k \in 1 .. Len(q) : q[k].src = s => g < q[k].b /\ q[k].b < f
    BY <1>1, <2>1
  <2>4. \A b \in g + 1 .. f - 1 : \E k \in 1 .. Len(q) : q[k].src = s /\ q[k].b = b
    BY <2>2
  <2>5. \A j, k \in 1 .. Len(q) : q[j].src = s /\ q[k].src = s /\ j < k => q[j].b < q[k].b
    BY <1>3
  <2> QED
    BY <2>3, <2>4, <2>5 DEF Numbered
<1> QED
  BY <1>2, <1>3

\* Behind the queue q are queued r bytes of src, the first of them a.
Grown(q2, q, src, a, r) ==
  /\ Len(q2) = Len(q) + r
  /\ \A k \in 1 .. Len(q) : q2[k] = q[k]
  /\ \A j \in 1 .. r : q2[Len(q) + j] = [src |-> src, b |-> a + j - 1]

\* The bytes of a chunk follow those of their source.
LEMMA QueueGrows ==
  ASSUME NEW q \in Seq(Byte), NEW q2 \in Seq(Byte), NEW s \in Sources, NEW src \in Sources,
         NEW a \in Nat, NEW r \in Nat, NEW g \in Nat, NEW f \in Nat,
         s = src => f = a /\ g < a,
         Grown(q2, q, src, a, r),
         Numbered(q, s, g, f)
  PROVE Numbered(q2, s, g, IF s = src THEN a + r ELSE f)
<1> DEFINE N  == Len(q)
           f2 == IF s = src THEN a + r ELSE f
<1>0. N \in Nat /\ Len(q2) = N + r /\ \A k \in 1 .. N : q[k] \in Byte
  BY LenProperties, ElementOfSeq DEF Grown
<1>1. \A k \in 1 .. N : q2[k].src = q[k].src /\ q2[k].b = q[k].b /\ q[k].b \in Nat
  BY <1>0 DEF Byte, Grown
<1>2. ASSUME NEW k \in 1 .. Len(q2), k \notin 1 .. N
      PROVE q2[k].src = src /\ q2[k].b = a + (k - N) - 1 /\ k > N /\ k - N \in 1 .. r
  <2> DEFINE j == k - N
  <2>1. j \in 1 .. r /\ N + j = k /\ j \in Int
    BY <1>0, <1>2
  <2>2. q2[N + j] = [src |-> src, b |-> a + j - 1]
    BY <2>1 DEF Grown
  <2> HIDE DEF j
  <2>3. q2[k].src = src /\ q2[k].b = a + j - 1
    BY <2>1, <2>2
  <2> QED
    BY <1>0, <2>1, <2>3 DEF j
<1>3. ASSUME NEW k \in 1 .. Len(q2), q2[k].src = s
      PROVE g < q2[k].b /\ q2[k].b < f2
  <2>1. CASE k \in 1 .. N
    <3>1. g < q[k].b /\ q[k].b < f
      BY <1>1, <1>3, <2>1 DEF Numbered
    <3> QED
      BY <1>1, <2>1, <3>1
  <2>2. CASE k \notin 1 .. N
    <3>1. /\ s = src /\ q2[k].b = a + (k - N) - 1 /\ k - N \in 1 .. r
          /\ g < a /\ f2 = a + r
      BY <1>2, <1>3, <2>2
    <3> HIDE DEF f2
    <3> QED
      BY <1>0, <3>1
  <2> QED
    BY <2>1, <2>2
<1>4. ASSUME NEW b \in g + 1 .. f2 - 1
      PROVE \E k \in 1 .. Len(q2) : q2[k].src = s /\ q2[k].b = b
  <2>1. CASE b <= f - 1
    <3>1. PICK k \in 1 .. N : q[k].src = s /\ q[k].b = b
      BY <2>1 DEF Numbered
    <3> QED
      BY <1>0, <1>1, <3>1, SMTT(30)
  <2>2. CASE ~(b <= f - 1)
    <3>1. s = src /\ N + (b - a + 1) \in 1 .. Len(q2) /\ N + (b - a + 1) \notin 1 .. N
      BY <1>0, <2>2
    <3>2. a + ((N + (b - a + 1)) - N) - 1 = b
      BY <1>0
    <3> QED
      BY <1>2, <3>1, <3>2
  <2> QED
    BY <2>1, <2>2
<1>5. ASSUME NEW j \in 1 .. Len(q2), NEW k \in 1 .. Len(q2), q2[j].src = s, q2[k].src = s, j < k
      PROVE q2[j].b < q2[k].b
  <2>1. CASE j \in 1 .. N /\ k \in 1 .. N
    <3>1. q[j].b < q[k].b
      BY <1>1, <1>5, <2>1 DEF Numbered
    <3> QED
      BY <1>1, <2>1, <3>1
  <2>2. CASE j \in 1 .. N /\ k \notin 1 .. N
    <3>1. q[j].b < f
      BY <1>1, <1>5, <2>2 DEF Numbered
    <3>2. s = src /\ f = a
      BY <1>2, <1>5, <2>2
    <3> QED
      BY <1>0, <1>1, <1>2, <2>2, <3>1, <3>2
  <2>3. CASE j \notin 1 .. N /\ k \notin 1 .. N
    BY <1>0, <1>2, <1>5, <2>3
  <2>4. CASE j \notin 1 .. N /\ k \in 1 .. N
    BY <1>0, <1>2, <1>5, <2>4
  <2> QED
    BY <2>1, <2>2, <2>3, <2>4
<1> HIDE DEF f2
<1> QED
  BY <1>3, <1>4, <1>5 DEF Numbered, f2

\* A chunk, or a part of it, is written.
LEMMA ChunkWrites ==
  ASSUME WInv, WriteChunk
  PROVE Callers' /\ WrittenInOrder' /\ got' = got
<1> DEFINE L  == Len(stack)
           r  == Lower(Top.w, Free)
           fr == [Top EXCEPT !.a = @ + r, !.w = @ - r]
           e  == [k \in 1 .. r |-> [src |-> Top.src, b |-> Top.a + k - 1]]
<1>1. /\ Busy("raw") /\ Typed /\ Alternate(stack) /\ Top.w > 0 /\ Free > 0
      /\ inp' = inp \o e
      /\ stack' = IF Left(fr) = 0 THEN Below ELSE SetTop(fr)
      /\ UNCHANGED <<issued, got, reentered>>
  BY DEF WriteChunk, WInv, IInv, Typed
<1>2. /\ stack # <<>> /\ Top \in Frame /\ Top.f = "raw"
      /\ L \in Nat /\ L >= 1 /\ Top = stack[L]
  BY <1>1, TopFacts
<1>3. /\ Top \in Writing /\ Top.a \in Nat /\ Top.b \in Nat /\ Top.w \in Nat /\ Top.src \in Sources
      /\ Top.a <= Top.b /\ Top.w <= Top.b - Top.a + 1
  BY <1>2, FrameFacts
<1>4. r \in Nat /\ r <= Top.w
  <2>1. Free \in Int
    <3>1. Len(inp) \in Nat /\ InCap \in Nat
      BY <1>1, LenProperties, TtyAssumption DEF Typed
    <3> QED
      BY <3>1 DEF Free
  <2> QED
    BY <1>1, <1>3, <2>1 DEF Lower
<1> HIDE DEF r
<1>5. fr \in Writing /\ fr.a = Top.a + r /\ fr.b = Top.b /\ fr.w = Top.w - r /\ fr.f = "raw"
      /\ fr.src = Top.src
  <2>1. Top.a + r \in Nat /\ Top.w - r \in Nat
    BY <1>3, <1>4
  <2> QED
    BY <1>3, <2>1 DEF Writing
<1>6. /\ inp \in Seq(Byte) /\ inp' \in Seq(Byte) /\ Len(inp) \in Nat
      /\ Len(inp') = Len(inp) + r
      /\ \A k \in 1 .. Len(inp) : inp'[k] = inp[k]
      /\ \A j \in 1 .. r : inp'[Len(inp) + j] = [src |-> Top.src, b |-> Top.a + j - 1]
  <2>1. e \in Seq(Byte) /\ Len(e) = r /\ \A j \in 1 .. r : e[j] = [src |-> Top.src, b |-> Top.a + j - 1]
    <3>1. \A k \in 1 .. r : Top.a + k - 1 \in Nat
      BY <1>3, <1>4
    <3>2. e \in [1 .. r -> Byte]
      BY <1>3, <3>1 DEF Byte
    <3>3. \A j \in 1 .. r : e[j] = [src |-> Top.src, b |-> Top.a + j - 1]
      OBVIOUS
    <3> HIDE DEF e
    <3> QED
      BY <1>4, <3>2, <3>3
  <2> HIDE DEF e
  <2>2. inp \in Seq(Byte) /\ Len(inp) \in Nat
    BY <1>1, LenProperties DEF Typed
  <2>3. /\ Len(inp') = Len(inp) + Len(e) /\ inp' \in Seq(Byte)
        /\ \A k \in 1 .. Len(inp) : inp'[k] = inp[k]
        /\ \A j \in 1 .. Len(e) : inp'[Len(inp) + j] = e[j]
    BY <1>1, <2>1, <2>2, ConcatProperties
  <2> QED
    BY <2>1, <2>2, <2>3
<1> HIDE DEF fr, e
<1>7. /\ stack' \in Seq(Frame)
      /\ Left(fr) = 0 => Len(stack') = L - 1
      /\ Left(fr) # 0 => Len(stack') = L /\ stack'[L] = fr
      /\ \A k \in 1 .. L - 1 : stack'[k] = stack[k]
  <2>1. CASE Left(fr) = 0
    <3>1. /\ Below \in Seq(Frame) /\ Len(Below) = L - 1
          /\ \A k \in 1 .. L - 1 : Below[k] = stack[k]
      BY <1>1, <1>2, PopFacts DEF Below, Typed
    <3> QED
      BY <1>1, <2>1, <3>1
  <2>2. CASE Left(fr) # 0
    <3>1. fr \in Frame
      BY <1>3, <1>4, <1>5, <2>2 DEF Frame, Left
    <3>2. /\ SetTop(fr) \in Seq(Frame)
          /\ Len(SetTop(fr)) = L /\ SetTop(fr)[L] = fr
          /\ \A k \in 1 .. L - 1 : SetTop(fr)[k] = stack[k]
      BY <1>1, <1>5, <3>1, SetTopFacts
    <3> QED
      BY <1>1, <2>2, <3>2
  <2> QED
    BY <2>1, <2>2
<1>8. \A k \in 1 .. L : k \notin 1 .. L - 1 => k = L
  BY <1>2
<1>9. Callers'
  <2>1. ASSUME NEW k \in 1 .. Len(stack'), stack'[k].f = "raw"
        PROVE k \in 1 .. L /\ stack[k].f = "raw" /\ stack'[k].src = stack[k].src
    <3>1. CASE k \in 1 .. L - 1
      BY <1>2, <1>7, <2>1, <3>1
    <3>2. CASE k \notin 1 .. L - 1
      BY <1>2, <1>5, <1>7, <2>1, <3>2
    <3> QED
      BY <3>1, <3>2
  <2> QED
    BY <2>1 DEF WInv, Callers
<1>10. ASSUME NEW s \in Sources, s = "key" \/ ~reentered
       PROVE /\ got[s] < First(s)'
             /\ {inp'[k].b : k \in Queued(s)'} = got[s] + 1 .. First(s)' - 1
             /\ \A j, k \in Queued(s)' : j < k => inp'[j].b < inp'[k].b
             /\ \A k \in Sending(s)' : stack'[k].b = issued[s]
  <2>1. /\ got[s] < First(s)
        /\ {inp[k].b : k \in Queued(s)} = got[s] + 1 .. First(s) - 1
        /\ \A j, k \in Queued(s) : j < k => inp[j].b < inp[k].b
        /\ \A k \in Sending(s) : stack[k].b = issued[s]
    BY <1>10 DEF WInv, WrittenInOrder
  <2>2. /\ got[s] \in Nat /\ issued[s] \in Nat /\ First(s) \in Nat
        /\ First(s)' = IF s = Top.src THEN Top.a + r ELSE First(s)
        /\ s = Top.src => First(s) = Top.a
        /\ \A k \in Sending(s)' : stack'[k].b = issued[s]
    <3>0. got[s] \in Nat /\ issued[s] \in Nat
      BY <1>1 DEF WInv, Typed
    <3>1. CASE s = Top.src
      <4>1. L \in Sending(s) /\ IInv /\ Callers
        BY <1>2, <3>1 DEF Sending, WInv
      <4>2. Sending(s) = {L} /\ First(s) = Top.a /\ Top.b = issued[s]
        BY <1>2, <1>10, <2>1, <4>1, OneSending
      <4>3. \A k \in Sending(s)' : k = L /\ Left(fr) # 0
        <5> SUFFICES ASSUME NEW k \in 1 .. Len(stack'), stack'[k].f = "raw", stack'[k].src = s
                     PROVE k = L /\ Left(fr) # 0
          BY DEF Sending
        <5>1. CASE k \in 1 .. L - 1
          <6>1. k \in Sending(s) /\ k # L
            BY <1>2, <1>7, <5>1 DEF Sending
          <6> QED
            BY <4>2, <6>1
        <5>2. CASE k \notin 1 .. L - 1
          BY <1>2, <1>7, <5>2
        <5> QED
          BY <5>1, <5>2
      <4>4. CASE Left(fr) = 0
        <5>1. Sending(s)' = {} /\ First(s)' = issued[s] + 1
          BY <1>1, <4>3, <4>4 DEF First
        <5>2. Top.b - (Top.a + r) + 1 = 0
          BY <1>5, <4>4 DEF Left
        <5> QED
          BY <1>3, <1>4, <3>0, <3>1, <4>2, <5>1, <5>2, SMTT(30)
      <4>5. CASE Left(fr) # 0
        <5>1. L \in 1 .. Len(stack') /\ stack'[L] = fr
          BY <1>2, <1>7, <4>5
        <5>2. L \in Sending(s)'
          BY <1>5, <3>1, <5>1 DEF Sending
        <5>3. Sending(s)' = {L}
          BY <4>3, <5>2
        <5>4. First(s)' = stack'[L].a
          BY <5>3 DEF First
        <5> QED
          BY <1>3, <1>4, <1>5, <3>0, <3>1, <4>2, <5>1, <5>3, <5>4
      <4> QED
        BY <4>4, <4>5
    <3>2. CASE s # Top.src
      <4>1. Sending(s)' = Sending(s) /\ \A k \in Sending(s) : stack'[k] = stack[k]
        <5>1. ASSUME NEW k \in Sending(s)
              PROVE k \in Sending(s)' /\ stack'[k] = stack[k]
          <6>1. k \in 1 .. L /\ k # L /\ k \in 1 .. L - 1
            BY <1>2, <1>8, <3>2 DEF Sending
          <6>2. k \in 1 .. Len(stack')
            BY <1>2, <1>7, <6>1
          <6> QED
            BY <1>7, <6>1, <6>2 DEF Sending
        <5>2. ASSUME NEW k \in Sending(s)'
              PROVE k \in Sending(s)
          <6>1. k \in 1 .. Len(stack') /\ stack'[k].f = "raw" /\ stack'[k].src = s
            BY DEF Sending
          <6>2. k \in 1 .. L - 1
            BY <1>2, <1>5, <1>7, <3>2, <6>1
          <6> QED
            BY <1>2, <1>7, <6>1, <6>2 DEF Sending
        <5> QED
          BY <5>1, <5>2
      <4>2. CASE Sending(s) = {}
        BY <1>1, <2>1, <3>0, <3>2, <4>1, <4>2 DEF First
      <4>3. CASE Sending(s) # {}
        <5>1. PICK k \in Sending(s) : TRUE
          BY <4>3
        <5>2. Sending(s) = {k} /\ First(s) = stack[k].a
          BY <1>10, <5>1, OneSending DEF WInv
        <5>3. First(s)' = stack'[k].a
          BY <4>1, <5>2 DEF First
        <5>4. stack[k] \in Frame /\ stack[k].f = "raw"
          BY <1>1, ElementOfSeq DEF Sending, Typed
        <5>5. stack[k].a \in Nat
          BY <5>4, FrameFacts
        <5> QED
          BY <2>1, <3>0, <3>2, <4>1, <5>2, <5>3, <5>5
      <4> QED
        BY <4>2, <4>3
    <3> QED
      BY <3>1, <3>2
  <2>3. Numbered(inp, s, got[s], First(s))
    BY <1>6, <2>1, <2>2, NumberedFacts DEF Queued
  <2>4. Numbered(inp', s, got[s], IF s = Top.src THEN Top.a + r ELSE First(s))
    <3>1. /\ Top.src \in Sources /\ Top.a \in Nat /\ r \in Nat
          /\ got[s] \in Nat /\ First(s) \in Nat
          /\ s = Top.src => First(s) = Top.a /\ got[s] < Top.a
      BY <1>3, <1>4, <2>1, <2>2
    <3>2. Grown(inp', inp, Top.src, Top.a, r)
      BY <1>6 DEF Grown
    <3> QED
      BY <1>6, <2>3, <3>1, <3>2, QueueGrows
  <2>5. First(s)' \in Nat /\ got[s] < First(s)'
    BY <1>3, <1>4, <2>1, <2>2
  <2>6. Numbered(inp', s, got[s], First(s)')
    BY <2>2, <2>4
  <2>7. /\ {inp'[k].b : k \in Queued(s)'} = got[s] + 1 .. First(s)' - 1
        /\ \A j, k \in Queued(s)' : j < k => inp'[j].b < inp'[k].b
    BY <1>6, <2>2, <2>5, <2>6, NumberedFacts DEF Queued
  <2> QED
    BY <2>2, <2>5, <2>7
<1>11. WrittenInOrder'
  BY <1>1, <1>10 DEF WrittenInOrder
<1> QED
  BY <1>1, <1>9, <1>11

\* The program reads the first byte of the queue.
LEMMA QueueShrinks ==
  ASSUME NEW q \in Seq(Byte), q # <<>>, NEW s \in Sources, NEW g \in Nat, NEW f \in Nat,
         Numbered(q, s, g, f)
  PROVE Numbered(Tail(q), s, IF Head(q).src = s THEN Head(q).b ELSE g, f)
<1> DEFINE t  == Tail(q)
           g2 == IF q[1].src = s THEN q[1].b ELSE g
<1>1. /\ Len(q) \in Nat /\ Len(q) >= 1 /\ Head(q) = q[1]
      /\ Len(t) = Len(q) - 1
      /\ \A k \in 1 .. Len(t) : t[k] = q[k + 1] /\ k + 1 \in 1 .. Len(q) /\ k \in Int
  BY LenProperties, EmptySeq, HeadTailProperties
<1>2. \A k \in 1 .. Len(q) : q[k].b \in Nat /\ k \in Int
  <2>1. \A k \in 1 .. Len(q) : q[k] \in Byte
    BY LenProperties, ElementOfSeq
  <2> QED
    BY <2>1 DEF Byte
<1>3. 1 \in 1 .. Len(q) /\ g2 \in Nat /\ g <= g2
  <2>1. 1 \in 1 .. Len(q) /\ q[1].b \in Nat
    BY <1>1, <1>2
  <2>2. q[1].src = s => g < q[1].b
    BY <2>1 DEF Numbered
  <2> QED
    BY <2>1, <2>2
<1>4. ASSUME NEW k \in 1 .. Len(t), t[k].src = s
      PROVE g2 < t[k].b /\ t[k].b < f
  <2>1. t[k] = q[k + 1] /\ k + 1 \in 1 .. Len(q) /\ 1 < k + 1
    BY <1>1, <1>4
  <2>2. g < q[k + 1].b /\ q[k + 1].b < f
    BY <1>4, <2>1 DEF Numbered
  <2>3. q[1].src = s => q[1].b < q[k + 1].b
    BY <1>3, <1>4, <2>1 DEF Numbered
  <2> QED
    BY <2>1, <2>2, <2>3
<1>5. ASSUME NEW b \in g2 + 1 .. f - 1
      PROVE \E k \in 1 .. Len(t) : t[k].src = s /\ t[k].b = b
  <2>1. b \in g + 1 .. f - 1
    BY <1>3
  <2>2. PICK k \in 1 .. Len(q) : q[k].src = s /\ q[k].b = b
    BY <2>1 DEF Numbered
  <2>3. k # 1
    BY <1>3, <2>2
  <2>4. k - 1 \in 1 .. Len(t) /\ (k - 1) + 1 = k
    BY <1>1, <1>2, <2>2, <2>3
  <2> QED
    BY <1>1, <2>2, <2>4
<1>6. ASSUME NEW j \in 1 .. Len(t), NEW k \in 1 .. Len(t), t[j].src = s, t[k].src = s, j < k
      PROVE t[j].b < t[k].b
  <2>1. /\ t[j] = q[j + 1] /\ j + 1 \in 1 .. Len(q)
        /\ t[k] = q[k + 1] /\ k + 1 \in 1 .. Len(q) /\ j + 1 < k + 1
    BY <1>1, <1>6
  <2> QED
    BY <1>6, <2>1 DEF Numbered
<1> HIDE DEF t, g2
<1>7. Numbered(t, s, g2, f)
  BY <1>4, <1>5, <1>6 DEF Numbered
<1> QED
  BY <1>1, <1>7 DEF t, g2

\* The program reads a byte: it is the next one of its source.
LEMMA ProgramReads ==
  ASSUME WInv, ProgramRead
  PROVE Callers' /\ WrittenInOrder' /\ got' \in [Sources -> Nat]
<1>1. /\ inp # <<>> /\ got' = [got EXCEPT ![Head(inp).src] = Head(inp).b] /\ inp' = Tail(inp)
      /\ UNCHANGED <<stack, issued, reentered>>
      /\ got \in [Sources -> Nat] /\ issued \in [Sources -> Nat] /\ Typed
  BY DEF ProgramRead, WInv, IInv, Typed
<1>2. inp \in Seq(Byte) /\ inp' \in Seq(Byte) /\ Head(inp) \in Byte
  BY <1>1, HeadTailProperties DEF Typed
<1>3. Head(inp).src \in Sources /\ Head(inp).b \in Nat
  BY <1>2 DEF Byte
<1>4. got' \in [Sources -> Nat]
  BY <1>1, <1>3
<1>5. Callers'
  BY <1>1 DEF WInv, Callers
<1>6. ASSUME NEW s \in Sources, s = "key" \/ ~reentered
      PROVE /\ got'[s] < First(s)
            /\ {inp'[k].b : k \in Queued(s)'} = got'[s] + 1 .. First(s) - 1
            /\ \A j, k \in Queued(s)' : j < k => inp'[j].b < inp'[k].b
            /\ \A k \in Sending(s) : stack[k].b = issued[s]
  <2>1. /\ got[s] < First(s)
        /\ {inp[k].b : k \in Queued(s)} = got[s] + 1 .. First(s) - 1
        /\ \A j, k \in Queued(s) : j < k => inp[j].b < inp[k].b
        /\ \A k \in Sending(s) : stack[k].b = issued[s]
    BY <1>6 DEF WInv, WrittenInOrder
  <2>2. First(s) \in Nat /\ got[s] \in Nat /\ got'[s] \in Nat
    <3>1. CASE Sending(s) = {}
      BY <1>1, <1>4, <3>1 DEF First
    <3>2. CASE Sending(s) # {}
      <4>1. PICK k \in Sending(s) : TRUE
        BY <3>2
      <4>2. First(s) = stack[k].a
        BY <1>6, <4>1, OneSending DEF WInv
      <4>3. stack[k] \in Frame /\ stack[k].f = "raw"
        BY <1>1, ElementOfSeq DEF Sending, Typed
      <4>4. stack[k].a \in Nat
        BY <4>3, FrameFacts
      <4> QED
        BY <1>1, <1>4, <4>2, <4>4
    <3> QED
      BY <3>1, <3>2
  <2>3. got'[s] = IF Head(inp).src = s THEN Head(inp).b ELSE got[s]
    BY <1>1, <1>3
  <2>4. Numbered(inp, s, got[s], First(s))
    BY <1>2, <2>1, <2>2, NumberedFacts DEF Queued
  <2>5. Numbered(inp', s, got'[s], First(s))
    BY <1>1, <1>2, <2>2, <2>3, <2>4, QueueShrinks
  <2>6. got'[s] < First(s)
    <3>1. CASE Head(inp).src = s
      <4>1. Head(inp) = inp[1] /\ 1 \in 1 .. Len(inp)
        BY <1>1, <1>2, LenProperties, EmptySeq, HeadTailProperties
      <4>2. inp[1].b < First(s)
        BY <2>4, <3>1, <4>1 DEF Numbered
      <4> QED
        BY <2>3, <3>1, <4>1, <4>2
    <3>2. CASE Head(inp).src # s
      BY <2>1, <2>3, <3>2
    <3> QED
      BY <3>1, <3>2
  <2>7. /\ {inp'[k].b : k \in Queued(s)'} = got'[s] + 1 .. First(s) - 1
        /\ \A j, k \in Queued(s)' : j < k => inp'[j].b < inp'[k].b
    BY <1>2, <2>2, <2>5, NumberedFacts DEF Queued
  <2> QED
    BY <2>1, <2>6, <2>7
<1>7. WrittenInOrder'
  <2>1. \A s \in Sources : First(s)' = First(s) /\ Sending(s)' = Sending(s)
    BY <1>1 DEF First, Sending
  <2> QED
    BY <1>1, <1>6, <2>1 DEF WrittenInOrder
<1> QED
  BY <1>4, <1>5, <1>7

\* At the start nothing is issued.
LEMMA InitWrites == Init => WInv
<1> SUFFICES ASSUME Init
             PROVE WInv
  OBVIOUS
<1>1. /\ stack = <<>> /\ inp = <<>> /\ issued = [s \in Sources |-> 0]
      /\ got = [s \in Sources |-> 0]
  BY DEF Init
<1>2. Len(stack) = 0 /\ Len(inp) = 0 /\ Callers
  BY <1>1 DEF Callers
<1>3. \A s \in Sources : Sending(s) = {} /\ Queued(s) = {} /\ First(s) = 1 /\ got[s] = 0
  <2>1. \A s \in Sources : Sending(s) = {} /\ Queued(s) = {}
    BY <1>2 DEF Sending, Queued
  <2> QED
    BY <1>1, <2>1 DEF First
<1>4. WrittenInOrder
  BY <1>3 DEF WrittenInOrder
<1>5. got \in [Sources -> Nat]
  BY <1>1
<1> QED
  BY <1>2, <1>4, <1>5, InitFacts DEF WInv

\* Every step keeps the order.
LEMMA NextWrites == WInv /\ [Next]_vars => WInv'
<1> SUFFICES ASSUME WInv, [Next]_vars
             PROVE WInv'
  OBVIOUS
<1>1. IInv' /\ got \in [Sources -> Nat]
  BY NextKeeps DEF WInv
<1>2. CASE RunReads \/ SelectReadable \/ ReadAfterChunk \/ SelectWritable \/ ReadReturns
  BY <1>1, <1>2, ReadsWriteNothing DEF WInv
<1>3. CASE ParseByte
  BY <1>1, <1>3, ParseWrites DEF WInv
<1>4. CASE WriteChunk
  BY <1>1, <1>4, ChunkWrites DEF WInv
<1>5. CASE \E n \in KeyLens : Key(n)
  BY <1>1, <1>5, KeyWrites DEF WInv
<1>6. CASE ProgramRead
  BY <1>1, <1>6, ProgramReads DEF WInv
<1>7. CASE ProgramDecide \/ ProgramWrite \/ UNCHANGED vars
  <2>1. UNCHANGED <<inp, issued, got, stack, reentered>>
    BY <1>7 DEF ProgramDecide, ProgramWrite, vars
  <2>2. RawsKept
    BY <2>1 DEF RawsKept
  <2> QED
    BY <1>1, <2>1, <2>2, SameWrites DEF WInv
<1> QED
  BY <1>2, <1>3, <1>4, <1>5, <1>6, <1>7 DEF Next, Terminal

\* The program gets the bytes of the keys complete and in the order typed, whatever
\* the terminal reads, parses and answers in the middle of a write, and the answers
\* too as long as ttyread is not re-entered.  (ttywrite, ttywriteraw, ttyread.)
THEOREM KeysInOrder == Spec => []WrittenInOrder
<1>1. WInv => WrittenInOrder
  BY DEF WInv
<1> QED
  BY <1>1, InitWrites, NextWrites, PTL DEF Spec
=================================================================================
