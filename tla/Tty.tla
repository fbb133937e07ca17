------------------------------- MODULE Tty -------------------------------
(***************************************************************************)
(* The byte traffic between the terminal and the program on its pty:       *)
(* ttyread, ttywrite and ttywriteraw of src/src/tty.c and the loop of      *)
(* twrite (termdraw.c).  They call each other: ttyread parses what the     *)
(* program wrote, the program may ask a question (ESC [ c), the answer     *)
(* goes out through ttywriteraw, and ttywriteraw calls ttyread when the    *)
(* pty accepts nothing more.  The calls in progress are a stack; the       *)
(* program and the kernel's two queues run between any two of its steps.   *)
(*                                                                         *)
(* The bytes of the program are numbered in the order it writes them, and  *)
(* so are those of the user's keys and those of the answers.               *)
(***************************************************************************)
EXTENDS Integers, Sequences

CONSTANTS
  InCap,      (* bytes the kernel holds for the program                     *)
  OutCap,     (* bytes of the program the kernel holds for the terminal     *)
  Room,       (* the pty is writable while this many bytes fit              *)
  BufSize,    (* BUFSIZ: the array of ttyread                               *)
  Lim,        (* 256: what ttywriteraw writes at once before it has read    *)
  AnswerLen,  (* the bytes of an answer                                     *)
  KeyLens,    (* the bytes a key sends                                      *)
  MaxKeys,    (* bound: the bytes of all keys                               *)
  MaxOut      (* bound: the bytes the program writes                        *)

ASSUME TtyAssumption ==
  /\ InCap \in Nat \ {0} /\ OutCap \in Nat \ {0} /\ Room \in 1 .. InCap
  /\ BufSize \in Nat \ {0} /\ Lim \in Nat \ {0} /\ AnswerLen \in Nat \ {0}
  /\ KeyLens \subseteq Nat \ {0} /\ MaxKeys \in Nat /\ MaxOut \in Nat

VARIABLES
  inp,        \* the queue to the program: [src, b], byte b of that source
  out,        \* the queue from the program: [b, ask]
  buf,        \* static in ttyread: the array
  buflen,     \* static in ttyread: the bytes in it not yet taken by twrite
  stack,      \* the calls in progress, the innermost one last
  program,    \* "free", or "text" or "ask": the byte it is about to write
  nout,       \* history: the bytes the program wrote
  seen,       \* history: the last byte of the program that was parsed
  issued,     \* history: [source -> the bytes ttywrite was given]
  got,        \* history: [source -> the last byte the program read]
  reentered   \* history: ttyread was called while ttyread was parsing

vars == <<inp, out, buf, buflen, stack, program, nout, seen, issued, got, reentered>>

Sources == {"key", "answer"}
Lower(a, b) == IF a < b THEN a ELSE b

Top        == stack[Len(stack)]
Below      == SubSeq(stack, 1, Len(stack) - 1)
Busy(f)    == stack # <<>> /\ Top.f = f
SetTop(f)  == Append(Below, f)
Free       == InCap - Len(inp)

ReadFrame(n, ret) == [f |-> "read", i |-> 0, n |-> n, ret |-> ret]
RawFrame(src, n)  == [f |-> "raw", src |-> src, a |-> issued[src] + 1,
                      b |-> issued[src] + n, lim |-> Lim, w |-> 0, rfd |-> FALSE]
Left(fr)          == fr.b - fr.a + 1     \* n: the bytes not yet written

Init ==
  /\ inp = <<>> /\ out = <<>> /\ buf = <<>> /\ buflen = 0 /\ stack = <<>>
  /\ program = "free" /\ nout = 0 /\ seen = 0 /\ reentered = FALSE
  /\ issued = [s \in Sources |-> 0] /\ got = [s \in Sources |-> 0]

----------------------------------------------------------------------------
(* The program: it reads a byte, or decides to write one and then waits    *)
(* until the queue takes it.                                               *)
ProgramRead ==
  /\ program = "free" /\ inp # <<>>
  /\ got' = [got EXCEPT ![Head(inp).src] = Head(inp).b]
  /\ inp' = Tail(inp)
  /\ UNCHANGED <<out, buf, buflen, stack, program, nout, seen, issued, reentered>>

ProgramDecide ==
  /\ program = "free" /\ nout < MaxOut
  /\ program' \in {"text", "ask"}
  /\ UNCHANGED <<inp, out, buf, buflen, stack, nout, seen, issued, got, reentered>>

ProgramWrite ==
  /\ program # "free" /\ Len(out) < OutCap
  /\ out' = Append(out, [b |-> nout + 1, ask |-> program = "ask"])
  /\ nout' = nout + 1
  /\ program' = "free"
  /\ UNCHANGED <<inp, buf, buflen, stack, seen, issued, got, reentered>>

----------------------------------------------------------------------------
(* ttyread is called with base on the stack: read(2) fills the array from  *)
(* buflen on with some of what there is, and twrite starts at its first    *)
(* byte.  With a negative buflen it would write before the array: what     *)
(* follows is undefined and not followed here.                             *)
ReadingBase(base) == \E k \in 1 .. Len(base) : base[k].f = "read"

TtyReadMut(base) ==              \* mutant: room for LEN(buf), not LEN(buf) - buflen
  /\ out # <<>> /\ 0 <= buflen
  /\ \E r \in 1 .. Lower(Len(out), BufSize) :
       /\ buf' = SubSeq(buf, 1, buflen) \o SubSeq(out, 1, r)
                   \o SubSeq(buf, buflen + r + 1, Len(buf))
       /\ buflen' = buflen + r
       /\ stack' = Append(base, ReadFrame(buflen + r, r))
       /\ out' = SubSeq(out, r + 1, Len(out))
  /\ reentered' = (reentered \/ ReadingBase(base))
  /\ UNCHANGED <<inp, program, nout, seen, issued, got>>

TtyRead(base) ==
  /\ out # <<>> /\ 0 <= buflen
  /\ \E r \in 1 .. Lower(Len(out), BufSize - buflen) :
       /\ buf' = SubSeq(buf, 1, buflen) \o SubSeq(out, 1, r)
                   \o SubSeq(buf, buflen + r + 1, Len(buf))
       /\ buflen' = buflen + r
       /\ stack' = Append(base, ReadFrame(buflen + r, r))
       /\ out' = SubSeq(out, r + 1, Len(out))
  /\ reentered' = (reentered \/ ReadingBase(base))
  /\ UNCHANGED <<inp, program, nout, seen, issued, got>>

(* twrite parses the next byte; an answer is a call of ttywrite.           *)
ParseByte ==
  /\ Busy("read") /\ Top.i < Top.n
  /\ LET c    == buf[Top.i + 1]
         here == SetTop([Top EXCEPT !.i = @ + 1])
     IN /\ seen' = c.b
        /\ IF c.ask
           THEN /\ stack' = Append(here, RawFrame("answer", AnswerLen))
                /\ issued' = [issued EXCEPT !["answer"] = @ + AnswerLen]
           ELSE /\ stack' = here
                /\ UNCHANGED issued
  /\ UNCHANGED <<inp, out, buf, buflen, program, nout, got, reentered>>

ReadReturnsMut ==                \* mutant: buflen -= written is missing
  /\ Busy("read") /\ Top.i = Top.n
  /\ stack' = IF Below # <<>> THEN [Below EXCEPT ![Len(Below)].lim = Top.ret] ELSE Below
  /\ UNCHANGED <<inp, out, buf, buflen, program, nout, seen, issued, got, reentered>>

(* twrite took all n bytes: they leave the array, and a ttywriteraw that   *)
(* waits below takes the bytes read as its new lim.  Bytes that no call    *)
(* will look at any more are dropped from buf.                             *)
ReadReturns ==
  /\ Busy("read") /\ Top.i = Top.n
  /\ buflen' = buflen - Top.n
  /\ stack' = IF Below # <<>>
              THEN [Below EXCEPT ![Len(Below)].lim = Top.ret]
              ELSE Below
  /\ buf' = IF ReadingBase(Below) THEN buf ELSE <<>>
  /\ UNCHANGED <<inp, out, program, nout, seen, issued, got, reentered>>

RunReadsMut == stack = <<>> /\ Len(out) > 1 /\ TtyRead(<<>>)   \* mutant: waits for more

(* run calls ttyread when the pty is readable.                             *)
RunReads == stack = <<>> /\ TtyRead(<<>>)

(* A key in run: kpress hands its bytes to ttywrite.                       *)
Key(n) ==
  /\ stack = <<>> /\ issued["key"] + n <= MaxKeys
  /\ stack' = <<RawFrame("key", n)>>
  /\ issued' = [issued EXCEPT !["key"] = @ + n]
  /\ UNCHANGED <<inp, out, buf, buflen, program, nout, seen, got, reentered>>

----------------------------------------------------------------------------
(* ttywriteraw: one round of its loop begins with pselect.  If the pty is  *)
(* writable a chunk is written, else, if readable, ttyread is called.      *)
SelectWritable ==
  /\ Busy("raw") /\ Top.w = 0 /\ ~Top.rfd /\ Free >= Room
  /\ stack' = SetTop([Top EXCEPT !.w = Lower(Left(Top), Top.lim), !.rfd = out # <<>>])
  /\ UNCHANGED <<inp, out, buf, buflen, program, nout, seen, issued, got, reentered>>

SelectReadableMut ==             \* mutant: only answers do the dance
  /\ Busy("raw") /\ Top.w = 0 /\ ~Top.rfd
  /\ Free < Room /\ Top.src = "answer"
  /\ TtyRead(stack)

SelectReadable ==
  /\ Busy("raw") /\ Top.w = 0 /\ ~Top.rfd
  /\ Free < Room
  /\ TtyRead(stack)

WriteChunkMut ==                 \* mutant: n -= r without s += r
  /\ Busy("raw") /\ Top.w > 0 /\ Free > 0
  /\ LET r  == Lower(Top.w, Free)
         fr == [Top EXCEPT !.b = @ - r, !.w = @ - r]
     IN /\ inp' = inp \o [k \in 1 .. r |-> [src |-> Top.src, b |-> Top.a + k - 1]]
        /\ stack' = IF Left(fr) = 0 THEN Below ELSE SetTop(fr)
  /\ UNCHANGED <<out, buf, buflen, program, nout, seen, issued, got, reentered>>

(* write(2) blocks until the whole chunk is in the queue.  All bytes       *)
(* written ends the call, with rfd or not.                                 *)
WriteChunk ==
  /\ Busy("raw") /\ Top.w > 0 /\ Free > 0
  /\ LET r  == Lower(Top.w, Free)
         fr == [Top EXCEPT !.a = @ + r, !.w = @ - r]
     IN /\ inp' = inp \o [k \in 1 .. r |-> [src |-> Top.src, b |-> Top.a + k - 1]]
        /\ stack' = IF Left(fr) = 0 THEN Below ELSE SetTop(fr)
  /\ UNCHANGED <<out, buf, buflen, program, nout, seen, issued, got, reentered>>

(* After a chunk that was not the last: the read that pselect announced.   *)
ReadAfterChunk ==
  /\ Busy("raw") /\ Top.w = 0 /\ Top.rfd
  /\ TtyRead(SetTop([Top EXCEPT !.rfd = FALSE]))

Terminal ==
  \/ RunReads \/ ParseByte \/ ReadReturns
  \/ SelectWritable \/ SelectReadable \/ WriteChunk \/ ReadAfterChunk

Next ==
  \/ Terminal
  \/ \E n \in KeyLens : Key(n)
  \/ ProgramRead \/ ProgramDecide \/ ProgramWrite

(* The terminal never stops working.  The program may write as much as it  *)
(* likes, but comes to read again, and a write that can be done is done.   *)
Fairness == WF_vars(Terminal) /\ SF_vars(ProgramRead) /\ WF_vars(ProgramWrite)
Spec     == Init /\ [][Next]_vars
FairSpec == Spec /\ Fairness

----------------------------------------------------------------------------
Byte == [src : Sources, b : Nat]
Frames ==
  [f : {"read"}, i : Nat, n : 1 .. BufSize, ret : 1 .. BufSize] \cup
  [f : {"raw"}, src : Sources, a : Nat, b : Nat, lim : Nat \ {0}, w : Nat, rfd : BOOLEAN]

(* Types.  Until ttyread is re-entered, the calls alternate: a ttyread at  *)
(* most once, above at most one pending write and below at most one, and   *)
(* buflen counts the bytes of the array that twrite was given.             *)
TypeOK ==
  /\ \A k \in 1 .. Len(inp) : inp[k] \in Byte
  /\ Len(inp) <= InCap /\ Len(out) <= OutCap /\ Len(buf) <= BufSize
  /\ \A k \in 1 .. Len(stack) : stack[k] \in Frames
  /\ program \in {"free", "text", "ask"}
  /\ ~reentered =>
       /\ Len(stack) <= 3
       /\ \A k \in 1 .. Len(stack) : stack[k].f = "read" => buflen = stack[k].n

(* The bytes of the program not yet parsed: the rest of what twrite was    *)
(* given, then the queue.                                                  *)
Reads    == {k \in 1 .. Len(stack) : stack[k].f = "read"}
Unparsed == IF Reads = {} THEN out
            ELSE LET fr == stack[CHOOSE k \in Reads : TRUE]
                 IN SubSeq(buf, fr.i + 1, fr.n) \o out

(* Every byte of the program is parsed once and in the order written, as   *)
(* long as ttyread is not re-entered ("append read bytes to unprocessed    *)
(* bytes", ttyread): what is unparsed are the bytes after the last seen.   *)
ParsedInOrder ==
  ~reentered =>
    /\ Len(Unparsed) = nout - seen
    /\ \A k \in 1 .. Len(Unparsed) : Unparsed[k].b = seen + k

(* The bytes of a source that the program has not read: those queued, then *)
(* those of the ttywriteraw that is sending them, from First(s) on.        *)
Queued(s)  == {k \in 1 .. Len(inp) : inp[k].src = s}
Sending(s) == {k \in 1 .. Len(stack) : stack[k].f = "raw" /\ stack[k].src = s}
First(s)   == IF Sending(s) = {} THEN issued[s] + 1
              ELSE stack[CHOOSE k \in Sending(s) : TRUE].a

(* Keys reach the program complete and in the order typed, whatever the    *)
(* terminal reads and answers while it sends them; so do answers, unless   *)
(* ttyread is re-entered.  What is queued of a source are the bytes from   *)
(* the one read last to the first not yet written, none missing, none      *)
(* twice and in their order; what follows are all the others issued.       *)
WrittenInOrder ==
  \A s \in Sources : s = "key" \/ ~reentered =>
    /\ got[s] < First(s)
    /\ {inp[k].b : k \in Queued(s)} = got[s] + 1 .. First(s) - 1
    /\ \A j, k \in Queued(s) : j < k => inp[j].b < inp[k].b
    /\ \A k \in Sending(s) : stack[k].b = issued[s]

(* A write to the program always ends ("Writing too much will clog the     *)
(* line", ttywriteraw): also when the program is itself stuck in a write   *)
(* and reads nothing until its output is taken.                            *)
WriteEnds == stack # <<>> ~> (stack = <<>> \/ reentered)

(* What the program writes is parsed in the end.                           *)
OutputParsed == nout > seen ~> (nout = seen \/ reentered)
=============================================================================
