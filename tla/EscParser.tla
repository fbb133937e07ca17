----------------------------- MODULE EscParser -----------------------------
(***************************************************************************)
(* The parser of what the program on the tty sends: handle_controlchars of *)
(* src/src/controlchars.c and what it calls, for one Term and the 8 bit    *)
(* build.  Its state is a set of flags, esc_state, two buffers that are    *)
(* shared by all sequences, and - for a DCS - a bit of term->mode.         *)
(*                                                                         *)
(* A byte is one of a few names, each for a class of bytes the parser      *)
(* tells apart; of those in a buffer two classes are kept, see Kept.  What *)
(* a finished sequence does to the screen is in LineRing and Screens; here *)
(* it is recorded in did.  C1 codes are printed like text (ISCONTROLC1     *)
(* is 0), so ESC_DCS never gets into esc_state and is left out.            *)
(***************************************************************************)
EXTENDS Integers, Sequences

CONSTANTS
  CsiSiz,    (* sizeof csiescseq.buf: ESC_BUF_SIZ                           *)
  StrSiz,    (* the size a string's buffer starts with: STR_BUF_SIZ         *)
  StrLimit   (* 8192: a buffer larger than that does not grow any more      *)

ASSUME ParserAssumption ==
  CsiSiz \in Nat \ {0, 1} /\ StrSiz \in Nat \ {0} /\ StrLimit \in Nat

Interrupts == {"ESC", "BEL", "CAN", "SUB"}   \* the control codes that end a string
Controls   == Interrupts \cup {"LF"}
Finals     == {"[", "]", "P", "\\", "c"}     \* 0x40 .. 0x7E: they end a CSI sequence
Bytes      == Controls \cup Finals \cup {"#", "%", "(", "1"}
Kept(b)    == IF b = "1" THEN 1 ELSE 0
Flags      == {"START", "CSI", "STR", "ALTCHARSET", "STR_END", "TEST", "UTF8"}

VARIABLES
  esc,      (* esc_state: a set of Flags                                    *)
  sixel,    (* MODE_SIXEL in term->mode                                     *)
  csi,      (* csiescseq.buf, up to its len                                 *)
  str,      (* strescseq: its type, buf and siz                             *)
  did,      (* history: what the last byte did                              *)
  fresh,    (* history: ESC was sent, and after it control codes only       *)
  told      (* history: what was sent for the sequences csi and str hold    *)

parser == <<esc, sixel, csi, str>>
vars   == <<parser, did, fresh, told>>

Did(b, what, body) == did' = [byte |-> b, what |-> what, body |-> body]

----------------------------------------------------------------------------
(* strhandle, from flags e.  At the end of a DCS it sets a bit of          *)
(* term->mode that is meant for esc_state: ESC_DCS is 1 << 7, MODE_SIXEL.  *)
StrHandleMut(b, e, rest) ==      \* mutant: ESC_STR_END is kept
  /\ Did(b, "string", str.buf)
  /\ esc' = rest \cup (e \cap {"STR_END"})
  /\ sixel' = (sixel \/ str.type = "P")
  /\ UNCHANGED <<csi, str>>

StrHandle(b, e, rest) ==
  /\ Did(b, "string", str.buf)
  /\ esc' = rest
  /\ sixel' = (sixel \/ str.type = "P")
  /\ UNCHANGED <<csi, str>>

(* tcontrolcode, from flags e.                                             *)
EscapeMutFlags(b, e) ==          \* mutant: only ESC_CSI is taken back
  /\ b = "ESC"
  /\ csi' = <<>>
  /\ esc' = (e \ {"CSI"}) \cup {"START"}
  /\ Did(b, "control", <<>>)
  /\ UNCHANGED <<sixel, str>>

EscapeMutKeep(b, e) ==           \* mutant: no csireset
  /\ b = "ESC"
  /\ esc' = (e \ {"CSI", "ALTCHARSET", "TEST"}) \cup {"START"}
  /\ Did(b, "control", <<>>)
  /\ UNCHANGED <<sixel, csi, str>>

Escape(b, e) ==
  /\ b = "ESC"
  /\ csi' = <<>>
  /\ esc' = (e \ {"CSI", "ALTCHARSET", "TEST"}) \cup {"START"}
  /\ Did(b, "control", <<>>)
  /\ UNCHANGED <<sixel, str>>

Cancel(b, e) ==
  /\ b \in {"CAN", "SUB"}
  /\ csi' = <<>>
  /\ esc' = e \ {"STR_END", "STR"}
  /\ Did(b, "control", <<>>)
  /\ UNCHANGED <<sixel, str>>

Bell(b, e) ==
  /\ b = "BEL"
  /\ \/ "STR_END" \in e /\ StrHandle(b, e, e \ {"STR_END", "STR"})
     \/ /\ "STR_END" \notin e
        /\ esc' = e \ {"STR"}
        /\ Did(b, "control", <<>>)
        /\ UNCHANGED <<sixel, csi, str>>

OtherControl(b, e) ==            \* HT, BS, CR, LF, VT, FF, SO, SI
  /\ b = "LF"
  /\ esc' = e
  /\ Did(b, "control", <<>>)
  /\ UNCHANGED <<sixel, csi, str>>

tcontrolcode(b, e) == Escape(b, e) \/ Cancel(b, e) \/ Bell(b, e) \/ OtherControl(b, e)

----------------------------------------------------------------------------
(* handle_controlchars inside a string.  One that must be ignored (sixel)  *)
(* takes its terminator with it.                                           *)
StringEndsMut(b) ==              \* mutant: ESC_STR is kept
  /\ "STR" \in esc /\ b \in Interrupts
  /\ \/ /\ sixel
        /\ sixel' = FALSE
        /\ esc' = esc \ {"START"}
        /\ Did(b, "ignored", <<>>)
        /\ UNCHANGED <<csi, str>>
     \/ /\ ~sixel
        /\ tcontrolcode(b, (esc \ {"START"}) \cup {"STR_END"})

StringEnds(b) ==
  /\ "STR" \in esc /\ b \in Interrupts
  /\ \/ /\ sixel
        /\ sixel' = FALSE
        /\ esc' = esc \ {"START", "STR"}
        /\ Did(b, "ignored", <<>>)
        /\ UNCHANGED <<csi, str>>
     \/ /\ ~sixel
        /\ tcontrolcode(b, (esc \ {"START", "STR"}) \cup {"STR_END"})

(* A string's byte is dropped when the buffer is full and may not grow.    *)
Full    == Len(str.buf) + 1 >= str.siz
Dropped == sixel \/ (Full /\ str.siz > StrLimit)

StringGrows(b) ==
  /\ "STR" \in esc /\ b \notin Interrupts
  /\ str' = IF Dropped THEN str
            ELSE [str EXCEPT !.buf = Append(@, Kept(b)), !.siz = IF Full THEN 2 * @ ELSE @]
  /\ Did(b, "ignored", <<>>)
  /\ UNCHANGED <<esc, sixel, csi>>

(* Outside a string.                                                       *)
Control(b) == "STR" \notin esc /\ b \in Controls /\ tcontrolcode(b, esc)

Sequence(b) == "STR" \notin esc /\ b \notin Controls /\ "START" \in esc

CsiGrowsMut(b) ==                \* mutant: one byte more is taken
  /\ Sequence(b) /\ "CSI" \in esc
  /\ csi' = Append(csi, Kept(b))
  /\ IF b \in Finals \/ Len(csi') >= CsiSiz
     THEN esc' = {} /\ Did(b, "csi", csi')
     ELSE esc' = esc /\ Did(b, "ignored", <<>>)
  /\ UNCHANGED <<sixel, str>>

CsiGrows(b) ==
  /\ Sequence(b) /\ "CSI" \in esc
  /\ csi' = Append(csi, Kept(b))
  /\ IF b \in Finals \/ Len(csi') >= CsiSiz - 1
     THEN esc' = {} /\ Did(b, "csi", csi')
     ELSE esc' = esc /\ Did(b, "ignored", <<>>)
  /\ UNCHANGED <<sixel, str>>

(* tdefutf8, tdeftran and tdectest take one byte.                          *)
OneByteMore(b) ==
  /\ Sequence(b) /\ "CSI" \notin esc /\ esc \cap {"UTF8", "ALTCHARSET", "TEST"} # {}
  /\ esc' = {}
  /\ Did(b, "taken", <<>>)
  /\ UNCHANGED <<sixel, csi, str>>

(* eschandle: the byte after ESC.  RIS sets term->mode anew.               *)
AfterEscape(b) == Sequence(b) /\ esc \cap {"CSI", "UTF8", "ALTCHARSET", "TEST"} = {}

Introduced(b) ==
  CASE b = "[" -> "CSI" [] b = "#" -> "TEST" [] b = "%" -> "UTF8" [] b = "(" -> "ALTCHARSET"

StringIntroducers == {"]", "P"}
Introducers == {"[", "#", "%", "("}

eschandle(b) ==
  /\ AfterEscape(b)
  /\ \/ /\ b \in Introducers
        /\ esc' = esc \cup {Introduced(b)}
        /\ Did(b, "escape", <<>>)
        /\ UNCHANGED <<sixel, csi, str>>
     \/ /\ b \in StringIntroducers           \* tstrsequence
        /\ str' = [type |-> b, buf |-> <<>>, siz |-> StrSiz]
        /\ esc' = esc \cup {"STR"}
        /\ Did(b, "escape", <<>>)
        /\ UNCHANGED <<sixel, csi>>
     \/ b = "\\" /\ "STR_END" \in esc /\ StrHandle(b, esc, {})
     \/ /\ b \notin Introducers \cup StringIntroducers
        /\ b = "\\" => "STR_END" \notin esc
        /\ esc' = {}
        /\ sixel' = (sixel /\ b # "c")
        /\ Did(b, "escape", <<>>)
        /\ UNCHANGED <<csi, str>>

PrintText(b) ==
  /\ "STR" \notin esc /\ "START" \notin esc /\ b \notin Controls
  /\ Did(b, "print", <<>>)
  /\ UNCHANGED parser

----------------------------------------------------------------------------
(* The history: of a CSI sequence its bytes since ESC [, CAN or SUB, of a  *)
(* string those since its introducer, as many as the buffer takes and one  *)
(* more, and whether it was handled.                                       *)
Longest == 2 * StrLimit

History(b) ==
  LET first == fresh /\ b \notin Controls
      starts == first /\ b \in StringIntroducers
  IN /\ fresh' = (b = "ESC" \/ (fresh /\ b \in Controls))
     /\ told' =
          [csi |-> IF (first /\ b = "[") \/ b \in {"CAN", "SUB"} THEN <<>>
                   ELSE IF b \in Controls \/ Len(told.csi) = CsiSiz THEN told.csi
                   ELSE Append(told.csi, Kept(b)),
           str |-> IF starts THEN <<>>
                   ELSE IF told.open /\ b \notin Interrupts /\ Len(told.str) < Longest
                   THEN Append(told.str, Kept(b)) ELSE told.str,
           open |-> starts \/ (told.open /\ b \notin Interrupts),
           handled |-> ~starts /\ (told.handled \/ did'.what = "string")]

Receive(b) ==
  /\ \/ StringEnds(b)
     \/ StringGrows(b)
     \/ Control(b)
     \/ CsiGrows(b)
     \/ OneByteMore(b)
     \/ eschandle(b)
     \/ PrintText(b)
  /\ History(b)

Init ==
  /\ esc = {} /\ sixel = FALSE
  /\ csi = <<>>
  /\ str = [type |-> "none", buf |-> <<>>, siz |-> 0]
  /\ did = [byte |-> "none", what |-> "none", body |-> <<>>]
  /\ fresh = FALSE
  /\ told = [csi |-> <<>>, str |-> <<>>, open |-> FALSE, handled |-> FALSE]

Next == \E b \in Bytes : Receive(b)

Spec == Init /\ [][Next]_vars

----------------------------------------------------------------------------
(* Properties.                                                             *)

(* Neither buffer overflows, with the 0 that csiparse and strparse write   *)
(* behind the last byte, although sequences grow, are cut and start anew   *)
(* in any order.                                                           *)
TypeOK ==
  /\ esc \subseteq Flags /\ sixel \in BOOLEAN
  /\ csi \in Seq({0, 1}) /\ Len(csi) < CsiSiz
  /\ str.buf \in Seq({0, 1}) /\ (str.type # "none" => Len(str.buf) < str.siz)
  /\ fresh \in BOOLEAN

(* The flags of esc_state describe one sequence: at most one of those that *)
(* say what the next byte belongs to is set, none is left when text is     *)
(* printed again, and no string waits for its end once the bit that makes  *)
(* strings be ignored is set.                                              *)
Kinds == {"CSI", "STR", "ALTCHARSET", "TEST", "UTF8"}

OneSequence ==
  /\ \A f, g \in Kinds : f \in esc /\ g \in esc => f = g
  /\ "START" \notin esc => esc = {}
  /\ sixel => "STR_END" \notin esc

(* However sequences are cut and control codes embedded in them, a string  *)
(* that was sent is handled once at most.                                  *)
HandledOnce == [][did'.what = "string" => ~told.handled]_vars

(* What csihandle and strhandle get is what was sent since the sequence's  *)
(* introducer, without the control codes in between and with nothing of an *)
(* earlier sequence; of a string too long for its buffer, the beginning.   *)
Beginning(s, t) == Len(s) <= Len(t) /\ s = SubSeq(t, 1, Len(s))

WholeSequence ==
  [][/\ did'.what = "csi" => did'.body = told'.csi
     /\ did'.what = "string" => /\ Beginning(did'.body, told.str)
                                /\ Len(told.str) <= StrLimit => did'.body = told.str]_vars

(* ESC begins a new sequence wherever it comes: the byte that follows is   *)
(* taken as the second of that sequence.  But for two cases the code does  *)
(* not get right: after a DCS, see ControlsPerformed, and after ESC %,     *)
(* whose flag ESC does not take back.                                      *)
EscapeStarts ==
  [][fresh /\ did'.byte \notin Controls /\ "START" \in esc /\ "UTF8" \notin esc
     => did'.what \in {"escape", "string"}]_vars

(* "Actions of control codes must be performed as soon they arrive         *)
(* because they can be embedded inside a control sequence, and they must   *)
(* not cause conflicts with sequences."  (Of the codes that end a string;  *)
(* the others are part of it.)                                             *)
ControlsPerformed == [][did'.byte \in Interrupts => did'.what \in {"control", "string"}]_vars
=============================================================================
