--------------------------- MODULE EscParser_proofs ---------------------------
(***************************************************************************)
(* Theorems about EscParser, for every size of the buffers.                *)
(***************************************************************************)
EXTENDS EscParser, TLAPS

(* What TypeOK and OneSequence rest on: room is left in the CSI buffer     *)
(* whenever a sequence is under way, and a string that is being received   *)
(* has a buffer with room for the 0 at its end.                            *)
StrOK ==
  /\ str = [type |-> str.type, buf |-> str.buf, siz |-> str.siz]
  /\ str.buf \in Seq({0, 1})
  /\ str.siz \in Nat
  /\ str.type # "none" => Len(str.buf) < str.siz

CsiOK ==
  /\ csi \in Seq({0, 1})
  /\ Len(csi) < CsiSiz
  /\ "START" \in esc => Len(csi) < CsiSiz - 1

FlagsOK ==
  /\ esc \subseteq Flags
  /\ sixel \in BOOLEAN
  /\ "STR" \in esc => str.type # "none"
  /\ OneSequence

IInv == StrOK /\ CsiOK /\ FlagsOK /\ fresh \in BOOLEAN

-----------------------------------------------------------------------------

LEMMA InitIInv == Init => IInv
<1> SUFFICES ASSUME Init PROVE IInv
  OBVIOUS
<1>1. <<>> \in Seq({0, 1}) /\ Len(<<>>) = 0
  OBVIOUS
<1>2. StrOK
  BY <1>1 DEF Init, StrOK
<1>3. CsiOK
  BY <1>1, ParserAssumption DEF Init, CsiOK
<1>4. FlagsOK
  BY DEF Init, FlagsOK, OneSequence, Flags
<1> QED
  BY <1>2, <1>3, <1>4 DEF Init, IInv

(* The history of a byte does not matter here, but fresh has its type.     *)
LEMMA FreshOK == ASSUME IInv, NEW b \in Bytes, History(b) PROVE fresh' \in BOOLEAN
BY DEF IInv, History

(* A buffer that a byte was appended to.                                   *)
LEMMA Longer ==
  ASSUME NEW s \in Seq({0, 1}), NEW b \in Bytes
  PROVE  Append(s, Kept(b)) \in Seq({0, 1}) /\ Len(Append(s, Kept(b))) = Len(s) + 1
<1>1. Kept(b) \in {0, 1}
  BY DEF Kept
<1> QED
  BY <1>1

(* Control codes, from flags e of which at most one says what the next     *)
(* byte belongs to.                                                        *)
LEMMA ControlsKeep ==
  ASSUME IInv, NEW b \in Controls, NEW e \in SUBSET Flags,
         \A f, g \in Kinds : f \in e /\ g \in e => f = g,
         "STR" \notin e,
         "START" \in e \/ e = {} \/ (e = {"STR_END"} /\ b # "LF"),
         "START" \in e => Len(csi) < CsiSiz - 1,
         sixel => "STR_END" \notin e,
         tcontrolcode(b, e)
  PROVE  StrOK' /\ CsiOK' /\ FlagsOK'
<1> USE ParserAssumption DEF IInv, Kinds, Flags, OneSequence
<1>1. CASE Escape(b, e)
  <2>1. StrOK' /\ CsiOK'
    BY <1>1 DEF Escape, StrOK, CsiOK
  <2> QED
    BY <1>1, <2>1 DEF Escape, FlagsOK
<1>2. CASE Cancel(b, e)
  BY <1>2 DEF Cancel, StrOK, CsiOK, FlagsOK
<1>3. CASE Bell(b, e)
  <2>1. UNCHANGED <<csi, str>> /\ esc' = e \ {"STR_END", "STR"}
    BY <1>3 DEF Bell, StrHandle
  <2>2. sixel' \in BOOLEAN
    BY <1>3 DEF Bell, StrHandle, FlagsOK
  <2>3. b = "BEL"
    BY <1>3 DEF Bell
  <2> QED
    BY <2>1, <2>2, <2>3 DEF StrOK, CsiOK, FlagsOK
<1>4. CASE OtherControl(b, e)
  BY <1>4 DEF OtherControl, StrOK, CsiOK, FlagsOK
<1> QED
  BY <1>1, <1>2, <1>3, <1>4 DEF tcontrolcode

-----------------------------------------------------------------------------
(* One lemma for each way a byte is received.                              *)

LEMMA StringEndsKeeps ==
  ASSUME IInv, NEW b \in Bytes, StringEnds(b) PROVE StrOK' /\ CsiOK' /\ FlagsOK'
<1>0. "STR" \in esc /\ b \in Interrupts
  BY DEF StringEnds
<1>1. esc \ {"START", "STR"} \subseteq {"STR_END"}
  BY <1>0 DEF IInv, FlagsOK, OneSequence, Kinds, Flags
<1>2. CASE sixel /\ esc' = esc \ {"START", "STR"} /\ sixel' = FALSE /\ UNCHANGED <<csi, str>>
  <2>1. esc' = {}
    BY <1>1, <1>2 DEF IInv, FlagsOK, OneSequence
  <2> QED
    BY <1>2, <2>1 DEF IInv, StrOK, CsiOK, FlagsOK, OneSequence, Kinds
<1>3. CASE ~sixel /\ tcontrolcode(b, (esc \ {"START", "STR"}) \cup {"STR_END"})
  <2> DEFINE e == (esc \ {"START", "STR"}) \cup {"STR_END"}
  <2>1. e = {"STR_END"}
    BY <1>1
  <2> QED
    BY <1>0, <1>3, <2>1, ControlsKeep DEF Interrupts, Controls, Kinds, Flags
<1> QED
  BY <1>2, <1>3 DEF StringEnds

LEMMA StringGrowsKeeps ==
  ASSUME IInv, NEW b \in Bytes, StringGrows(b) PROVE StrOK' /\ CsiOK' /\ FlagsOK'
<1>1. "STR" \in esc /\ UNCHANGED <<esc, sixel, csi>>
  BY DEF StringGrows
<1>2. str.type # "none" /\ Len(str.buf) < str.siz /\ str.buf \in Seq({0, 1}) /\ str.siz \in Nat
  BY <1>1 DEF IInv, FlagsOK, StrOK
<1>3. StrOK' /\ str'.type = str.type
  <2>1. CASE Dropped
    BY <2>1 DEF StringGrows, IInv, StrOK
  <2>2. CASE ~Dropped
    <3>1. str' = [type |-> str.type, buf |-> Append(str.buf, Kept(b)),
                  siz |-> IF Full THEN 2 * str.siz ELSE str.siz]
      BY <2>2 DEF StringGrows, IInv, StrOK
    <3>2. str'.buf \in Seq({0, 1}) /\ Len(str'.buf) = Len(str.buf) + 1
      BY <1>2, <3>1, Longer
    <3>3. str'.siz \in Nat /\ Len(str.buf) + 1 < str'.siz
      BY <1>2, <3>1 DEF Full
    <3> QED
      BY <3>1, <3>2, <3>3 DEF StrOK
  <2> QED
    BY <2>1, <2>2
<1> QED
  BY <1>1, <1>3 DEF IInv, CsiOK, FlagsOK, OneSequence

LEMMA ControlKeeps ==
  ASSUME IInv, NEW b \in Bytes, Control(b) PROVE StrOK' /\ CsiOK' /\ FlagsOK'
<1>1. "STR" \notin esc /\ b \in Controls /\ tcontrolcode(b, esc)
  BY DEF Control
<1> QED
  BY <1>1, ControlsKeep DEF IInv, CsiOK, FlagsOK, OneSequence

LEMMA CsiGrowsKeeps ==
  ASSUME IInv, NEW b \in Bytes, CsiGrows(b) PROVE StrOK' /\ CsiOK' /\ FlagsOK'
<1>1. "START" \in esc /\ UNCHANGED <<sixel, str>> /\ csi' = Append(csi, Kept(b))
  BY DEF CsiGrows, Sequence
<1>2. csi' \in Seq({0, 1}) /\ Len(csi') = Len(csi) + 1
  BY <1>1, Longer DEF IInv, CsiOK
<1>3. esc' = {} \/ (esc' = esc /\ Len(csi') < CsiSiz - 1)
  BY <1>2, ParserAssumption DEF CsiGrows, IInv, CsiOK
<1> QED
  BY <1>1, <1>2, <1>3, ParserAssumption DEF IInv, StrOK, CsiOK, FlagsOK, OneSequence, Kinds

LEMMA OneByteMoreKeeps ==
  ASSUME IInv, NEW b \in Bytes, OneByteMore(b) PROVE StrOK' /\ CsiOK' /\ FlagsOK'
BY DEF OneByteMore, IInv, StrOK, CsiOK, FlagsOK, OneSequence, Kinds

LEMMA EschandleKeeps ==
  ASSUME IInv, NEW b \in Bytes, eschandle(b) PROVE StrOK' /\ CsiOK' /\ FlagsOK'
<1>0. "START" \in esc /\ esc \cap Kinds = {}
  BY DEF eschandle, AfterEscape, Sequence, Kinds
<1>1. CASE b \in Introducers /\ esc' = esc \cup {Introduced(b)} /\ UNCHANGED <<sixel, csi, str>>
  <2>1. Introduced(b) \in Kinds \ {"STR"}
    BY <1>1 DEF Introducers, Introduced, Kinds
  <2>2. StrOK' /\ CsiOK'
    BY <1>0, <1>1 DEF IInv, StrOK, CsiOK
  <2> QED
    BY <1>0, <1>1, <2>1, <2>2 DEF IInv, FlagsOK, OneSequence, Kinds, Flags
<1>2. CASE /\ b \in StringIntroducers
           /\ str' = [type |-> b, buf |-> <<>>, siz |-> StrSiz]
           /\ esc' = esc \cup {"STR"}
           /\ UNCHANGED <<sixel, csi>>
  <2>1. StrOK' /\ str'.type # "none"
    BY <1>2, ParserAssumption DEF StrOK, StringIntroducers
  <2>2. CsiOK'
    BY <1>0, <1>2 DEF IInv, CsiOK
  <2> QED
    BY <1>0, <1>2, <2>1, <2>2 DEF IInv, FlagsOK, OneSequence, Kinds, Flags
<1>3. CASE esc' = {} /\ sixel' \in BOOLEAN /\ UNCHANGED <<csi, str>>
  BY <1>3 DEF IInv, StrOK, CsiOK, FlagsOK, OneSequence, Kinds
<1>4. sixel \in BOOLEAN
  BY DEF IInv, FlagsOK
<1> QED
  BY <1>1, <1>2, <1>3, <1>4 DEF eschandle, StrHandle

LEMMA PrintKeeps ==
  ASSUME IInv, NEW b \in Bytes, PrintText(b) PROVE StrOK' /\ CsiOK' /\ FlagsOK'
BY DEF PrintText, parser, IInv, StrOK, CsiOK, FlagsOK, OneSequence, Kinds

LEMMA StutterKeeps == IInv /\ UNCHANGED vars => IInv'
BY DEF vars, parser, IInv, StrOK, CsiOK, FlagsOK, OneSequence

LEMMA NextIInv == IInv /\ Next => IInv'
<1> SUFFICES ASSUME IInv, NEW b \in Bytes, Receive(b) PROVE IInv'
  BY DEF Next
<1>1. fresh' \in BOOLEAN
  BY FreshOK DEF Receive
<1>2. StrOK' /\ CsiOK' /\ FlagsOK'
  BY StringEndsKeeps, StringGrowsKeeps, ControlKeeps, CsiGrowsKeeps, OneByteMoreKeeps,
     EschandleKeeps, PrintKeeps DEF Receive
<1> QED
  BY <1>1, <1>2 DEF IInv

-----------------------------------------------------------------------------

(* The buffers of handle_controlchars never overflow, whatever their sizes *)
(* and the bytes sent.                                                     *)
THEOREM BuffersHold == Spec => []TypeOK
<1>1. IInv => TypeOK
  BY DEF IInv, StrOK, CsiOK, FlagsOK, TypeOK
<1> QED
  BY InitIInv, NextIInv, StutterKeeps, <1>1, PTL DEF Spec

(* esc_state describes one sequence at a time, and none when text is       *)
(* printed; no string waits for its end while strings are ignored.         *)
THEOREM FlagsOfOneSequence == Spec => []OneSequence
<1>1. IInv => OneSequence
  BY DEF IInv, FlagsOK
<1> QED
  BY InitIInv, NextIInv, StutterKeeps, <1>1, PTL DEF Spec

-----------------------------------------------------------------------------
(* Which bytes come next, as the sender sees it and as the flags say.      *)
FreshInv ==
  /\ fresh /\ "START" \in esc => esc \cap {"CSI", "ALTCHARSET", "TEST", "STR"} = {}
  /\ "START" \in esc /\ esc \cap Kinds = {} => fresh

(* What a control code does to the flags.                                  *)
LEMMA ControlFlags ==
  ASSUME NEW b \in Controls, NEW e \in SUBSET Flags, tcontrolcode(b, e)
  PROVE  /\ b = "ESC" => esc' = (e \ {"CSI", "ALTCHARSET", "TEST"}) \cup {"START"} /\ csi' = <<>>
         /\ b \in {"CAN", "SUB"} => esc' = e \ {"STR_END", "STR"} /\ csi' = <<>>
         /\ b = "BEL" => esc' = e \ {"STR_END", "STR"} /\ csi' = csi
         /\ b = "LF" => esc' = e /\ csi' = csi
         /\ str' = str
         /\ did'.what = "string" => b = "BEL" /\ "STR_END" \in e /\ did'.body = str.buf
         /\ did'.what \in {"control", "string"} /\ did'.byte = b
  BY DEF tcontrolcode, Escape, Cancel, Bell, OtherControl, StrHandle, Did, Controls, Interrupts

(* Inside a string the end of it leaves at most ESC_START and ESC_STR_END. *)
LEMMA EndFlags ==
  ASSUME IInv, NEW b \in Bytes, StringEnds(b)
  PROVE  /\ b \in Interrupts /\ b \in Controls /\ "STR" \in esc
         /\ \/ sixel /\ esc' = {} /\ csi' = csi /\ did'.what = "ignored"
            \/ ~sixel /\ tcontrolcode(b, {"STR_END"})
<1>1. "STR" \in esc /\ b \in Interrupts /\ b \in Controls
  BY DEF StringEnds, Controls
<1>2. esc \ {"START", "STR"} \subseteq {"STR_END"}
  BY <1>1 DEF IInv, FlagsOK, OneSequence, Kinds, Flags
<1>3. (esc \ {"START", "STR"}) \cup {"STR_END"} = {"STR_END"}
  BY <1>2
<1>4. sixel => esc \ {"START", "STR"} = {}
  BY <1>2 DEF IInv, FlagsOK, OneSequence
<1>5. CASE sixel /\ esc' = esc \ {"START", "STR"} /\ Did(b, "ignored", <<>>) /\ UNCHANGED csi
  BY <1>1, <1>4, <1>5 DEF Did
<1>6. CASE ~sixel /\ tcontrolcode(b, (esc \ {"START", "STR"}) \cup {"STR_END"})
  <2>1. tcontrolcode(b, {"STR_END"})
    BY <1>3, <1>6
  <2>2. QED
    BY <1>1, <1>6, <2>1
<1>7. QED
  BY <1>5, <1>6 DEF StringEnds

LEMMA FreshKeeps ==
  ASSUME IInv, FreshInv, NEW b \in Bytes, Receive(b)
  PROVE  FreshInv'
<1>1. fresh' = (b = "ESC" \/ (fresh /\ b \in Controls))
  BY DEF Receive, History
<1>2. esc \in SUBSET Flags
  BY DEF IInv, FlagsOK
<1>3. CASE StringEnds(b)
  <2>1. CASE esc' = {}
    BY <2>1 DEF FreshInv
  <2>2. CASE tcontrolcode(b, {"STR_END"})
    <3>1. b \in Controls /\ {"STR_END"} \in SUBSET Flags
      BY <1>3, EndFlags DEF Flags
    <3>2. "START" \in esc' => b = "ESC" /\ esc' = {"STR_END", "START"}
      BY <2>2, <3>1, ControlFlags DEF Controls, Interrupts
    <3>3. QED
      BY <1>1, <3>2 DEF FreshInv, Kinds
  <2>3. QED
    BY <1>3, <2>1, <2>2, EndFlags
<1>4. CASE Control(b)
  <2>1. "STR" \notin esc /\ b \in Controls /\ tcontrolcode(b, esc)
    BY <1>4 DEF Control
  <2>2. CASE b = "ESC"
    <3>1. esc' = (esc \ {"CSI", "ALTCHARSET", "TEST"}) \cup {"START"} /\ fresh'
      BY <1>1, <1>2, <2>1, <2>2, ControlFlags
    <3>2. QED
      BY <2>1, <3>1 DEF FreshInv
  <2>3. CASE b # "ESC"
    <3>1. esc' = esc \/ esc' = esc \ {"STR_END", "STR"}
      BY <1>2, <2>1, <2>3, ControlFlags DEF Controls, Interrupts
    <3>2. fresh' = fresh
      BY <1>1, <2>1, <2>3 DEF IInv
    <3>3. QED
      BY <2>1, <3>1, <3>2 DEF FreshInv, Kinds
  <2>4. QED
    BY <2>2, <2>3
<1>5. CASE StringGrows(b)
  <2>1. "STR" \in esc /\ esc' = esc
    BY <1>5 DEF StringGrows
  <2>2. fresh' => fresh
    BY <1>1, <1>5 DEF StringGrows, Interrupts
  <2>3. QED
    BY <2>1, <2>2 DEF FreshInv, Kinds
<1>6. CASE b \notin Controls /\ ~fresh'
  <2>1. "START" \in esc' => esc' \cap Kinds # {}
    <3>1. CASE CsiGrows(b)
      BY <3>1 DEF CsiGrows, Kinds
    <3>2. CASE OneByteMore(b)
      BY <3>2 DEF OneByteMore
    <3>3. CASE eschandle(b)
      BY <3>3 DEF eschandle, StrHandle, Introduced, Introducers, Kinds
    <3>4. CASE PrintText(b)
      BY <3>4 DEF PrintText, parser
    <3>5. CASE StringEnds(b) \/ StringGrows(b) \/ Control(b)
      BY <1>6, <3>5 DEF StringEnds, StringGrows, Control, Controls, Kinds
    <3>6. QED
      BY <3>1, <3>2, <3>3, <3>4, <3>5 DEF Receive
  <2>2. QED
    BY <1>6, <2>1 DEF FreshInv
<1>7. CASE CsiGrows(b) \/ OneByteMore(b) \/ eschandle(b) \/ PrintText(b)
  <2>1. b \notin Controls
    BY <1>7 DEF CsiGrows, OneByteMore, eschandle, AfterEscape, PrintText, Sequence
  <2>2. ~fresh'
    BY <1>1, <2>1 DEF Controls, Interrupts
  <2>3. QED
    BY <1>6, <2>1, <2>2
<1>8. QED
  BY <1>3, <1>4, <1>5, <1>7 DEF Receive

LEMMA FreshAlways == Spec => []FreshInv
<1>1. Init => FreshInv
  BY DEF Init, FreshInv
<1>2. IInv /\ FreshInv /\ [Next]_vars => FreshInv'
  <2>1. ASSUME FreshInv, UNCHANGED vars PROVE FreshInv'
    BY <2>1 DEF vars, parser, FreshInv
  <2>2. QED
    BY <2>1, FreshKeeps DEF Next
<1>3. QED
  BY InitIInv, NextIInv, StutterKeeps, <1>1, <1>2, PTL DEF Spec

(* Whatever was being received, the byte after ESC begins a new sequence,  *)
(* but for the two cases the property names (tcontrolcode, eschandle).     *)
THEOREM EscapeBegins == Spec => EscapeStarts
<1>1. ASSUME IInv, FreshInv, Next, fresh, did'.byte \notin Controls, "START" \in esc, "UTF8" \notin esc
      PROVE  did'.what \in {"escape", "string"}
  <2>1. PICK b \in Bytes : Receive(b)
    BY <1>1 DEF Next
  <2>2. "STR" \notin esc /\ esc \cap {"CSI", "ALTCHARSET", "TEST"} = {}
    BY <1>1 DEF FreshInv
  <2>3. CASE Control(b)
    <3>1. b \in Controls /\ esc \in SUBSET Flags /\ tcontrolcode(b, esc)
      BY <1>1, <2>3 DEF Control, IInv, FlagsOK
    <3>2. did'.byte = b
      BY <3>1, ControlFlags
    <3>3. QED
      BY <1>1, <3>1, <3>2
  <2>4. CASE eschandle(b)
    BY <2>4 DEF eschandle, StrHandle, Did
  <2>5. ~StringEnds(b) /\ ~StringGrows(b) /\ ~CsiGrows(b) /\ ~OneByteMore(b) /\ ~PrintText(b)
    BY <1>1, <2>2 DEF StringEnds, StringGrows, CsiGrows, OneByteMore, PrintText
  <2>6. QED
    BY <2>1, <2>3, <2>4, <2>5 DEF Receive
<1>2. IInv /\ FreshInv /\ [Next]_vars
      => [fresh /\ did'.byte \notin Controls /\ "START" \in esc /\ "UTF8" \notin esc
          => did'.what \in {"escape", "string"}]_vars
  BY <1>1
<1>3. QED
  BY InitIInv, NextIInv, StutterKeeps, FreshAlways, <1>2, PTL DEF Spec, EscapeStarts

-----------------------------------------------------------------------------
(* A string is open from its introducer to the code that ends it, and not  *)
(* handled as long as the flags ask for its handling.                      *)
StringInv ==
  /\ told.open \in BOOLEAN /\ told.handled \in BOOLEAN
  /\ "STR" \in esc => told.open
  /\ "STR_END" \in esc /\ "STR" \notin esc => ~told.open
  /\ "STR" \in esc \/ "STR_END" \in esc => ~told.handled

(* Where a string may begin, and where it may be handled.                  *)
LEMMA StringSteps ==
  ASSUME IInv, FreshInv, NEW b \in Bytes, Receive(b)
  PROVE  /\ "STR" \in esc' => \/ "STR" \in esc /\ b \notin Interrupts /\ esc' = esc /\ did'.what # "string"
                              \/ /\ "STR" \notin esc /\ "START" \in esc /\ fresh
                                 /\ b \in StringIntroducers /\ did'.what # "string"
                                 /\ str' = [type |-> b, buf |-> <<>>, siz |-> StrSiz]
         /\ "STR_END" \in esc' /\ "STR" \notin esc'
              => /\ did'.what # "string"
                 /\ \/ "STR" \in esc /\ ~sixel /\ b \in Interrupts /\ str' = str
                    \/ /\ "STR_END" \in esc /\ "STR" \notin esc /\ str' = str
                       /\ b \in StringIntroducers => ~fresh
         /\ did'.what = "string"
              => /\ did'.body = str.buf /\ "STR" \notin esc' /\ "STR_END" \notin esc'
                 /\ \/ "STR" \in esc /\ ~sixel /\ b \in Interrupts
                    \/ "STR_END" \in esc /\ "STR" \notin esc
<1>1. esc \in SUBSET Flags /\ OneSequence
  BY DEF IInv, FlagsOK
<1>2. CASE StringEnds(b)
  <2>1. b \in Interrupts /\ b \in Controls /\ "STR" \in esc
    BY <1>2, EndFlags
  <2>2. CASE sixel /\ esc' = {} /\ did'.what = "ignored"
    BY <2>1, <2>2
  <2>3. CASE ~sixel /\ tcontrolcode(b, {"STR_END"})
    <3>1. {"STR_END"} \in SUBSET Flags
      BY DEF Flags
    <3>2. str' = str /\ "STR" \notin esc' /\ (did'.what = "string" => did'.body = str.buf /\ "STR_END" \notin esc')
      BY <2>1, <2>3, <3>1, ControlFlags DEF Controls, Interrupts
    <3>3. QED
      BY <2>1, <2>3, <3>2
  <2>4. QED
    BY <1>2, <2>2, <2>3, EndFlags
<1>3. CASE StringGrows(b)
  BY <1>3 DEF StringGrows, Did
<1>4. CASE Control(b)
  <2>1. "STR" \notin esc /\ b \in Controls /\ tcontrolcode(b, esc)
    BY <1>4 DEF Control
  <2>2. str' = str /\ "STR" \notin esc' /\ ("STR_END" \in esc' => "STR_END" \in esc /\ did'.what # "string")
    BY <1>1, <2>1, ControlFlags DEF Controls, Interrupts
  <2>3. did'.what = "string" => did'.body = str.buf /\ "STR_END" \in esc
    BY <1>1, <2>1, ControlFlags
  <2>4. b \notin StringIntroducers
    BY <2>1 DEF Controls, Interrupts, StringIntroducers
  <2>5. QED
    BY <2>1, <2>2, <2>3, <2>4
<1>5. CASE CsiGrows(b)
  <2>1. "STR" \notin esc /\ (esc' = {} \/ esc' = esc) /\ str' = str /\ did'.what # "string"
        /\ "CSI" \in esc /\ "START" \in esc
    BY <1>5 DEF CsiGrows, Sequence, Did
  <2>2. ~fresh
    BY <2>1 DEF FreshInv
  <2>3. QED
    BY <2>1, <2>2
<1>6. CASE OneByteMore(b)
  BY <1>6 DEF OneByteMore, Did
<1>7. CASE eschandle(b)
  <2>1. "STR" \notin esc /\ "START" \in esc /\ esc \cap Kinds = {}
    BY <1>7 DEF eschandle, AfterEscape, Sequence, Kinds
  <2>2. fresh
    BY <2>1 DEF FreshInv
  <2>3. CASE b \in Introducers /\ esc' = esc \cup {Introduced(b)} /\ Did(b, "escape", <<>>) /\ str' = str
    <3>1. Introduced(b) \notin {"STR", "STR_END"} /\ b \notin StringIntroducers
      BY <2>3 DEF Introducers, Introduced, StringIntroducers
    <3>2. QED
      BY <2>1, <2>3, <3>1 DEF Did
  <2>4. CASE /\ b \in StringIntroducers /\ esc' = esc \cup {"STR"} /\ Did(b, "escape", <<>>)
             /\ str' = [type |-> b, buf |-> <<>>, siz |-> StrSiz]
    BY <2>1, <2>2, <2>4 DEF Did
  <2>5. CASE "STR_END" \in esc /\ esc' = {} /\ Did(b, "string", str.buf)
    BY <2>1, <2>5 DEF Did
  <2>6. CASE esc' = {} /\ Did(b, "escape", <<>>)
    BY <2>6 DEF Did
  <2>7. QED
    BY <1>7, <2>3, <2>4, <2>5, <2>6 DEF eschandle, StrHandle
<1>8. CASE PrintText(b)
  <2>1. esc = {} /\ esc' = esc /\ did'.what # "string"
    BY <1>1, <1>8 DEF PrintText, parser, OneSequence, Did
  <2>2. QED
    BY <2>1
<1>9. QED
  BY <1>2, <1>3, <1>4, <1>5, <1>6, <1>7, <1>8 DEF Receive

(* What the sender's side records.                                         *)
LEMMA Told ==
  ASSUME NEW b \in Bytes, History(b), told.open \in BOOLEAN, told.handled \in BOOLEAN
  PROVE  LET starts == fresh /\ b \in StringIntroducers
         IN  /\ told'.open = (starts \/ (told.open /\ b \notin Interrupts))
             /\ told'.handled = (~starts /\ (told.handled \/ did'.what = "string"))
             /\ starts => told'.str = <<>>
             /\ ~starts => told'.str = IF told.open /\ b \notin Interrupts /\ Len(told.str) < Longest
                                       THEN Append(told.str, Kept(b)) ELSE told.str
  BY DEF History, StringIntroducers, Controls, Interrupts

LEMMA StringKeeps ==
  ASSUME IInv, FreshInv, StringInv, NEW b \in Bytes, Receive(b)
  PROVE  StringInv'
<1> DEFINE starts == fresh /\ b \in StringIntroducers
<1>1. /\ told'.open = (starts \/ (told.open /\ b \notin Interrupts))
      /\ told'.handled = (~starts /\ (told.handled \/ did'.what = "string"))
  BY Told DEF Receive, StringInv
<1>2. told'.open \in BOOLEAN /\ told'.handled \in BOOLEAN
  BY <1>1
<1>3. ASSUME "STR" \in esc' PROVE told'.open /\ ~told'.handled
  BY <1>1, <1>3, StringSteps DEF StringInv
<1>4. ASSUME "STR_END" \in esc', "STR" \notin esc' PROVE ~told'.open /\ ~told'.handled
  <2>1. b \in Interrupts => b \notin StringIntroducers
    BY DEF Interrupts, StringIntroducers
  <2>2. QED
    BY <1>1, <1>4, <2>1, StringSteps DEF StringInv
<1>5. QED
  BY <1>2, <1>3, <1>4 DEF StringInv

LEMMA StringAlways == Spec => [](IInv /\ FreshInv /\ StringInv)
<1>1. Init => StringInv
  BY DEF Init, StringInv
<1>2. IInv /\ FreshInv /\ StringInv /\ [Next]_vars => StringInv'
  <2>1. ASSUME StringInv, UNCHANGED vars PROVE StringInv'
    BY <2>1 DEF vars, parser, StringInv
  <2>2. QED
    BY <2>1, StringKeeps DEF Next
<1>3. QED
  BY InitIInv, NextIInv, StutterKeeps, FreshAlways, <1>1, <1>2, PTL DEF Spec

(* A string that was sent is handled once at most (strhandle).             *)
THEOREM StringsHandledOnce == Spec => HandledOnce
<1>1. IInv /\ FreshInv /\ StringInv /\ [Next]_vars => [did'.what = "string" => ~told.handled]_vars
  BY StringSteps DEF Next, StringInv
<1>2. QED
  BY StringAlways, <1>1, PTL DEF Spec, HandledOnce

-----------------------------------------------------------------------------
(* The buffers against what was sent.  While a string is received or its   *)
(* end awaited, its buffer holds all of it, or the buffer may not grow any *)
(* more and holds the beginning.                                           *)
Prefix(s, t) == Len(s) <= Len(t) /\ \A i \in 1..Len(s) : s[i] = t[i]

Body ==
  /\ Prefix(str.buf, told.str)
  /\ \/ str.buf = told.str
     \/ Len(told.str) > StrLimit /\ Full /\ str.siz > StrLimit

CsiInv ==
  /\ told.csi \in Seq({0, 1})
  /\ "START" \in esc /\ "CSI" \notin esc => csi = <<>>
  /\ "CSI" \in esc => "START" \in esc /\ csi = told.csi

BodyInv ==
  /\ told.str \in Seq({0, 1})
  /\ "STR" \in esc => str.siz <= Longest
  /\ ("STR" \in esc \/ "STR_END" \in esc) /\ ~sixel => Body

(* A CSI sequence's bytes, as they are sent.                               *)
LEMMA ToldCsi ==
  ASSUME NEW b \in Bytes, History(b)
  PROVE  told'.csi = IF (fresh /\ b = "[") \/ b \in {"CAN", "SUB"} THEN <<>>
                     ELSE IF b \in Controls \/ Len(told.csi) = CsiSiz THEN told.csi
                     ELSE Append(told.csi, Kept(b))
  BY DEF History, Controls, Interrupts

LEMMA CsiKeeps ==
  ASSUME IInv, FreshInv, CsiInv, NEW b \in Bytes, Receive(b)
  PROVE  CsiInv' /\ (did'.what = "csi" => did'.body = told'.csi)
<1>1. told'.csi = IF (fresh /\ b = "[") \/ b \in {"CAN", "SUB"} THEN <<>>
                  ELSE IF b \in Controls \/ Len(told.csi) = CsiSiz THEN told.csi
                  ELSE Append(told.csi, Kept(b))
  BY ToldCsi DEF Receive
<1>2. told'.csi \in Seq({0, 1})
  <2>1. told.csi \in Seq({0, 1}) /\ Append(told.csi, Kept(b)) \in Seq({0, 1})
    BY Longer DEF CsiInv
  <2>2. QED
    BY <1>1, <2>1
<1>3. esc \in SUBSET Flags /\ OneSequence
  BY DEF IInv, FlagsOK
<1>4. CASE StringEnds(b)
  <2>1. b \in Interrupts /\ b \in Controls /\ "STR" \in esc
    BY <1>4, EndFlags
  <2>2. CASE esc' = {} /\ did'.what = "ignored"
    BY <1>2, <2>2 DEF CsiInv
  <2>3. CASE tcontrolcode(b, {"STR_END"})
    <3>1. {"STR_END"} \in SUBSET Flags
      BY DEF Flags
    <3>2. "CSI" \notin esc' /\ ("START" \in esc' => csi' = <<>>) /\ did'.what # "csi"
      BY <2>1, <2>3, <3>1, ControlFlags DEF Controls, Interrupts
    <3>3. QED
      BY <1>2, <3>2 DEF CsiInv
  <2>4. QED
    BY <1>4, <2>2, <2>3, EndFlags
<1>5. CASE Control(b)
  <2>1. b \in Controls /\ tcontrolcode(b, esc)
    BY <1>5 DEF Control
  <2>2. did'.what # "csi"
    BY <1>3, <2>1, ControlFlags
  <2>3. CASE b = "ESC"
    <3>1. "CSI" \notin esc' /\ csi' = <<>>
      BY <1>3, <2>1, <2>3, ControlFlags
    <3>2. QED
      BY <1>2, <2>2, <3>1 DEF CsiInv
  <2>4. CASE b \in {"CAN", "SUB"}
    <3>1. csi' = <<>> /\ told'.csi = <<>> /\ ("CSI" \in esc' => "CSI" \in esc) /\ ("START" \in esc => "START" \in esc')
      BY <1>1, <1>3, <2>1, <2>4, ControlFlags
    <3>2. QED
      BY <1>2, <2>2, <3>1 DEF CsiInv
  <2>5. CASE b \in {"BEL", "LF"}
    <3>1. csi' = csi /\ told'.csi = told.csi /\ ("CSI" \in esc' <=> "CSI" \in esc) /\ ("START" \in esc <=> "START" \in esc')
      BY <1>1, <1>3, <2>1, <2>5, ControlFlags
    <3>2. QED
      BY <1>2, <2>2, <3>1 DEF CsiInv
  <2>6. QED
    BY <2>1, <2>3, <2>4, <2>5 DEF Controls, Interrupts
<1>6. CASE StringGrows(b)
  <2>1. csi' = csi /\ esc' = esc /\ did'.what # "csi" /\ "STR" \in esc
    BY <1>6 DEF StringGrows, Did
  <2>2. "CSI" \notin esc
    BY <1>3, <2>1 DEF OneSequence, Kinds
  <2>3. QED
    BY <1>2, <2>1, <2>2 DEF CsiInv
<1>7. CASE CsiGrows(b)
  <2>1. /\ b \notin Controls /\ "START" \in esc /\ "CSI" \in esc
        /\ csi' = Append(csi, Kept(b))
        /\ esc' = {} \/ esc' = esc
        /\ did'.what = "csi" => did'.body = csi'
    BY <1>7 DEF CsiGrows, Sequence, Did
  <2>2. ~fresh
    BY <2>1 DEF FreshInv
  <2>3. Len(told.csi) # CsiSiz /\ csi = told.csi
    BY <2>1, ParserAssumption DEF CsiInv, IInv, CsiOK
  <2>4. told'.csi = csi'
    BY <1>1, <2>1, <2>2, <2>3 DEF Controls, Interrupts
  <2>5. QED
    BY <1>2, <2>1, <2>4 DEF CsiInv
<1>8. CASE OneByteMore(b)
  BY <1>2, <1>8 DEF OneByteMore, CsiInv, Did
<1>9. CASE eschandle(b)
  <2>1. "START" \in esc /\ esc \cap Kinds = {} /\ "CSI" \notin esc /\ b \notin Controls
    BY <1>9 DEF eschandle, AfterEscape, Sequence, Kinds
  <2>2. fresh /\ csi = <<>>
    BY <2>1 DEF FreshInv, CsiInv
  <2>3. csi' = csi /\ did'.what # "csi"
    BY <1>9 DEF eschandle, StrHandle, Did
  <2>4. CASE b \in Introducers /\ esc' = esc \cup {Introduced(b)}
    <3>1. "CSI" \in esc' => b = "["
      BY <2>1, <2>4 DEF Introducers, Introduced
    <3>2. QED
      BY <1>1, <1>2, <2>1, <2>2, <2>3, <2>4, <3>1 DEF CsiInv
  <2>5. CASE esc' = esc \cup {"STR"} \/ esc' = {}
    BY <1>2, <2>1, <2>2, <2>3, <2>5 DEF CsiInv
  <2>6. QED
    BY <1>9, <2>4, <2>5 DEF eschandle, StrHandle
<1>10. CASE PrintText(b)
  <2>1. esc = {} /\ esc' = esc /\ did'.what # "csi"
    BY <1>3, <1>10 DEF PrintText, parser, OneSequence, Did
  <2>2. QED
    BY <1>2, <2>1 DEF CsiInv
<1>11. QED
  BY <1>4, <1>5, <1>6, <1>7, <1>8, <1>9, <1>10 DEF Receive

(* A byte more of the string: both sides take it, or the buffer is full    *)
(* for good.                                                               *)
LEMMA BodyGrows ==
  ASSUME IInv, StringInv, BodyInv, NEW b \in Bytes, StringGrows(b), ~sixel,
         told'.str = IF Len(told.str) < Longest THEN Append(told.str, Kept(b)) ELSE told.str
  PROVE  Body' /\ str'.siz <= Longest
<1> DEFINE s == str.buf
<1> DEFINE t == told.str
<1>1. /\ "STR" \in esc /\ Body /\ str.siz <= Longest /\ StrOK
      /\ s \in Seq({0, 1}) /\ t \in Seq({0, 1}) /\ str.siz \in Nat /\ Len(s) < str.siz
  BY DEF StringGrows, BodyInv, IInv, StrOK, FlagsOK
<1>2. Kept(b) \in {0, 1} /\ StrLimit \in Nat
  BY ParserAssumption DEF Kept
<1>3. Append(s, Kept(b)) \in Seq({0, 1}) /\ Len(Append(s, Kept(b))) = Len(s) + 1
  BY <1>1, Longer
<1>4. Append(t, Kept(b)) \in Seq({0, 1}) /\ Len(Append(t, Kept(b))) = Len(t) + 1
  BY <1>1, Longer
<1>5. CASE Full /\ str.siz > StrLimit
  <2>1. str' = str
    BY <1>5 DEF StringGrows, Dropped
  <2>2. t' = t \/ t' = Append(t, Kept(b))
    OBVIOUS
  <2>3. Prefix(s, t')
    <3>1. \A i \in 1..Len(t) : Append(t, Kept(b))[i] = t[i]
      BY <1>1
    <3>2. QED
      BY <1>1, <1>4, <2>2, <3>1 DEF Body, Prefix
  <2>4. Len(t') > StrLimit
    BY <1>1, <1>2, <1>4, <1>5 DEF Body, Full, Longest
  <2>5. QED
    BY <1>1, <1>5, <2>1, <2>3, <2>4 DEF Body, Full
<1>6. CASE ~(Full /\ str.siz > StrLimit)
  <2>1. s = t
    BY <1>1, <1>6 DEF Body
  <2>2. Len(t) < Longest
    BY <1>1, <1>2, <2>1 DEF Longest
  <2>3. str' = [type |-> str.type, buf |-> Append(s, Kept(b)), siz |-> IF Full THEN 2 * str.siz ELSE str.siz]
    BY <1>1, <1>6 DEF StringGrows, Dropped, StrOK
  <2>4. str'.buf = t' /\ t' \in Seq({0, 1})
    BY <1>4, <2>1, <2>2, <2>3
  <2>5. str'.siz <= Longest
    BY <1>1, <1>2, <1>6, <2>3 DEF Longest
  <2>6. QED
    BY <2>4, <2>5 DEF Body, Prefix
<1>7. QED
  BY <1>5, <1>6

LEMMA BodyKeeps ==
  ASSUME StrSiz <= Longest, IInv, FreshInv, StringInv, BodyInv, NEW b \in Bytes, Receive(b)
  PROVE  BodyInv'
<1> DEFINE starts == fresh /\ b \in StringIntroducers
<1>1. /\ starts => told'.str = <<>>
      /\ ~starts => told'.str = IF told.open /\ b \notin Interrupts /\ Len(told.str) < Longest
                                THEN Append(told.str, Kept(b)) ELSE told.str
  BY Told DEF Receive, StringInv
<1>2. told'.str \in Seq({0, 1})
  <2>1. told.str \in Seq({0, 1}) /\ Append(told.str, Kept(b)) \in Seq({0, 1})
    BY Longer DEF BodyInv
  <2>2. told'.str \in {<<>>, told.str, Append(told.str, Kept(b))}
    BY <1>1, Zenon
  <2>3. <<>> \in Seq({0, 1})
    OBVIOUS
  <2>4. QED
    BY <2>1, <2>2, <2>3
<1>3. CASE "STR" \in esc /\ "STR" \in esc'
  <2>1. StringGrows(b)
    BY <1>3, StringSteps DEF Receive, StringEnds, Control, CsiGrows, OneByteMore, eschandle,
                             AfterEscape, PrintText, Sequence
  <2>2. "STR" \in esc /\ b \notin Interrupts /\ UNCHANGED <<esc, sixel>>
    BY <2>1 DEF StringGrows
  <2>3. ~starts
    BY <2>2 DEF FreshInv, IInv, FlagsOK, OneSequence
  <2>4. told'.str = IF Len(told.str) < Longest THEN Append(told.str, Kept(b)) ELSE told.str
    BY <1>1, <2>2, <2>3 DEF StringInv
  <2>5. CASE sixel
    BY <1>2, <2>1, <2>2, <2>5 DEF StringGrows, Dropped, BodyInv
  <2>6. CASE ~sixel
    BY <1>2, <2>1, <2>2, <2>4, <2>6, BodyGrows DEF BodyInv
  <2>7. QED
    BY <2>5, <2>6
<1>4. CASE "STR" \notin esc /\ "STR" \in esc'
  <2>1. starts /\ str' = [type |-> b, buf |-> <<>>, siz |-> StrSiz]
    BY <1>4, StringSteps
  <2>2. told'.str = <<>> /\ str'.buf = <<>> /\ str'.siz <= Longest
    BY <1>1, <2>1
  <2>3. QED
    BY <1>2, <2>2 DEF BodyInv, Body, Prefix
<1>5. CASE "STR_END" \in esc' /\ "STR" \notin esc'
  <2>1. str' = str /\ ~sixel /\ ~starts
    <3>1. \/ "STR" \in esc /\ ~sixel /\ b \in Interrupts /\ str' = str
          \/ "STR_END" \in esc /\ "STR" \notin esc /\ str' = str /\ (b \in StringIntroducers => ~fresh)
      BY <1>5, StringSteps
    <3>2. b \in Interrupts => b \notin StringIntroducers
      BY DEF Interrupts, StringIntroducers
    <3>3. QED
      BY <3>1, <3>2 DEF IInv, FlagsOK, OneSequence
  <2>2. told'.str = told.str /\ Body
    BY <1>1, <1>5, <2>1, StringSteps DEF StringInv, BodyInv
  <2>3. QED
    BY <1>2, <1>5, <2>1, <2>2 DEF BodyInv, Body, Full
<1>6. CASE "STR" \notin esc' /\ "STR_END" \notin esc'
  BY <1>2, <1>6 DEF BodyInv
<1>7. QED
  BY <1>3, <1>4, <1>5, <1>6

(* Cut, nested and interrupted in any way, a sequence that is handled has  *)
(* the bytes that were sent for it, and no other (csihandle, strhandle).   *)
(* The sizes are those of the code: STR_BUF_SIZ is far below the limit.    *)
THEOREM SequencesWhole == ASSUME StrSiz <= Longest PROVE Spec => WholeSequence
<1>1. Init => CsiInv /\ BodyInv
  BY DEF Init, CsiInv, BodyInv
<1>2. IInv /\ FreshInv /\ StringInv /\ CsiInv /\ BodyInv /\ [Next]_vars => CsiInv' /\ BodyInv'
  <2>1. ASSUME CsiInv, BodyInv, UNCHANGED vars PROVE CsiInv' /\ BodyInv'
    BY <2>1 DEF vars, parser, CsiInv, BodyInv, Body, Full
  <2>2. QED
    BY <2>1, CsiKeeps, BodyKeeps DEF Next
<1>3. ASSUME IInv, FreshInv, StringInv, CsiInv, BodyInv, Next
      PROVE  /\ did'.what = "csi" => did'.body = told'.csi
             /\ did'.what = "string" => /\ Beginning(did'.body, told.str)
                                        /\ Len(told.str) <= StrLimit => did'.body = told.str
  <2>1. PICK b \in Bytes : Receive(b)
    BY <1>3 DEF Next
  <2>2. did'.what = "csi" => did'.body = told'.csi
    BY <1>3, <2>1, CsiKeeps
  <2>3. ASSUME did'.what = "string"
        PROVE  /\ Beginning(did'.body, told.str)
               /\ Len(told.str) <= StrLimit => did'.body = told.str
    <3>1. did'.body = str.buf /\ Body
      BY <1>3, <2>1, <2>3, StringSteps DEF BodyInv, IInv, FlagsOK, OneSequence
    <3>2. /\ str.buf \in Seq({0, 1}) /\ told.str \in Seq({0, 1})
          /\ Len(str.buf) \in Nat /\ Len(told.str) \in Nat /\ StrLimit \in Nat
      BY <1>3, ParserAssumption DEF BodyInv, IInv, StrOK
    <3>3. str.buf = SubSeq(told.str, 1, Len(str.buf))
      BY <3>1, <3>2 DEF Body, Prefix
    <3>4. QED
      BY <3>1, <3>2, <3>3 DEF Body, Prefix, Beginning
  <2>4. QED
    BY <2>2, <2>3
<1>4. IInv /\ FreshInv /\ StringInv /\ CsiInv /\ BodyInv /\ [Next]_vars
      => [/\ did'.what = "csi" => did'.body = told'.csi
          /\ did'.what = "string" => /\ Beginning(did'.body, told.str)
                                     /\ Len(told.str) <= StrLimit => did'.body = told.str]_vars
  BY <1>3
<1>5. QED
  BY StringAlways, <1>1, <1>2, <1>4, PTL DEF Spec, WholeSequence
=============================================================================
