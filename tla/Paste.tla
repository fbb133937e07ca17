------------------------------ MODULE Paste ------------------------------
(***************************************************************************)
(* Pasting (src/src/xclipboard.c): clippaste and selpaste ask the owner of *)
(* a selection for its text; selnotify receives it through a property of   *)
(* the window, whole or as an INCR transfer in pieces, converts it to the  *)
(* terminal's character set and hands it to ttywrite, between brackets if  *)
(* the program asked for them.  The owner is another client or slterm      *)
(* itself (setsel, clipcopy, selrequest).  Between two calls of ttywrite   *)
(* the program's output may be parsed, so it may switch modes there.       *)
(*                                                                         *)
(* slterm is one translation unit (slterm_src.c), and IS_SET is redefined  *)
(* in it: down to xclipboard.c it tests term->mode, from xwindow.c on      *)
(* twin.mode.  A mode is the number of its bit, a mode word a set of bits. *)
(*                                                                         *)
(* Text travels as "a", "nl" and the two bytes "lead", "cont" of a         *)
(* character in UTF-8, which is "u" in the terminal.  Characters of three  *)
(* and four bytes, those the charmap lacks and malformed UTF-8 are left    *)
(* out.  The requests of one call of selnotify reach the server together.  *)
(***************************************************************************)
EXTENDS Integers, SequencesExt

CONSTANTS
  Texts,      (* the texts that are pasted, in UTF-8                        *)
  Owned,      (* the texts selected in slterm, in its character set         *)
  Chunk,      (* BUFSIZ: what XGetWindowProperty returns at once            *)
  MaxActs     (* bound: what users do, here and elsewhere, and the program  *)

Bytes == {"a", "nl", "lead", "cont"}
Chars == {"a", "nl", "u"}

ASSUME PasteAssumption == Chunk \in Nat \ {0} /\ MaxActs \in Nat
ASSUME TextsAssumption == /\ \A t \in Texts : t \in Seq(Bytes)
                          /\ \A t \in Owned : t \in Seq(Chars)

VARIABLES
  owner,     \* [selection -> who owns it, as the server knows]
  mine,      \* xsel.primary and xsel.clipboard, or NoText
  other,     \* the other client: [selection -> what it still has to send]
  prop,      \* [selection -> the property of slterm's window named after it]
  events,    \* the events for slterm's window, in order
  mask,      \* PropertyChangeMask is set in the window's event mask
  call,      \* the progress of selnotify
  termmode,  \* term->mode
  winmode,   \* twin.mode
  sent,      \* history: what ttywrite was given since the last paste began
  text,      \* history: the text of the last paste
  alone,     \* history: no paste began before the one before was over
  acts       \* the acts so far: pastes, keys, selections, switched modes

modes   == <<termmode, winmode>>
history == <<sent, text, alone, acts>>
vars == <<owner, mine, other, prop, events, mask, call, modes, history>>

Sels   == {"PRIMARY", "CLIPBOARD"}
NoText == [t |-> "null"]
Text(s) == [t |-> "text", s |-> s]
None   == [t |-> "none"]
Incr   == [t |-> "incr"]
MODE_CRLF       == 3      \* in term->mode
MODE_MOUSEBTN   == 3      \* in twin.mode
MODE_BRCKTPASTE == 16     \* in twin.mode
Returned == [at |-> "out"]
Event(k, sel) == [k |-> k, sel |-> sel]
Noted(h) == IF alone THEN h ELSE <<>>     \* the histories end with alone

Init ==
  /\ owner \in [Sels -> {"none", "other"}] /\ mine = [s \in Sels |-> NoText]
  /\ other = [s \in Sels |-> [st |-> "idle", s |-> <<>>]]
  /\ prop = [s \in Sels |-> None] /\ events = <<>> /\ mask = FALSE
  /\ call = Returned
  /\ termmode = {} /\ winmode = {}
  /\ sent = <<>> /\ text = <<>> /\ alone = TRUE
  /\ acts = 0

----------------------------------------------------------------------------
(* from_utf8: two bytes of a character next to each other become one;      *)
(* anything else, also a byte whose other half is not in this chunk, is    *)
(* copied.  (Its branches for three and four bytes are not needed for the  *)
(* texts here.)  selnotify first turns every newline into a carriage       *)
(* return.                                                                 *)
from_utf8(s) ==
  LET starts(k) == s[k] = "lead" /\ k < Len(s) /\ s[k + 1] = "cont"
      ends(k)   == k > 1 /\ starts(k - 1)
  IN FlattenSeq([k \in DOMAIN s |->
       CASE ends(k)      -> <<>>
         [] starts(k)    -> <<"u">>
         [] s[k] = "nl"  -> <<"cr">>
         [] OTHER        -> <<s[k]>>])

to_utf8(s) == FlattenSeq([k \in DOMAIN s |-> IF s[k] = "u" THEN <<"lead", "cont">> ELSE <<s[k]>>])

(* ttywrite sends a carriage return as two bytes if the bit of MODE_CRLF   *)
(* is set, in tty.c that of twin.mode.                                     *)
ttywrite(s) ==
  IF MODE_CRLF \in winmode THEN FlattenSeq([k \in DOMAIN s |-> IF s[k] = "cr" THEN <<"cr", "lf">> ELSE <<s[k]>>])
  ELSE s

----------------------------------------------------------------------------
Act == acts < MaxActs /\ acts' = acts + 1
Underway == events # <<>> \/ call # Returned \/ \E s \in Sels : other[s].st # "idle"

(* The property changes, and the window is told if its mask asks for it.   *)
Changed(sel, value, notify) ==
  /\ prop' = [prop EXCEPT ![sel] = value]
  /\ events' = events \o (IF mask THEN <<Event(IF value = None THEN "deleted" ELSE "newvalue", sel)>>
                          ELSE <<>>) \o notify
Answered(sel) == <<Event("selection", sel)>>

(* clippaste and selpaste, by a key or the middle button: XConvertSelection *)
(* goes to the owner.  The same selection is not asked for twice at once.  *)
RequestPaste(sel) ==
  /\ call = Returned /\ Act
  /\ other[sel].st = "idle" /\ \A k \in DOMAIN events : events[k].sel # sel
  /\ \/ /\ owner[sel] = "none"
        /\ events' = Append(events, Event("refused", sel)) /\ UNCHANGED other
     \/ /\ owner[sel] = "us"
        /\ events' = Append(events, Event("request", sel)) /\ UNCHANGED other
     \/ /\ owner[sel] = "other"
        /\ other' = [other EXCEPT ![sel].st = "asked"] /\ UNCHANGED events
  /\ sent' = <<>> /\ text' = <<>>
  /\ alone' = (alone /\ ~Underway)
  /\ UNCHANGED <<owner, mine, prop, mask, call, modes>>

(* The other client answers: with nothing, with the text, or with INCR.    *)
Refuse(sel) ==
  /\ other[sel].st = "asked"
  /\ other' = [other EXCEPT ![sel].st = "idle"]
  /\ events' = Append(events, Event("refused", sel))
  /\ UNCHANGED <<owner, mine, prop, mask, call, modes, history>>

SendWhole(sel, s) ==
  /\ other[sel].st = "asked"
  /\ other' = [other EXCEPT ![sel].st = "idle"]
  /\ Changed(sel, Text(s), Answered(sel))
  /\ text' = Noted(s)
  /\ UNCHANGED <<owner, mine, mask, call, modes, sent, alone, acts>>

StartIncr(sel, s) ==
  /\ other[sel].st = "asked"
  /\ other' = [other EXCEPT ![sel] = [st |-> "sending", s |-> s]]
  /\ Changed(sel, Incr, Answered(sel))
  /\ text' = Noted(s)
  /\ UNCHANGED <<owner, mine, mask, call, modes, sent, alone, acts>>

(* When the property has been deleted the next piece follows, at last one  *)
(* of no length.                                                           *)
SendPiece(sel, n) ==
  /\ other[sel].st = "sending" /\ prop[sel] = None
  /\ n <= Len(other[sel].s) /\ (n = 0 => other[sel].s = <<>>)
  /\ other' = [other EXCEPT ![sel] = [st |-> IF n = 0 THEN "idle" ELSE "sending",
                                      s  |-> SubSeq(@.s, n + 1, Len(@.s))]]
  /\ Changed(sel, Text(SubSeq(other[sel].s, 1, n)), <<>>)
  /\ UNCHANGED <<owner, mine, mask, call, modes, history>>

OtherTakes(sel) ==
  /\ Act
  /\ owner[sel] # "other" /\ owner' = [owner EXCEPT ![sel] = "other"]
  /\ UNCHANGED <<mine, other, prop, events, mask, call, modes, sent, text, alone>>

(* setsel with the text selected: both selections become slterm's; the     *)
(* first only if its owner did not take it after the mouse event.          *)
setsel(s) ==
  /\ call = Returned /\ Act
  /\ mine' = [x \in Sels |-> Text(s)]
  /\ owner' \in {[x \in Sels |-> "us"], [owner EXCEPT !["CLIPBOARD"] = "us"]}
  /\ UNCHANGED <<other, prop, events, mask, call, modes, sent, text, alone>>

(* clipcopy alone, by its key.                                             *)
clipcopy ==
  /\ call = Returned /\ Act
  /\ mine' = [mine EXCEPT !["CLIPBOARD"] = mine["PRIMARY"]]
  /\ owner' = IF mine["PRIMARY"] = NoText THEN owner ELSE [owner EXCEPT !["CLIPBOARD"] = "us"]
  /\ UNCHANGED <<other, prop, events, mask, call, modes, sent, text, alone>>

----------------------------------------------------------------------------
Pop(k) == call = Returned /\ events # <<>> /\ Head(events).k = k

(* selrequest, for a paste of slterm's own text into itself.               *)
selrequest ==
  /\ Pop("request")
  /\ LET sel == Head(events).sel
         s   == to_utf8(mine[sel].s)
     IN IF mine[sel] = NoText
        THEN /\ events' = Append(Tail(events), Event("refused", sel))
             /\ UNCHANGED <<prop, text>>
        ELSE /\ prop' = [prop EXCEPT ![sel] = Text(s)]
             /\ events' = Tail(events) \o (IF mask THEN <<Event("newvalue", sel)>> ELSE <<>>)
                                       \o Answered(sel)
             /\ text' = Noted(s)
  /\ UNCHANGED <<owner, mine, other, mask, call, modes, sent, alone, acts>>

(* selnotify without a property, and propnotify for a deleted one, return. *)
Ignore ==
  /\ Pop("refused") \/ Pop("deleted")
  /\ events' = Tail(events)
  /\ UNCHANGED <<owner, mine, other, prop, mask, call, modes, history>>

(* selnotify is called, by a SelectionNotify or, through propnotify, by    *)
(* the PropertyNotify of a new value.                                      *)
Enter ==
  /\ Pop("selection") \/ Pop("newvalue")
  /\ call' = [at |-> "get", ev |-> Head(events).k, sel |-> Head(events).sel,
              ofs |-> 0, data |-> <<>>, rem |-> 0]
  /\ events' = Tail(events)
  /\ UNCHANGED <<owner, mine, other, prop, mask, modes, history>>

Value == prop[call.sel]
Whole == IF Value.t = "text" THEN Value.s ELSE <<>>

(* Leaving selnotify, the property is deleted: the signal for the next     *)
(* piece.                                                                  *)
Leave(m) ==
  /\ prop' = [prop EXCEPT ![call.sel] = None]
  /\ events' = IF m /\ Value # None THEN Append(events, Event("deleted", call.sel)) ELSE events
  /\ call' = Returned

BeginIncrMut ==                 \* mutant: no PropertyNotify events are asked for
  /\ call.at = "get" /\ Value = Incr
  /\ Leave(mask)
  /\ UNCHANGED <<owner, mine, other, mask, modes, history>>

(* An INCR property: from now on PropertyNotify events are wanted.         *)
BeginIncr ==
  /\ call.at = "get" /\ Value = Incr
  /\ mask' = TRUE
  /\ Leave(TRUE)
  /\ UNCHANGED <<owner, mine, other, modes, history>>

GetChunkMut ==                  \* mutant: the mask stays on at the end
  /\ call.at = "get" /\ Value # Incr
  /\ LET n == Len(Whole) - call.ofs
         d == SubSeq(Whole, call.ofs + 1, call.ofs + (IF n < Chunk THEN n ELSE Chunk))
     IN call' = [call EXCEPT !.at = "start", !.data = d, !.rem = n - Len(d)]
  /\ UNCHANGED <<owner, mine, other, prop, events, mask, modes, history>>

GetChunkMutAll ==               \* mutant: returns the whole property, not a chunk
  /\ call.at = "get" /\ Value # Incr
  /\ LET n == Len(Whole) - call.ofs
         d == SubSeq(Whole, call.ofs + 1, Len(Whole))
     IN /\ call' = [call EXCEPT !.at = "start", !.data = d, !.rem = 0]
        /\ mask' = (mask /\ ~(call.ev = "newvalue" /\ n = 0))
  /\ UNCHANGED <<owner, mine, other, prop, events, modes, history>>

(* XGetWindowProperty returns a chunk.  A PropertyNotify without any data  *)
(* ends an INCR transfer.                                                  *)
GetChunk ==
  /\ call.at = "get" /\ Value # Incr
  /\ LET n == Len(Whole) - call.ofs
         d == SubSeq(Whole, call.ofs + 1, call.ofs + (IF n < Chunk THEN n ELSE Chunk))
     IN /\ call' = [call EXCEPT !.at = "start", !.data = d, !.rem = n - Len(d)]
        /\ mask' = (mask /\ ~(call.ev = "newvalue" /\ n = 0))
  /\ UNCHANGED <<owner, mine, other, prop, events, modes, history>>

StartBracket ==
  /\ call.at = "start"
  /\ sent' = IF MODE_BRCKTPASTE \in termmode /\ call.ofs = 0 THEN Noted(Append(sent, "start")) ELSE sent
  /\ call' = [call EXCEPT !.at = "data"]
  /\ UNCHANGED <<owner, mine, other, prop, events, mask, modes, text, alone, acts>>

WriteData ==
  /\ call.at = "data"
  /\ sent' = Noted(sent \o ttywrite(from_utf8(call.data)))
  /\ call' = [call EXCEPT !.at = "end"]
  /\ UNCHANGED <<owner, mine, other, prop, events, mask, modes, text, alone, acts>>

EndBracketMutOfs ==             \* mutant: the next chunk is read a unit too far
  /\ call.at = "end"
  /\ sent' = IF MODE_BRCKTPASTE \in termmode /\ call.rem = 0 THEN Noted(Append(sent, "end")) ELSE sent
  /\ IF call.rem > 1
     THEN /\ call' = [call EXCEPT !.at = "get", !.ofs = @ + Len(call.data) + 1]
          /\ UNCHANGED <<prop, events>>
     ELSE Leave(mask)
  /\ UNCHANGED <<owner, mine, other, mask, modes, text, alone, acts>>

EndBracket ==
  /\ call.at = "end"
  /\ sent' = IF MODE_BRCKTPASTE \in termmode /\ call.rem = 0 THEN Noted(Append(sent, "end")) ELSE sent
  /\ IF call.rem > 0
     THEN /\ call' = [call EXCEPT !.at = "get", !.ofs = @ + Len(call.data)]
          /\ UNCHANGED <<prop, events>>
     ELSE Leave(mask)
  /\ UNCHANGED <<owner, mine, other, mask, modes, text, alone, acts>>

selnotify == Enter \/ BeginIncr \/ GetChunk \/ StartBracket \/ WriteData \/ EndBracket

(* The user presses Return; the program switches bracketed paste (2004),   *)
(* newline mode (20) or mouse reports (1000).                              *)
Return ==
  /\ call = Returned /\ Act
  /\ sent' = Noted(sent \o ttywrite(<<"key", "cr">>))
  /\ UNCHANGED <<owner, mine, other, prop, events, mask, call, modes, text, alone>>

Switch(word, bit) == IF bit \in word THEN word \ {bit} ELSE word \cup {bit}
tsetmode ==
  /\ Act
  /\ \/ /\ winmode' \in {Switch(winmode, MODE_BRCKTPASTE), Switch(winmode, MODE_MOUSEBTN)}
        /\ UNCHANGED termmode
     \/ /\ termmode' = Switch(termmode, MODE_CRLF)
        /\ UNCHANGED winmode
  /\ UNCHANGED <<owner, mine, other, prop, events, mask, call, sent, text, alone>>

Handlers == selrequest \/ Ignore \/ selnotify
Answers(sel) ==
  \/ Refuse(sel) \/ \E s \in Texts : SendWhole(sel, s) \/ StartIncr(sel, s)
  \/ \E n \in 0 .. Len(other[sel].s) : SendPiece(sel, n)

Next ==
  \/ Handlers \/ Return \/ tsetmode \/ clipcopy
  \/ \E sel \in Sels : RequestPaste(sel) \/ Answers(sel) \/ OtherTakes(sel)
  \/ \E s \in Owned : setsel(s)

(* Events that have come are handled; an owner that was asked answers and  *)
(* goes on with what it began.                                             *)
Fairness == WF_vars(Handlers) /\ \A sel \in Sels : WF_vars(Answers(sel))
Spec     == Init /\ [][Next]_vars
FairSpec == Spec /\ Fairness

----------------------------------------------------------------------------
Tokens == {"a", "nl", "lead", "cont", "u", "cr", "lf", "start", "end", "key"}

(* Types.                                                                  *)
TypeOK ==
  /\ owner \in [Sels -> {"none", "us", "other"}]
  /\ \A x \in Sels : mine[x] = NoText \/ \E s \in Owned : mine[x] = Text(s)
  /\ \A x \in Sels : other[x].st \in {"idle", "asked", "sending"}
  /\ \A x \in Sels : prop[x].t \in {"none", "incr", "text"}
  /\ \A k \in DOMAIN events : events[k].sel \in Sels
  /\ mask \in BOOLEAN /\ termmode \subseteq 0 .. 20 /\ winmode \subseteq 0 .. 20
  /\ \A k \in DOMAIN sent : sent[k] \in Tokens
  /\ call # Returned => Len(call.data) <= Chunk /\ call.rem >= 0

(* The bytes of the text that were handed to ttywrite.                     *)
Typed(s, k) == k > 1 /\ s[k - 1] = "key"
Undone(s) ==
  FlattenSeq([k \in DOMAIN s |->
    CASE s[k] = "u"  -> <<"lead", "cont">>
      [] s[k] = "cr" -> IF Typed(s, k) THEN <<>> ELSE <<"nl">>
      [] s[k] \in {"lf", "start", "end", "key"} -> <<>>
      [] OTHER -> <<s[k]>>])

(* A paste delivers its text once, whole and in order, whatever chunks and *)
(* pieces it comes in and whatever the user does meanwhile (selnotify's    *)
(* loop over rem and ofs, and its deletions of the property).              *)
NothingLost ==
  alone => /\ IsPrefix(Undone(sent), text)
           /\ ~Underway => Undone(sent) = text

(* After the last paste the window no longer asks for property events      *)
(* ("We won't need to receive PropertyNotify events anymore").             *)
MaskOff == alone /\ ~Underway => ~mask

(* A paste comes to its end, if no other one begins meanwhile.             *)
PasteEnds == Underway ~> (~Underway \/ ~alone)

(* What is sent obeys the modes the program set: a paste begins with a     *)
(* bracket in mode 2004, and a line feed follows a carriage return in      *)
(* mode 20 only (tsetmode: "2004: bracketed paste mode", "LNM").           *)
ModesObeyed ==
  [][/\ StartBracket /\ alone /\ call.ofs = 0 =>
          (Len(sent') > Len(sent) <=> MODE_BRCKTPASTE \in winmode)
     /\ Return /\ alone =>
          (sent'[Len(sent')] = "lf" <=> MODE_CRLF \in termmode)]_vars
=============================================================================
