----------------------------- MODULE MCPaste -----------------------------
(* Paste with a text of three characters, one of two bytes that the end of *)
(* a chunk of two cuts, an empty one, and one selected in slterm.          *)
EXTENDS Paste

MCTexts == {<<>>, <<"a", "lead", "cont", "nl">>}
MCOwned == {<<"u", "nl", "a">>}
=============================================================================
