----------------------------- MODULE MCKeyboard -----------------------------
EXTENDS Keyboard

\* All tables of four bindings of up to three keysyms, told apart by their
\* functions' names; every order of equal and different keysyms is among them.
MCSmall == {[i \in 1..4 |-> Bind(AnyMod, ks[i], <<"f", "g", "h", "i">>[i], ALLMODES)]
              : ks \in [1..4 -> {32, 113, ALL_KEYS}]}

MCTables == {shortcuts} \cup MCSmall

MCShortcuts == {shortcuts}

MCStates == {{}, SHIFT, CONTROL, ALT, TERMMOD, SETBOOKMARKMASK, ALT \cup SHIFT,
             CONTROL \cup WIN, TERMMOD \cup ALT \cup WIN, SHIFT \cup {"Num"}}
=============================================================================
