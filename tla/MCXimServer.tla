---------------------------- MODULE MCXimServer -----------------------------
EXTENDS XimServer, TLC

CONSTANTS c1, c2

Down(sym) == [press |-> TRUE, sym |-> sym, mods |-> FALSE]
Up(sym)   == [press |-> FALSE, sym |-> sym, mods |-> FALSE]

\* A letter, a key that ends the word, a backspace, and a key let go.
MCKeyboard == {Down("letter"), Down("other"), Down("BackSpace"), Up("letter")}

\* With Shift, which passes a word by.
MCKeyboardShift == MCKeyboard \cup {Down("Shift_L")}

\* The two clients are alike.
Swap == Permutations({c1, c2})
=============================================================================
