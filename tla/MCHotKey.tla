------------------------------ MODULE MCHotKey ------------------------------
EXTENDS HotKey

MCKeyboard == {"Control_L", "Shift_L", "Alt_L", "z", "letter", "BackSpace"}
=============================================================================
