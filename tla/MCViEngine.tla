----------------------------- MODULE MCViEngine -----------------------------
EXTENDS ViEngine, TLC

\* SetInputEngine may change the table between any two keys.  No key is in both.
MCRules == TelexRules @@ VNIRules

\* Letters that meet in rules, the keys of Telex, a key that is none, and the
\* digits of VNI, which become letters when they do not apply.
MCKeys == {"u", "o", "a", "d", "w", "s", ".", "2", "6", "7"}
=============================================================================
