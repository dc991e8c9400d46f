----------------------------- MODULE MCService ------------------------------
EXTENDS Service

CONSTANTS s1, s2

\* The second application runs on a machine of the other byte order.
MCOrderOf == [s \in Apps |-> IF s = s2 THEN "B" ELSE "l"]
=============================================================================
