------------------------- MODULE MCPropertyTransport ------------------------
EXTENDS PropertyTransport

\* Messages that travel in the event, and of one and two words too many.
MCLengths == {4, 8, 12}
=============================================================================
