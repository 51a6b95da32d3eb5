---------------------------- MODULE MCReadLines -----------------------------
EXTENDS ReadLines

CONSTANTS a, b, nl

MCByte == {a, b, nl}

=============================================================================
