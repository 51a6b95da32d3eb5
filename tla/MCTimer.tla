------------------------------ MODULE MCTimer ------------------------------
EXTENDS Timer
=============================================================================
