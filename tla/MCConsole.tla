------------------------------- MODULE MCConsole -------------------------------
EXTENDS Console

CONSTANTS o, o2, b1, h1, h2, d
=============================================================================
