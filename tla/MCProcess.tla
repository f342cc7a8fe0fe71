----------------------------- MODULE MCProcess -----------------------------
EXTENDS Process

CONSTANTS m1, m2, m3, m4

MCMm == {m1, m2, m3, m4}
=============================================================================
