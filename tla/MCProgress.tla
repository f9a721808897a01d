----------------------------- MODULE MCProgress -----------------------------
\* The constants of Progress that are functions.
EXTENDS Progress

CONSTANTS a1, a2, a3

\* A portfolio run takes one slot, the other jobs take two.
SlotsOf == [b |-> 2, r |-> 2, p |-> 1]
=============================================================================
