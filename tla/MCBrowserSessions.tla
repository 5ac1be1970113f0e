------------------------- MODULE MCBrowserSessions -------------------------
EXTENDS BrowserSessions, TLC

CONSTANTS b1, q1, q2

MCBrowsers == {b1}
MCRequests == {q1, q2}
MCKeys     == 1..5
\* Requests are interchangeable.
Symmetry   == Permutations(MCRequests)
=============================================================================
