---------------------------- MODULE MCManagement ----------------------------
(* Two tabs of one browser; the second one may be closed.                  *)
EXTENDS Management

CONSTANTS t1, t2
MCTabs == {t1, t2}
MCMayClose == {t2}
=============================================================================
