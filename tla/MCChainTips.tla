----------------------------- MODULE MCChainTips -----------------------------
(* Two workers and the dashboard over two headers, with room for one failure *)
(* and one value, so that both stores evict.                                 *)
EXTENDS ChainTips

CONSTANTS k1, k2, w1, w2, d

MCKeys == {k1, k2}
MCWorkers == {w1, w2}
MCReaders == {w1, w2, d}
MCReads == 1..3
MCFlights == 1..3
MCTips == {<<k1, k2>>}
=============================================================================
