---------------------------- MODULE MCSharedRead ----------------------------
EXTENDS SharedRead

CONSTANTS r1, r2, f1, f2

MCReaders == {r1, r2}
MCFlights == {f1, f2}
=============================================================================
