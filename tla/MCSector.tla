------------------------------- MODULE MCSector ------------------------------
(* A small instance of SectorRoundTrip: every sector, every pair of LBAs.  *)
EXTENDS SectorRoundTrip, Bitwise

XorTable == [a, b \in 0 .. WordMod - 1 |-> a ^^ b]

MCXor(a, b) == XorTable[a, b]

MCKeystream == [i \in 0 .. WordsPerSector - 1 |-> (2 * i + 3) % WordMod]
=============================================================================
