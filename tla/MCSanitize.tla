----------------------------- MODULE MCSanitize -----------------------------
(* Every small size of a target, with blocks of one to four bytes.         *)
EXTENDS Sanitize

CONSTANTS LargestTarget, LargestBlock

EverySize == 0 .. LargestTarget

EveryBlockSize == 1 .. LargestBlock
=============================================================================
