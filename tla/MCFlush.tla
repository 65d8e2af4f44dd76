------------------------------- MODULE MCFlush ------------------------------
(***************************************************************************)
(* The instances of MCUblk with the history of FlushHistory.               *)
(***************************************************************************)
EXTENDS MCUblk, FlushHistory
=============================================================================
