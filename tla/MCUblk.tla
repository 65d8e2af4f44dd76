------------------------------- MODULE MCUblk -------------------------------
(***************************************************************************)
(* Small instances of UblkTarget for TLC: a target of one sector before    *)
(* the payload, the payload, and one sector behind it.                     *)
(***************************************************************************)
EXTENDS UblkRefinement, Bitwise

CONSTANT Stamps \* told apart in written data, with the length and the index

XorTable == [a, b \in 0 .. WordMod - 1 |-> a ^^ b]

MCXor(a, b) == XorTable[a, b]

MCKeystream == [i \in 0 .. WordsPerSector - 1 |-> (i + 1) % WordMod]

MCGarbage ==
  [a \in 0 .. DiskSectors * WordsPerSector - 1 |->
     IF a \div WordsPerSector \in StartingLba .. EndingLba THEN 0 ELSE 1]

R(op, start, nr, data) == [op |-> op, start |-> start, nr |-> nr, data |-> data]

Pattern(v, nr) ==
  [j \in 0 .. nr * WordsPerSector - 1 |->
     (v + nr + (j % WordsPerSector)) % WordMod]

(* Requests for the last sector and for all of the device, with different  *)
(* data where they overlap; one request past the end, one too long.        *)
MCRequests ==
  LET last == EndingLba - StartingLba
  IN {R("READ", last, 1, <<>>), R("READ", 0, last + 1, <<>>),
      R("WRITE", last, 2, Pattern(1, 2)), R("WRITE", 0, last + 2, Pattern(0, last + 2)),
      R("FLUSH", 0, 0, <<>>), R("OTHER", 0, 1, <<>>)}
     \cup {R("WRITE", last, 1, Pattern(v, 1)) : v \in Stamps}
     \cup {R("WRITE", 0, last + 1, Pattern(v, last + 1)) : v \in Stamps}
=============================================================================
