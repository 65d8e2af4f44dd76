------------------------------- MODULE MCFat32 ------------------------------
(***************************************************************************)
(* Instances of Fat32Geometry with the constants of the source, for sizes  *)
(* that format does not survive.                                           *)
(***************************************************************************)
EXTENDS Fat32Geometry

CONSTANT MaxExponent \* bound on the exponent of an offset

MCPowers == {2 ^ k : k \in 0 .. MaxExponent}

MiB == 2048
GiB == 1024 * MiB

(* Sizes of 2 GiB and some MiB, as an image created by hand may have. *)
OddSizes == {2 * GiB + k * MiB : k \in 0 .. 24}

(* Every whole number of GiB up to a middling stick. *)
LargeSizes == {k * GiB : k \in 2 .. 48}
=============================================================================
