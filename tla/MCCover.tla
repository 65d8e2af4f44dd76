------------------------------ MODULE MCCover -------------------------------
(***************************************************************************)
(* Instances of CoverImage with the constants of the source.  Only         *)
(* MinimumSectors is lower in cover_sizes, so that the checks behind the   *)
(* one of MINIMUM_SIZE are reached at all.                                 *)
(***************************************************************************)
EXTENDS CoverRefinement

CONSTANT MaxExponent \* bound on the exponent of an offset

MCPowers == {2 ^ k : k \in 0 .. MaxExponent}

MiB == 2048
GiB == 1024 * MiB

(* Sizes of images and of disks, in sectors: the powers of two up to       *)
(* 512 GiB, decimal sizes from 1 GB to 1 TB, sizes between two powers of   *)
(* two, and the first MiBs above the minimum.                              *)
RoundSizes ==
  {GiB * 2 ^ k : k \in 0 .. 9}
    \cup {1953125 * 2 ^ k : k \in 0 .. 9} \cup {976562500, 1953125000}
    \cup {k * GiB : k \in {3, 12, 17, 24, 33, 40, 48, 96}}
    \cup {2 * GiB + k * MiB : k \in 0 .. 12}

Unpartitioned == StartLba + TrailingGap

(* Sizes at the edges of the checks of the layout: no room for a partition, *)
(* a partition of one sector and of the first few offsets, FATs of a few   *)
(* sectors, and the number of clusters on either side of MinClusters.      *)
EdgeSizes ==
  {MinimumSectors - 1, MinimumSectors}
    \cup {Unpartitioned + k : k \in {GptEntrySectors, GptEntrySectors + 1, 64, 65,
                                     4000, 8192, 65536}}
    \cup {Unpartitioned + 2048 + MinClusters * SectorsPerCluster + k : k \in -16 .. 16}

FormatSizes == RoundSizes \cup EdgeSizes

(* One common size. *)
MountedSize == {16 * GiB}
=============================================================================
