------------------------------ MODULE Sanitize ------------------------------
(***************************************************************************)
(* The random fill of src/src/io.rs (sanitize_disk and block_walk), which  *)
(* `hazmat sanitize` is made of and `hazmat format` begins with, call by   *)
(* call.  Lengths are in bytes, scaled down.                               *)
(***************************************************************************)
EXTENDS Integers

CONSTANTS
  Sizes,      \* sizes of the targets
  BlockSizes  \* real block sizes of the targets

ASSUME SizeAssumption ==
  /\ Sizes \subseteq Nat
  /\ BlockSizes \subseteq Nat \ {0}

VARIABLES
  size,  \* bytes of the target
  blk,   \* its real block size
  isBlk, \* it is a block device, a regular file otherwise
  pc,    \* where sanitize_disk is, or how it ended
  pos,   \* position of the file descriptor
  walked,\* iterations of block_walk
  filled,\* bytes that hold random data of this run
  missed \* history: bytes that short writes did not move

vars == <<size, blk, isBlk, pc, pos, walked, filled, missed>>
target == <<size, blk, isBlk>>

-----------------------------------------------------------------------------
(* stat_check_file: the size cut down to whole blocks.  blk_count and      *)
(* usable_blk_count are the same number.                                   *)
UsableSize == size - (size % blk)

(* Mutant: the last block counted although it is not whole. *)
BlkCountUp == (size + blk - 1) \div blk

BlkCount == UsableSize \div blk

(* What one write(2) of len bytes may return; 0 stands for a failure too.  *)
Written(len) == 0 .. len

(* A write(2) of len bytes that moves n of them. *)
Fill(n, len) ==
  /\ filled' = filled \cup pos .. pos + n - 1
  /\ pos' = pos + n
  /\ missed' = missed + (len - n)

-----------------------------------------------------------------------------
(* A block device is a whole number of its blocks.                         *)
Init ==
  /\ size \in Sizes
  /\ blk \in BlockSizes
  /\ isBlk \in (IF size % blk = 0 THEN BOOLEAN ELSE {FALSE})
  /\ pc = "start"
  /\ pos = 0
  /\ walked = 0
  /\ filled = {}
  /\ missed = 0

(* Position 0, and the source of random data, unless one of them fails.    *)
Seek ==
  /\ pc = "start"
  /\ pos' = 0
  /\ pc' \in {IF blk <= UsableSize THEN "walk" ELSE "rest", "failed"}
  /\ UNCHANGED <<walked, filled, missed>> /\ UNCHANGED target

(* Mutant: one iteration too many. *)
WriteBlockInclusive ==
  /\ pc = "walk"
  /\ walked <= BlkCount
  /\ \E n \in Written(blk) :
       IF n = 0 THEN pc' = "failed" /\ UNCHANGED <<pos, walked, filled, missed>>
       ELSE Fill(n, blk) /\ walked' = walked + 1 /\ UNCHANGED pc
  /\ UNCHANGED target

(* One iteration of block_walk: it asks whether anything was written, not  *)
(* how much.  Without random data it fails as if nothing was.              *)
WriteBlock ==
  /\ pc = "walk"
  /\ walked < BlkCount
  /\ \E n \in Written(blk) :
       IF n = 0 THEN pc' = "failed" /\ UNCHANGED <<pos, walked, filled, missed>>
       ELSE Fill(n, blk) /\ walked' = walked + 1 /\ UNCHANGED pc
  /\ UNCHANGED target

WalkEnds ==
  /\ pc = "walk"
  /\ walked = BlkCount
  /\ pc' = "rest"
  /\ UNCHANGED <<pos, walked, filled, missed>> /\ UNCHANGED target

(* What a regular file has after its last whole block.                     *)
WriteRest ==
  /\ pc = "rest"
  /\ ~isBlk /\ size > UsableSize
  /\ \E n \in Written(size - UsableSize) :
       IF n = 0 THEN pc' = "failed" /\ UNCHANGED <<pos, filled, missed>>
       ELSE Fill(n, size - UsableSize) /\ pc' = "sync"
  /\ UNCHANGED walked /\ UNCHANGED target

(* Mutant: the bytes after the last whole block forgotten. *)
NoRestEver ==
  /\ pc = "rest"
  /\ pc' = "sync"
  /\ UNCHANGED <<pos, walked, filled, missed>> /\ UNCHANGED target

NoRest ==
  /\ pc = "rest"
  /\ isBlk \/ size = UsableSize
  /\ pc' = "sync"
  /\ UNCHANGED <<pos, walked, filled, missed>> /\ UNCHANGED target

(* fsync(2), and "done" to the caller.                                     *)
Sync ==
  /\ pc = "sync"
  /\ pc' \in {"done", "failed"}
  /\ UNCHANGED <<pos, walked, filled, missed>> /\ UNCHANGED target

Next == Seek \/ WriteBlock \/ WalkEnds \/ WriteRest \/ NoRest \/ Sync

Spec == Init /\ [][Next]_vars

-----------------------------------------------------------------------------
(* Every variable has the shape its declaration gives it. *)
TypeOK ==
  /\ size \in Sizes
  /\ blk \in BlockSizes
  /\ isBlk \in BOOLEAN
  /\ pc \in {"start", "walk", "rest", "sync", "done", "failed"}
  /\ pos \in Nat
  /\ walked \in 0 .. BlkCount
  /\ filled \subseteq Nat
  /\ missed \in Nat

(* A target reported as done is random from its first byte to its last:    *)
(* "Fill the whole target with random data", io.rs:483.                    *)
DoneIsFilled == pc = "done" => filled = 0 .. size - 1

(* The one way to fall short: what a target reported as done has left at   *)
(* its end is as long as the bytes that short writes did not move, not a   *)
(* byte more.  Where every write(2) moves what it was asked for or fails,  *)
(* the whole blocks and the bytes behind them add up to the target         *)
(* (sanitize_disk, io.rs:501-521).                                         *)
LeftIsMissed == pc = "done" => filled = 0 .. size - missed - 1

(* The fill never writes past the end of the target, where a regular file  *)
(* would grow, however the writes are split (sanitize_disk, io.rs:485).    *)
NeverGrows == pos <= size
=============================================================================
