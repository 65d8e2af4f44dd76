---------------------------- MODULE SanitizeProofs --------------------------
(***************************************************************************)
(* Proofs about Sanitize for every size of a target and of its blocks.     *)
(***************************************************************************)
EXTENDS Sanitize, TLAPS

(* What has been written and what has been missed add up to the limit.     *)
Reached(limit) == pos + missed = limit

(* What makes the safety properties inductive: the bytes behind the        *)
(* descriptor are filled, and it is where the calls made so far should     *)
(* have moved it, less what short writes missed.                           *)
IInv ==
  /\ TypeOK
  /\ filled = 0 .. pos - 1
  /\ isBlk => size = UsableSize
  /\ pc = "start" => pos = 0 /\ walked = 0 /\ missed = 0
  /\ pc = "walk" => Reached(walked * blk)
  /\ pc = "rest" => Reached(UsableSize)
  /\ pc \in {"sync", "done"} => Reached(size)
  /\ pos <= size

(* The whole blocks of a target.                                           *)
LEMMA Blocks ==
  ASSUME TypeOK
  PROVE  /\ size \in Nat /\ blk \in Nat \ {0}
         /\ UsableSize \in Nat /\ UsableSize <= size
         /\ BlkCount \in Nat /\ BlkCount * blk = UsableSize
         /\ UsableSize < blk => UsableSize = 0
         /\ size % blk = 0 => size = UsableSize
<1>1. size \in Nat /\ blk \in Nat \ {0}
  BY SizeAssumption DEF TypeOK
<1> DEFINE q == size \div blk
<1>2. q \in Nat /\ size = q * blk + (size % blk) /\ size % blk \in 0 .. blk - 1
  BY <1>1
<1> HIDE DEF q
<1>3. UsableSize = q * blk /\ q * blk \in Nat
  BY <1>1, <1>2 DEF UsableSize
<1>4. BlkCount = q
  <2>1. (q * blk) \div blk = q
    BY <1>1, <1>2
  <2> QED
    BY <1>3, <2>1 DEF BlkCount
<1>5. q * blk < blk => q * blk = 0
  <2> SUFFICES ASSUME q # 0 PROVE q * blk >= blk
    BY <1>1, <1>3
  <2>1. q >= 1
    BY <1>2
  <2> QED
    BY <1>1, <1>2, <2>1
<1> QED
  BY <1>1, <1>2, <1>3, <1>4, <1>5

(* sanitize_disk begins with nothing filled.                               *)
LEMMA InitIInv == Init => IInv
<1> SUFFICES ASSUME Init PROVE IInv
  OBVIOUS
<1>1. size \in Nat /\ blk \in Nat \ {0} /\ size \in Sizes /\ blk \in BlockSizes
  BY SizeAssumption DEF Init
<1>2. size - (size % blk) \in Nat
  BY <1>1
<1>3. BlkCount \in Nat
  BY <1>1, <1>2 DEF BlkCount, UsableSize
<1>4. isBlk \in BOOLEAN
  BY DEF Init
<1>5. TypeOK
  BY <1>1, <1>3, <1>4 DEF Init, TypeOK
<1>6. isBlk => size = UsableSize
  <2>1. CASE size % blk = 0
    BY <1>1, <2>1 DEF UsableSize
  <2>2. CASE size % blk # 0
    BY <2>2 DEF Init
  <2> QED
    BY <2>1, <2>2
<1> QED
  BY <1>1, <1>5, <1>6 DEF Init, IInv

(* Every step preserves the invariant.                                     *)
LEMMA NextIInv == IInv /\ [Next]_vars => IInv'
<1> SUFFICES ASSUME IInv, [Next]_vars PROVE IInv'
  OBVIOUS
<1>1. /\ size \in Nat /\ blk \in Nat \ {0} /\ pos \in Nat /\ missed \in Nat
      /\ UsableSize \in Nat /\ UsableSize <= size
      /\ BlkCount \in Nat /\ BlkCount * blk = UsableSize
      /\ UsableSize < blk => UsableSize = 0
      /\ walked \in Nat /\ walked <= BlkCount
  BY Blocks DEF IInv, TypeOK
<1>2. ASSUME UNCHANGED target
      PROVE  /\ UsableSize' = UsableSize /\ BlkCount' = BlkCount
             /\ size' = size /\ blk' = blk /\ isBlk' = isBlk
  BY <1>2 DEF target, UsableSize, BlkCount
<1>3. CASE Seek
  <2>1. UNCHANGED target /\ pos = 0 /\ walked = 0 /\ missed = 0
    BY <1>3 DEF Seek, IInv
  <2>2. 0 * blk = 0
    BY <1>1
  <2>3. TypeOK'
    BY <1>1, <1>2, <1>3, <2>1 DEF IInv, TypeOK, Seek
  <2>4. pc' = "walk" \/ pc' = "failed" \/ (pc' = "rest" /\ UsableSize = 0)
    BY <1>1, <1>3 DEF Seek
  <2> QED
    BY <1>1, <1>2, <1>3, <2>1, <2>2, <2>3, <2>4 DEF IInv, Seek, Reached
<1>4. CASE WriteBlock
  <2>1. UNCHANGED target /\ pc = "walk" /\ walked < BlkCount /\ Reached(walked * blk)
    BY <1>4 DEF WriteBlock, IInv
  <2>2. PICK n \in Written(blk) :
          IF n = 0 THEN pc' = "failed" /\ UNCHANGED <<pos, walked, filled, missed>>
          ELSE Fill(n, blk) /\ walked' = walked + 1 /\ UNCHANGED pc
    BY <1>4 DEF WriteBlock
  <2>3. CASE n = 0
    <3>1. TypeOK'
      BY <1>2, <2>1, <2>2, <2>3 DEF IInv, TypeOK
    <3> QED
      BY <1>2, <2>1, <2>2, <2>3, <3>1 DEF IInv
  <2>4. CASE n # 0
    <3>1. n \in 1 .. blk
      BY <1>1, <2>2, <2>4 DEF Written
    <3>2. /\ pos' = pos + n /\ walked' = walked + 1 /\ pc' = "walk"
          /\ filled' = filled \cup pos .. pos + n - 1
          /\ missed' = missed + (blk - n)
      BY <2>1, <2>2, <2>4 DEF Fill
    <3>3. filled' = 0 .. pos' - 1
      BY <1>1, <3>1, <3>2 DEF IInv
    <3>4. TypeOK'
      BY <1>1, <1>2, <2>1, <3>1, <3>2, <3>3 DEF IInv, TypeOK
    <3>5. (walked + 1) * blk = walked * blk + blk /\ walked * blk \in Nat
      BY <1>1
    <3>6. Reached(walked * blk)'
      BY <1>1, <1>2, <2>1, <3>1, <3>2, <3>5 DEF Reached
    <3>7. (walked + 1) * blk <= BlkCount * blk
      BY <1>1, <2>1
    <3>8. pos' <= size'
      BY <1>1, <1>2, <2>1, <3>1, <3>2, <3>5, <3>7 DEF Reached
    <3> QED
      BY <1>2, <2>1, <3>2, <3>3, <3>4, <3>6, <3>8 DEF IInv
  <2> QED
    BY <2>3, <2>4
<1>5. CASE WalkEnds
  <2>1. /\ UNCHANGED target /\ pc' = "rest" /\ Reached(UsableSize)
        /\ UNCHANGED <<pos, walked, filled, missed>>
    BY <1>1, <1>5 DEF WalkEnds, IInv
  <2>2. TypeOK'
    BY <1>2, <2>1 DEF IInv, TypeOK
  <2> QED
    BY <1>2, <2>1, <2>2 DEF IInv, Reached
<1>6. CASE WriteRest
  <2>1. UNCHANGED target /\ pc = "rest" /\ Reached(UsableSize) /\ size > UsableSize
    BY <1>6 DEF WriteRest, IInv
  <2>2. PICK n \in Written(size - UsableSize) :
          IF n = 0 THEN pc' = "failed" /\ UNCHANGED <<pos, filled, missed>>
          ELSE Fill(n, size - UsableSize) /\ pc' = "sync"
    BY <1>6 DEF WriteRest
  <2>3. walked' = walked
    BY <1>6 DEF WriteRest
  <2>4. CASE n = 0
    <3>1. TypeOK'
      BY <1>2, <2>1, <2>2, <2>3, <2>4 DEF IInv, TypeOK
    <3> QED
      BY <1>2, <2>1, <2>2, <2>4, <3>1 DEF IInv
  <2>5. CASE n # 0
    <3>1. n \in 1 .. size - UsableSize
      BY <1>1, <2>1, <2>2, <2>5 DEF Written
    <3>2. /\ pos' = pos + n /\ pc' = "sync"
          /\ filled' = filled \cup pos .. pos + n - 1
          /\ missed' = missed + (size - UsableSize - n)
      BY <2>2, <2>5 DEF Fill
    <3>3. filled' = 0 .. pos' - 1
      BY <1>1, <3>1, <3>2 DEF IInv
    <3>4. TypeOK'
      BY <1>1, <1>2, <2>1, <2>3, <3>1, <3>2, <3>3 DEF IInv, TypeOK
    <3>5. Reached(size)' /\ pos' <= size'
      BY <1>1, <1>2, <2>1, <3>1, <3>2 DEF Reached
    <3> QED
      BY <1>2, <2>1, <3>2, <3>3, <3>4, <3>5 DEF IInv
  <2> QED
    BY <2>4, <2>5
<1>7. CASE NoRest
  <2>1. UNCHANGED target /\ pc' = "sync" /\ UNCHANGED <<pos, walked, filled, missed>>
    BY <1>7 DEF NoRest
  <2>2. Reached(size)
    BY <1>7 DEF NoRest, IInv
  <2>3. TypeOK'
    BY <1>2, <2>1 DEF IInv, TypeOK
  <2> QED
    BY <1>2, <2>1, <2>2, <2>3 DEF IInv, Reached
<1>8. CASE Sync
  <2>1. /\ UNCHANGED target /\ pc' \in {"done", "failed"} /\ Reached(size)
        /\ UNCHANGED <<pos, walked, filled, missed>>
    BY <1>8 DEF Sync, IInv
  <2>2. TypeOK'
    BY <1>2, <2>1 DEF IInv, TypeOK
  <2> QED
    BY <1>2, <2>1, <2>2 DEF IInv, Reached
<1>9. CASE UNCHANGED vars
  <2>1. UNCHANGED target /\ UNCHANGED <<pc, pos, walked, filled, missed>>
    BY <1>9 DEF vars, target
  <2>2. TypeOK'
    BY <1>2, <2>1 DEF IInv, TypeOK
  <2> QED
    BY <1>2, <2>1, <2>2 DEF IInv, Reached
<1> QED
  BY <1>3, <1>4, <1>5, <1>6, <1>7, <1>8, <1>9 DEF Next

(* IInv holds in every reachable state.                                    *)
THEOREM Inductive == Spec => []IInv
  BY InitIInv, NextIInv, PTL DEF Spec

(* The variables of the fill keep their types: no block is counted beyond  *)
(* those of the target, whatever its size (block_walk, io.rs:446).         *)
THEOREM Types == Spec => []TypeOK
<1>1. IInv => TypeOK
  BY DEF IInv
<1> QED
  BY <1>1, Inductive, PTL

(* However the writes are split, the fill ends at the end of the target    *)
(* (sanitize_disk, io.rs:485).                                             *)
THEOREM FillStaysInside == Spec => []NeverGrows
<1>1. IInv => NeverGrows
  BY DEF IInv, NeverGrows
<1> QED
  BY <1>1, Inductive, PTL

(* A target reported as done is random but for a tail as long as what      *)
(* short writes missed; without short writes, to its last byte (io.rs:501).*)
THEOREM LeftIsWhatWasMissed == Spec => []LeftIsMissed
<1>1. ASSUME IInv, pc = "done"
      PROVE  filled = 0 .. size - missed - 1
  <2>1. pos + missed = size /\ filled = 0 .. pos - 1
    BY <1>1 DEF IInv, Reached
  <2>2. size \in Nat /\ pos \in Nat /\ missed \in Nat
    BY <1>1, Blocks DEF IInv, TypeOK
  <2>3. size - missed = pos
    BY <2>1, <2>2
  <2> QED
    BY <2>1, <2>3
<1>2. IInv => LeftIsMissed
  BY <1>1 DEF LeftIsMissed
<1> QED
  BY <1>2, Inductive, PTL
=============================================================================
