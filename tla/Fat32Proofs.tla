----------------------------- MODULE Fat32Proofs ----------------------------
(***************************************************************************)
(* Proofs about Fat32Geometry for every size of a target and every layout  *)
(* that satisfies LayoutAssumption, the one of the source among them.      *)
(***************************************************************************)
EXTENDS Fat32Geometry, WellFoundedInduction, TLAPS

(* A set of natural numbers that is not empty has a least element.         *)
LEMMA Least ==
  ASSUME NEW S \in SUBSET Nat, S # {}
  PROVE  \E m \in S : \A n \in S : m <= n
<1>1. PICK m \in S : \A n \in S : ~(<<n, m>> \in OpToRel(<, Nat))
  BY WFMin, NatLessThanWellFounded, Zenon
<1>2. ASSUME NEW n \in S, n < m
      PROVE  <<n, m>> \in OpToRel(<, Nat)
  BY <1>2 DEF OpToRel
<1>3. ASSUME NEW n \in S
      PROVE  m <= n
  <2>1. m \in Nat /\ n \in Nat
    OBVIOUS
  <2>2. ~(n < m)
    BY <1>1, <1>2
  <2> QED
    BY <2>1, <2>2
<1> QED
  BY <1>3

(* checked_next_power_of_two is the least power not below its argument.    *)
LEMMA NextPower ==
  ASSUME NEW n \in Nat, ~Overflows(n)
  PROVE  /\ NextPowerOfTwo(n) \in Powers /\ NextPowerOfTwo(n) >= n
         /\ \A q \in Powers : q >= n => NextPowerOfTwo(n) <= q
<1> DEFINE above == {p \in Powers : p >= n}
<1>1. above \in SUBSET Nat /\ above # {}
  <2>1. PICK p \in Powers : ~(p < n)
    BY DEF Overflows
  <2>2. Powers \subseteq Nat
    BY LayoutAssumption
  <2>3. p \in above
    BY <2>1, <2>2
  <2> QED
    BY <2>2, <2>3
<1>2. PICK m \in above : \A q \in above : m <= q
  BY <1>1, Least
<1>3. m \in Powers /\ m >= n /\ \A q \in Powers : q >= n => m <= q
  BY <1>2
<1> QED
  BY <1>3 DEF NextPowerOfTwo

(* A quotient rounded down.                                                *)
LEMMA Quotient ==
  ASSUME NEW n \in Nat, NEW d \in Nat \ {0}
  PROVE  /\ n \div d \in Nat
         /\ (n \div d) * d <= n
         /\ n < (n \div d) * d + d
  OBVIOUS

-----------------------------------------------------------------------------
(* What the checks before the loop let through.                            *)
Allowed ==
  /\ disk > StartLba + TrailingGap + GptEntrySectors
  /\ PartitionEndLba <= LastUsableLba

Patched == pc \in {"patched", "opened", "lost"}

(* What makes the safety properties inductive: past the checks the         *)
(* partition has sectors, an accepted guess is a fixed point of the loop,  *)
(* and the boot sector holds the geometry of that guess.                   *)
IInv ==
  /\ TypeOK
  /\ pc = "loop" \/ Planned => Allowed
  /\ Planned => /\ Fits(guess)
                /\ RequiredFatSectors(guess) = guess
                /\ Encodable(guess)
  /\ Patched => boot = [reserved |-> Reserved(guess), fats |-> Fats,
                        total |-> PartitionLen, fatSize |-> guess,
                        cluster |-> SectorsPerCluster]
  /\ pc # "lost"

(* The sizes that follow from a guess that fits.                           *)
LEMMA SizesFollow ==
  ASSUME disk \in Nat, Allowed, NEW g \in Nat, Fits(g)
  PROVE  /\ PartitionLen \in Nat
         /\ DataOffset(g) \in Nat
         /\ DataOffset(g) >= 2 * g + MinReserved
         /\ TotalClusters(g) \in Nat
         /\ TotalClusters(g) * SectorsPerCluster <= PartitionLen - DataOffset(g)
         /\ RequiredFatSectors(g) \in Nat
         /\ (TotalClusters(g) + 2) * EntrySize <= RequiredFatSectors(g) * SectorSize
<1>1. /\ StartLba \in Nat /\ TrailingGap \in Nat /\ GptEntrySectors \in Nat
      /\ MinReserved \in Nat /\ Powers \subseteq Nat /\ Fats = 2
      /\ SectorsPerCluster \in Nat \ {0} /\ SectorSize \in Nat \ {0}
      /\ EntrySize \in Nat \ {0}
  BY LayoutAssumption
<1>2. PartitionLen \in Nat
  BY <1>1 DEF Allowed, PartitionLen, PartitionEndLba
<1>3. FatArea(g) + MinReserved = 2 * g + MinReserved /\ 2 * g + MinReserved \in Nat
  BY <1>1 DEF FatArea
<1>4. DataOffset(g) \in Powers /\ DataOffset(g) >= 2 * g + MinReserved
  BY <1>3, NextPower DEF DataOffset, Fits
<1>5. DataOffset(g) \in Nat /\ PartitionLen - DataOffset(g) \in Nat
  <2>1. DataOffset(g) \in Nat
    BY <1>1, <1>4
  <2>2. DataOffset(g) < PartitionLen
    BY DEF Fits
  <2> QED
    BY <1>2, <2>1, <2>2
<1>6. /\ TotalClusters(g) \in Nat
      /\ TotalClusters(g) * SectorsPerCluster <= PartitionLen - DataOffset(g)
  BY <1>1, <1>5, Quotient DEF TotalClusters
<1> DEFINE bytes == (TotalClusters(g) + 2) * EntrySize
<1>7. bytes \in Nat /\ bytes + SectorSize - 1 \in Nat
  BY <1>1, <1>6
<1>8. RequiredFatSectors(g) = (bytes + SectorSize - 1) \div SectorSize
  BY DEF RequiredFatSectors
<1> HIDE DEF bytes
<1>9. /\ RequiredFatSectors(g) \in Nat
      /\ bytes + SectorSize - 1 < RequiredFatSectors(g) * SectorSize + SectorSize
  BY <1>1, <1>7, <1>8, Quotient
<1>10. bytes <= RequiredFatSectors(g) * SectorSize
  <2>1. RequiredFatSectors(g) * SectorSize \in Nat
    BY <1>1, <1>9
  <2> QED
    BY <1>1, <1>7, <1>9, <2>1
<1> QED
  BY <1>2, <1>4, <1>5, <1>6, <1>9, <1>10 DEF bytes

(* What open computes from the boot sector is what format computed.        *)
LEMMA BootAgrees ==
  ASSUME IInv, Patched
  PROVE  /\ BootDataOffset = DataOffset(guess)
         /\ BootClusters = TotalClusters(guess)
         /\ HeaderLba = FirstUnusedSectorLba(guess)
         /\ BootAccepted
         /\ HeaderCluster < BootClusters + 2
<1>1. /\ StartLba \in Nat /\ MinClusters \in Nat /\ HeaderCluster \in Nat
      /\ Fats = 2 /\ SectorsPerCluster \in Nat \ {0} /\ SectorSize \in Nat \ {0}
      /\ EntrySize \in Nat \ {0} /\ MinClusters > HeaderCluster - 1
      /\ DiskSizes \subseteq Nat /\ MaxU32 \in Nat
  BY LayoutAssumption
<1>2. /\ disk \in Nat /\ guess \in Nat /\ Allowed /\ Fits(guess) /\ Encodable(guess)
      /\ RequiredFatSectors(guess) = guess
      /\ boot = [reserved |-> Reserved(guess), fats |-> Fats,
                 total |-> PartitionLen, fatSize |-> guess,
                 cluster |-> SectorsPerCluster]
  BY <1>1 DEF IInv, Planned, Patched, TypeOK
<1>3. /\ PartitionLen \in Nat /\ DataOffset(guess) \in Nat
      /\ DataOffset(guess) < PartitionLen
      /\ TotalClusters(guess) \in Nat
      /\ (TotalClusters(guess) + 2) * EntrySize <= guess * SectorSize
  BY <1>2, SizesFollow DEF Fits
<1>4. BootDataOffset = DataOffset(guess)
  BY <1>1, <1>2, <1>3 DEF BootDataOffset, Reserved, FatArea
<1>5. BootClusters = TotalClusters(guess)
  BY <1>2, <1>4 DEF BootClusters, TotalClusters
<1>6. HeaderLba = FirstUnusedSectorLba(guess)
  BY <1>2, <1>4 DEF HeaderLba, FirstUnusedSectorLba, DataStartLba
<1>7. TotalClusters(guess) >= MinClusters
  BY <1>1, <1>2, <1>3 DEF Encodable
<1>8. guess # 0
  <2> SUFFICES ASSUME guess = 0 PROVE FALSE
    OBVIOUS
  <2>1. (TotalClusters(guess) + 2) * EntrySize > 0
    BY <1>1, <1>3
  <2>2. guess * SectorSize = 0
    BY <1>1
  <2>3. (TotalClusters(guess) + 2) * EntrySize \in Nat
    BY <1>1, <1>3
  <2> QED
    BY <1>3, <2>1, <2>2, <2>3
<1>9. BootAccepted
  BY <1>1, <1>2, <1>3, <1>4, <1>5, <1>7, <1>8 DEF BootAccepted
<1>10. HeaderCluster < BootClusters + 2
  BY <1>1, <1>3, <1>5, <1>7
<1> QED
  BY <1>4, <1>5, <1>6, <1>9, <1>10

-----------------------------------------------------------------------------
(* Every run begins with nothing decided.                                  *)
LEMMA InitIInv == Init => IInv
<1> SUFFICES ASSUME Init PROVE IInv
  OBVIOUS
<1>1. TypeOK
  BY DEF Init, TypeOK, NoBoot
<1>2. pc = "format"
  BY DEF Init
<1> QED
  BY <1>1, <1>2 DEF IInv, Planned, Patched

(* Every step preserves the invariant.                                     *)
LEMMA NextIInv == IInv /\ [Next]_vars => IInv'
<1> SUFFICES ASSUME IInv, [Next]_vars PROVE IInv'
  OBVIOUS
<1> USE DEF IInv
<1>1. CASE CheckMinimum
  <2>1. TypeOK' /\ pc' \in {"refused", "structures"}
    BY <1>1 DEF TypeOK, CheckMinimum
  <2> QED
    BY <2>1 DEF Planned, Patched
<1>2. CASE CheckLayout
  <2>1. TypeOK'
    BY <1>2 DEF TypeOK, CheckLayout
  <2>2. disk' = disk /\ ((pc' = "loop" /\ Allowed) \/ pc' = "error")
    BY <1>2 DEF CheckLayout, Allowed
  <2>3. Allowed => Allowed'
    BY <2>2 DEF Allowed, PartitionEndLba, LastUsableLba, BackupEntriesLba, LastLba
  <2> QED
    BY <2>1, <2>2, <2>3 DEF Planned, Patched
<1>3. CASE Retry
  <2>1. disk \in Nat /\ guess \in Nat /\ Allowed /\ Fits(guess)
    BY <1>3, LayoutAssumption DEF TypeOK, Retry
  <2>2. guess' \in Nat /\ pc' = "loop" /\ disk' = disk
    BY <1>3, <2>1, SizesFollow DEF Retry
  <2>3. TypeOK'
    BY <1>3, <2>2 DEF TypeOK, Retry
  <2>4. Allowed'
    BY <2>1, <2>2 DEF Allowed, PartitionEndLba, LastUsableLba, BackupEntriesLba, LastLba
  <2> QED
    BY <2>2, <2>3, <2>4 DEF Planned, Patched
<1>4. CASE TooSmall
  <2>1. TypeOK' /\ pc' = "error"
    BY <1>4 DEF TypeOK, TooSmall
  <2> QED
    BY <2>1 DEF Planned, Patched
<1>5. ASSUME disk' = disk /\ guess' = guess
      PROVE  /\ Allowed => Allowed'
             /\ Fits(guess) => Fits(guess)'
             /\ RequiredFatSectors(guess)' = RequiredFatSectors(guess)
             /\ Encodable(guess) => Encodable(guess)'
             /\ Reserved(guess)' = Reserved(guess) /\ PartitionLen' = PartitionLen
  BY <1>5 DEF Allowed, Fits, RequiredFatSectors, Encodable, Reserved, PartitionLen,
              PartitionEndLba, LastUsableLba, BackupEntriesLba, LastLba,
              TotalClusters, DataOffset, FatArea
<1>6. CASE Accept
  <2>1. TypeOK' /\ pc' = "planned" /\ disk' = disk /\ guess' = guess
    BY <1>6 DEF TypeOK, Accept
  <2>2. Allowed /\ Fits(guess) /\ RequiredFatSectors(guess) = guess /\ Encodable(guess)
    BY <1>6 DEF Accept
  <2> QED
    BY <1>5, <2>1, <2>2 DEF Planned, Patched
<1>7. CASE Patch
  <2>1. /\ pc = "planned" /\ pc' \in {"patched", "panic"}
        /\ disk' = disk /\ guess' = guess
    BY <1>7 DEF Patch
  <2>2. Allowed /\ Fits(guess) /\ RequiredFatSectors(guess) = guess /\ Encodable(guess)
    BY <2>1 DEF Planned
  <2>3. disk \in Nat /\ guess \in Nat
    BY LayoutAssumption DEF TypeOK
  <2>4. Reserved(guess) \in Nat /\ PartitionLen \in Nat
    BY <2>2, <2>3, SizesFollow, LayoutAssumption DEF Reserved, FatArea
  <2>5. TypeOK'
    BY <1>7, <2>3, <2>4, LayoutAssumption DEF TypeOK, Patch
  <2>6. pc' = "patched" =>
          boot' = [reserved |-> Reserved(guess), fats |-> Fats,
                   total |-> PartitionLen, fatSize |-> guess,
                   cluster |-> SectorsPerCluster]
    BY <1>7 DEF Patch
  <2> QED
    BY <1>5, <2>1, <2>2, <2>5, <2>6 DEF Planned, Patched
<1>8. CASE Open
  <2>1. pc = "patched" /\ pc' = "opened"
    BY <1>8, BootAgrees DEF Open, Patched
  <2>2. TypeOK' /\ disk' = disk /\ guess' = guess /\ boot' = boot
    BY <1>8, <2>1 DEF TypeOK, Open
  <2> QED
    BY <1>5, <2>1, <2>2 DEF Planned, Patched
<1>9. CASE UNCHANGED vars
  <2>1. TypeOK' /\ disk' = disk /\ guess' = guess /\ boot' = boot /\ pc' = pc
    BY <1>9 DEF TypeOK, vars
  <2> QED
    BY <1>5, <2>1 DEF Planned, Patched
<1> QED
  BY <1>1, <1>2, <1>3, <1>4, <1>6, <1>7, <1>8, <1>9 DEF Next

(* IInv holds in every reachable state.                                    *)
THEOREM Inductive == Spec => []IInv
  BY InitIInv, NextIInv, PTL DEF Spec

-----------------------------------------------------------------------------
(* The variables of the planner keep their types; no length falls below    *)
(* zero, where a u64 would wrap (fat32_geometry, msfat32.rs:135).          *)
THEOREM Types == Spec => []TypeOK
<1>1. IInv => TypeOK
  BY DEF IInv
<1> QED
  BY <1>1, Inductive, PTL

(* The arithmetic of the regions. *)
LEMMA RegionsFollow == IInv => RegionsDisjoint
<1> SUFFICES ASSUME IInv, Planned PROVE RegionsDisjoint
  BY DEF RegionsDisjoint
<1>1. /\ StartLba \in Nat /\ TrailingGap \in Nat /\ GptEntrySectors \in Nat
      /\ MinReserved \in Nat /\ Fats = 2 /\ SectorsPerCluster \in Nat \ {0}
      /\ TrailingGap > GptEntrySectors /\ DiskSizes \subseteq Nat
  BY LayoutAssumption
<1>2. /\ disk \in Nat /\ guess \in Nat /\ Allowed /\ Fits(guess)
      /\ RequiredFatSectors(guess) = guess
  BY <1>1 DEF IInv, TypeOK
<1>3. /\ PartitionLen \in Nat /\ DataOffset(guess) \in Nat
      /\ DataOffset(guess) >= 2 * guess + MinReserved
      /\ TotalClusters(guess) \in Nat
      /\ TotalClusters(guess) * SectorsPerCluster <= PartitionLen - DataOffset(guess)
      /\ (TotalClusters(guess) + 2) * EntrySize <= guess * SectorSize
  BY <1>2, SizesFollow
<1>4. /\ StartLba + MinReserved <= FirstFatLba(guess)
      /\ FirstFatLba(guess) + guess <= SecondFatLba(guess)
      /\ SecondFatLba(guess) + guess = DataStartLba(guess)
  BY <1>1, <1>2, <1>3 DEF FirstFatLba, SecondFatLba, DataStartLba, FatArea
<1>5. DataEndLba(guess) <= PartitionEndLba
  <2>1. TotalClusters(guess) * SectorsPerCluster \in Nat
    BY <1>1, <1>3
  <2> QED
    BY <1>1, <1>2, <1>3, <2>1 DEF DataEndLba, DataStartLba, PartitionLen, PartitionEndLba
<1>6. PartitionEndLba < BackupEntriesLba
  BY <1>1, <1>2 DEF Allowed, LastUsableLba, PartitionEndLba, BackupEntriesLba, LastLba
<1> QED
  BY <1>3, <1>4, <1>5, <1>6 DEF RegionsDisjoint

(* The regions of every accepted geometry are disjoint and inside the      *)
(* partition, and its FATs have an entry for every cluster                 *)
(* (fat32_geometry, msfat32.rs:135).                                       *)
THEOREM Regions == Spec => []RegionsDisjoint
  BY RegionsFollow, Inductive, PTL

(* The arithmetic of the payload. *)
LEMMA PayloadFollows == IInv => PayloadInsideData
<1> SUFFICES ASSUME IInv, Planned PROVE PayloadInsideData
  BY DEF PayloadInsideData
<1> DEFINE c == TotalClusters(guess)
           d == DataStartLba(guess)
<1>1. /\ StartLba \in Nat /\ SectorsPerCluster \in Nat \ {0}
      /\ HeaderCluster \in Nat /\ HeaderCluster >= 2
      /\ MinClusters \in Nat /\ MinClusters > HeaderCluster - 1
      /\ MaxU32 \in Nat /\ DiskSizes \subseteq Nat
  BY LayoutAssumption
<1>2. /\ disk \in Nat /\ guess \in Nat /\ Allowed /\ Fits(guess) /\ Encodable(guess)
  BY <1>1 DEF IInv, TypeOK
<1>3. c \in Nat /\ d \in Nat
  BY <1>1, <1>2, SizesFollow DEF DataStartLba
<1>4. c >= HeaderCluster
  BY <1>1, <1>2, <1>3 DEF Encodable
<1> HIDE DEF c, d
<1>5. HeaderCluster * SectorsPerCluster <= c * SectorsPerCluster
  BY <1>1, <1>3, <1>4
<1>6. /\ (HeaderCluster - 2) * SectorsPerCluster
           = HeaderCluster * SectorsPerCluster - 2 * SectorsPerCluster
      /\ (HeaderCluster - 2) * SectorsPerCluster \in Nat
  BY <1>1
<1>7. c * SectorsPerCluster \in Nat /\ HeaderCluster * SectorsPerCluster \in Nat
  BY <1>1, <1>3
<1>8. /\ FirstUnusedSectorLba(guess) = d + (HeaderCluster - 2) * SectorsPerCluster
      /\ DataEndLba(guess) = d + c * SectorsPerCluster - 1
  BY DEF FirstUnusedSectorLba, DataEndLba, c, d
<1>9. d <= FirstUnusedSectorLba(guess) /\ FirstUnusedSectorLba(guess) < DataEndLba(guess)
  BY <1>1, <1>3, <1>5, <1>6, <1>7, <1>8
<1> QED
  BY <1>9 DEF PayloadInsideData, d

(* The header and a payload sector are inside the data area of every       *)
(* accepted geometry (write_structures, msfat32.rs:760).                   *)
THEOREM PayloadHasRoom == Spec => []PayloadInsideData
  BY PayloadFollows, Inductive, PTL

(* open finds the header of everything that format wrote, from the boot    *)
(* sector alone (first_unused_cluster_lba, msfat32.rs:567).                *)
THEOREM HeaderIsFound == Spec => []OpenFindsHeader
<1>1. IInv => OpenFindsHeader
  BY BootAgrees DEF IInv, Patched, OpenFindsHeader
<1> QED
  BY <1>1, Inductive, PTL

-----------------------------------------------------------------------------
(* A longer dividend has no smaller quotient.                              *)
LEMMA QuotientMonotone ==
  ASSUME NEW d \in Nat \ {0}, NEW a \in Nat, NEW b \in Nat, a <= b
  PROVE  a \div d <= b \div d
<1> DEFINE x == a \div d
           y == b \div d
<1>1. /\ x \in Nat /\ x * d <= a
      /\ y \in Nat /\ b < y * d + d
  BY Quotient
<1> HIDE DEF x, y
<1>2. ~(x >= y + 1)
  <2> SUFFICES ASSUME x >= y + 1 PROVE FALSE
    OBVIOUS
  <2>1. (y + 1) * d <= x * d /\ (y + 1) * d = y * d + d
    BY <1>1
  <2>2. x * d \in Nat /\ y * d \in Nat
    BY <1>1
  <2> QED
    BY <1>1, <2>1, <2>2
<1>3. x <= y
  BY <1>1, <1>2
<1> QED
  BY <1>3 DEF x, y

(* checked_next_power_of_two grows with its argument, and never to the     *)
(* double of it.                                                           *)
LEMMA PowerMonotone ==
  ASSUME NEW m \in Nat, NEW n \in Nat, m <= n, ~Overflows(n)
  PROVE  ~Overflows(m) /\ NextPowerOfTwo(m) <= NextPowerOfTwo(n)
<1>1. Powers \subseteq Nat
  BY LayoutAssumption
<1>2. NextPowerOfTwo(n) \in Powers /\ NextPowerOfTwo(n) >= n
  BY NextPower
<1>3. NextPowerOfTwo(n) >= m
  <2>1. NextPowerOfTwo(n) \in Nat
    BY <1>1, <1>2
  <2> QED
    BY <1>2, <2>1
<1>4. ~Overflows(m)
  BY <1>1, <1>2, <1>3 DEF Overflows
<1>5. \A q \in Powers : q >= m => NextPowerOfTwo(m) <= q
  BY <1>4, NextPower
<1> QED
  BY <1>2, <1>3, <1>4, <1>5

LEMMA PowerBelowDouble ==
  ASSUME NEW n \in Nat \ {0}, ~Overflows(n)
  PROVE  NextPowerOfTwo(n) < 2 * n
<1> DEFINE p == NextPowerOfTwo(n)
<1>1. Powers \subseteq Nat
  BY LayoutAssumption
<1>2. /\ p \in Powers /\ p >= n
      /\ \A q \in Powers : q >= n => p <= q
  BY NextPower
<1> HIDE DEF p
<1>3. p = 1 \/ \E q \in Powers : p = 2 * q
  BY <1>2, PowersAssumption
<1>4. CASE p = 1
  BY <1>4 DEF p
<1>5. ASSUME NEW q \in Powers, p = 2 * q
      PROVE  p < 2 * n
  <2>1. q \in Nat /\ p \in Nat
    BY <1>1, <1>2
  <2>2. ~(q >= n)
    BY <1>2, <1>5, <2>1
  <2> QED
    BY <1>5, <2>1, <2>2
<1> QED
  BY <1>3, <1>4, <1>5 DEF p

(* A longer FAT leaves fewer clusters, and those need a shorter one.       *)
LEMMA Antitone ==
  ASSUME disk \in Nat, Allowed, NEW f \in Nat, NEW g \in Nat, f <= g, Fits(g)
  PROVE  /\ Fits(f)
         /\ RequiredFatSectors(g) <= RequiredFatSectors(f)
<1>1. /\ MinReserved \in Nat /\ Fats = 2 /\ Powers \subseteq Nat
      /\ SectorsPerCluster \in Nat \ {0} /\ SectorSize \in Nat \ {0}
      /\ EntrySize \in Nat \ {0}
  BY LayoutAssumption
<1>2. /\ FatArea(f) + MinReserved \in Nat /\ FatArea(g) + MinReserved \in Nat
      /\ FatArea(f) + MinReserved <= FatArea(g) + MinReserved
  BY <1>1 DEF FatArea
<1>3. /\ ~Overflows(FatArea(g) + MinReserved)
      /\ DataOffset(g) < PartitionLen
      /\ PartitionLen \in Nat /\ DataOffset(g) \in Nat
      /\ TotalClusters(g) \in Nat
  BY SizesFollow DEF Fits
<1>4. ~Overflows(FatArea(f) + MinReserved) /\ DataOffset(f) <= DataOffset(g)
  BY <1>2, <1>3, PowerMonotone DEF DataOffset
<1>5. DataOffset(f) \in Nat
  BY <1>1, <1>2, <1>4, NextPower DEF DataOffset
<1>6. Fits(f)
  BY <1>3, <1>4, <1>5 DEF Fits
<1>7. TotalClusters(f) \in Nat
  BY <1>6, SizesFollow
<1>8. TotalClusters(g) <= TotalClusters(f)
  <2>1. /\ PartitionLen - DataOffset(g) \in Nat /\ PartitionLen - DataOffset(f) \in Nat
        /\ PartitionLen - DataOffset(g) <= PartitionLen - DataOffset(f)
    BY <1>3, <1>4, <1>5
  <2> QED
    BY <1>1, <2>1, QuotientMonotone DEF TotalClusters
<1> DEFINE bytes(c) == (c + 2) * EntrySize + SectorSize - 1
<1>9. \A c, d \in Nat : c <= d =>
        bytes(c) \in Nat /\ bytes(d) \in Nat /\ bytes(c) <= bytes(d)
  <2> SUFFICES ASSUME NEW c \in Nat, NEW d \in Nat, c <= d
               PROVE  bytes(c) \in Nat /\ bytes(d) \in Nat /\ bytes(c) <= bytes(d)
    OBVIOUS
  <2>1. /\ (c + 2) * EntrySize \in Nat /\ (d + 2) * EntrySize \in Nat
        /\ (c + 2) * EntrySize <= (d + 2) * EntrySize
    BY <1>1
  <2> QED
    BY <1>1, <2>1
<1>10. /\ RequiredFatSectors(f) = bytes(TotalClusters(f)) \div SectorSize
       /\ RequiredFatSectors(g) = bytes(TotalClusters(g)) \div SectorSize
  BY DEF RequiredFatSectors
<1> HIDE DEF bytes
<1>11. RequiredFatSectors(g) <= RequiredFatSectors(f)
  BY <1>1, <1>3, <1>7, <1>8, <1>9, <1>10, QuotientMonotone
<1> QED
  BY <1>6, <1>11

(* A FAT is never empty.                                                   *)
LEMMA RequiredPositive ==
  ASSUME disk \in Nat, Allowed, NEW g \in Nat, Fits(g)
  PROVE  RequiredFatSectors(g) \in Nat \ {0}
<1>1. SectorSize \in Nat \ {0} /\ EntrySize \in Nat \ {0}
  BY LayoutAssumption
<1> DEFINE r == RequiredFatSectors(g)
           c == TotalClusters(g)
<1>2. r \in Nat /\ c \in Nat /\ (c + 2) * EntrySize <= r * SectorSize
  BY SizesFollow
<1> HIDE DEF r, c
<1>3. (c + 2) * EntrySize \in Nat /\ (c + 2) * EntrySize > 0
  BY <1>1, <1>2
<1>4. r # 0
  BY <1>1, <1>2, <1>3
<1> QED
  BY <1>2, <1>4 DEF r

(* At most one length of a FAT is right for a target.                      *)
LEMMA OneSolution ==
  ASSUME disk \in Nat, Allowed,
         NEW f \in Nat, NEW g \in Nat, Fits(f), Fits(g),
         RequiredFatSectors(f) = f, RequiredFatSectors(g) = g
  PROVE  f = g
<1>1. f <= g => g <= f
  BY Antitone
<1>2. g <= f => f <= g
  BY Antitone
<1> QED
  BY <1>1, <1>2

(* A target with room for MinClusters clusters has room for the longest    *)
(* FATs the loop can come to, those of a data area with almost no FATs.    *)
LEMMA LongestFits ==
  ASSUME disk \in Nat, Allowed, PartitionLen <= MaxU32,
         PartitionLen >= MinClusters * SectorsPerCluster, Fits(1)
  PROVE  Fits(RequiredFatSectors(1))
<1> DEFINE n == PartitionLen
           c == TotalClusters(1)
           r == RequiredFatSectors(1)
           S == SectorSize
           E == EntrySize
           C == SectorsPerCluster
           R == MinReserved
<1>1. /\ S \in Nat \ {0} /\ E \in Nat \ {0} /\ C \in Nat \ {0} /\ R \in Nat
      /\ MinClusters \in Nat /\ MaxU32 \in Nat /\ Fats = 2 /\ Powers \subseteq Nat
      /\ R > 0
  BY LayoutAssumption DEF BackupBootSector
<1>2. n \in Nat /\ c \in Nat /\ r \in Nat /\ DataOffset(1) \in Nat
  BY SizesFollow
<1>3. c * C <= n
  <2>1. c * C <= n - DataOffset(1)
    BY SizesFollow
  <2>2. c * C \in Nat
    BY <1>1, <1>2
  <2> QED
    BY <1>2, <2>1, <2>2
<1>4. r * S <= (c + 2) * E + S - 1
  <2>1. (c + 2) * E + S - 1 \in Nat
    BY <1>1, <1>2
  <2> QED
    BY <1>1, <2>1, Quotient DEF RequiredFatSectors
<1>5. /\ S * C >= 4 * E
      /\ MinClusters * (S * C - 4 * E) >= 8 * E + 4 * S + 2 * R * S
  BY RoomAssumption
<1>6. n >= MinClusters * C
  OBVIOUS
<1> HIDE DEF n, c, r, S, E, C, R
<1>7. (4 * r + 2 * R) * (S * C) <= n * (S * C)
  <2> DEFINE k == S * C - 4 * E
             v == 8 * E + 4 * S + 2 * R * S
  <2>1. k \in Nat /\ v \in Nat /\ S * C \in Nat
    BY <1>1, <1>5
  <2>2. v * C <= n * k
    <3>1. v * C <= (MinClusters * k) * C
      BY <1>1, <1>5, <2>1
    <3>2. (MinClusters * k) * C = (MinClusters * C) * k
      BY <1>1, <2>1
    <3>3. (MinClusters * C) * k <= n * k
      BY <1>1, <1>2, <1>6, <2>1
    <3>4. v * C \in Nat /\ (MinClusters * C) * k \in Nat /\ n * k \in Nat
      BY <1>1, <1>2, <2>1
    <3> QED
      BY <3>1, <3>2, <3>3, <3>4
  <2>3. (4 * r) * (S * C) <= (4 * C) * ((c + 2) * E + S - 1)
    <3>1. (4 * C) * (r * S) <= (4 * C) * ((c + 2) * E + S - 1)
      BY <1>1, <1>2, <1>4
    <3>2. (4 * r) * (S * C) = (4 * C) * (r * S)
      BY <1>1, <1>2
    <3> QED
      BY <3>1, <3>2
  <2>4. (4 * C) * ((c + 2) * E + S - 1) = (4 * E) * (c * C) + C * (8 * E + 4 * S) - 4 * C
    BY <1>1, <1>2
  <2>5. (4 * E) * (c * C) <= (4 * E) * n
    BY <1>1, <1>2, <1>3
  <2>6. (4 * r + 2 * R) * (S * C) = (4 * r) * (S * C) + C * (2 * R * S)
    BY <1>1, <1>2
  <2>7. v * C = C * (8 * E + 4 * S) + C * (2 * R * S)
    BY <1>1
  <2>8. n * k = n * (S * C) - (4 * E) * n
    BY <1>1, <1>2
  <2>9. /\ (4 * r) * (S * C) \in Int /\ (4 * E) * (c * C) \in Int
        /\ C * (8 * E + 4 * S) \in Int /\ 4 * C \in Nat /\ (4 * E) * n \in Int
        /\ C * (2 * R * S) \in Int /\ n * (S * C) \in Int
        /\ (4 * C) * ((c + 2) * E + S - 1) \in Int
    BY <1>1, <1>2
  <2> HIDE DEF k, v
  <2> QED
    BY <2>2, <2>3, <2>4, <2>5, <2>6, <2>7, <2>8, <2>9
<1>8. 4 * r + 2 * R <= n
  <2> DEFINE x == 4 * r + 2 * R
             u == S * C
  <2>1. x \in Nat /\ u \in Nat \ {0}
    BY <1>1, <1>2
  <2>2. x * u <= n * u
    BY <1>7
  <2> HIDE DEF x, u
  <2>3. ~(x >= n + 1)
    <3> SUFFICES ASSUME x >= n + 1 PROVE FALSE
      OBVIOUS
    <3>1. (n + 1) * u <= x * u /\ (n + 1) * u = n * u + u
      BY <1>2, <2>1
    <3>2. n * u \in Nat /\ x * u \in Nat
      BY <1>2, <2>1
    <3> QED
      BY <2>1, <2>2, <3>1, <3>2
  <2>4. x <= n
    BY <1>2, <2>1, <2>3
  <2> QED
    BY <2>4 DEF x
<1> DEFINE m == 2 * r + R
<1>9. m \in Nat \ {0} /\ 2 * m <= n /\ m = FatArea(r) + MinReserved
  BY <1>1, <1>2, <1>8 DEF FatArea, R
<1> HIDE DEF m
<1>10. ~Overflows(m)
  <2>1. n <= MaxU32
    BY DEF n
  <2>2. PICK p \in Powers : p >= MaxU32 \div 2
    BY PowersAssumption
  <2>3. p \in Nat
    BY <1>1
  <2>4. MaxU32 < 2 * p + 2
    BY <1>1, <2>2, <2>3
  <2>5. p >= m
    BY <1>1, <1>2, <1>9, <2>1, <2>3, <2>4
  <2> QED
    BY <1>9, <2>3, <2>5 DEF Overflows
<1>11. NextPowerOfTwo(m) < n
  <2>1. NextPowerOfTwo(m) \in Nat
    BY <1>1, <1>9, <1>10, NextPower
  <2> QED
    BY <1>2, <1>9, <1>10, <2>1, PowerBelowDouble
<1>12. Fits(r)
  BY <1>9, <1>10, <1>11 DEF Fits, DataOffset, n
<1> QED
  BY <1>12 DEF r

-----------------------------------------------------------------------------
(* The loop never leaves the lengths between one and what a data area      *)
(* beside the shortest FATs needs; it has not missed a solution.           *)
SearchInv ==
  /\ pc = "loop" => /\ PartitionLen <= MaxU32
                    /\ guess >= 1
                    /\ guess = 1 \/ (Fits(1) /\ guess <= RequiredFatSectors(1))
  /\ pc \in {"format", "structures"} => guess = 0
  /\ pc = "error" /\ guess # 0 => \A spf \in Nat : ~Solution(spf)

(* When the loop gives up there is no solution.                            *)
LEMMA GivesUp ==
  ASSUME IInv, SearchInv, TooSmall, NEW spf \in Nat, Solution(spf)
  PROVE  FALSE
<1>1. /\ MinClusters \in Nat /\ MaxU32 \in Nat /\ DiskSizes \subseteq Nat
      /\ SectorsPerCluster \in Nat \ {0}
  BY LayoutAssumption
<1>2. /\ disk \in Nat /\ guess \in Nat /\ Allowed /\ PartitionLen <= MaxU32 /\ guess >= 1
      /\ guess = 1 \/ (Fits(1) /\ guess <= RequiredFatSectors(1))
  BY <1>1 DEF IInv, TypeOK, SearchInv, TooSmall
<1>3. Fits(spf) /\ RequiredFatSectors(spf) = spf /\ Encodable(spf)
  BY DEF Solution
<1>4. spf >= 1 /\ 1 \in Nat
  BY <1>2, <1>3, RequiredPositive
<1>5. Fits(1)
  BY <1>2, <1>3, <1>4, Antitone
<1>6. PartitionLen >= MinClusters * SectorsPerCluster
  <2>1. /\ PartitionLen \in Nat /\ DataOffset(spf) \in Nat /\ TotalClusters(spf) \in Nat
        /\ TotalClusters(spf) * SectorsPerCluster <= PartitionLen - DataOffset(spf)
    BY <1>2, <1>3, SizesFollow
  <2>2. TotalClusters(spf) >= MinClusters
    BY <1>1, <1>3, <2>1 DEF Encodable
  <2>3. MinClusters * SectorsPerCluster <= TotalClusters(spf) * SectorsPerCluster
    BY <1>1, <2>1, <2>2
  <2>4. MinClusters * SectorsPerCluster \in Nat /\ TotalClusters(spf) * SectorsPerCluster \in Nat
    BY <1>1, <2>1
  <2> QED
    BY <2>1, <2>3, <2>4
<1>7. Fits(guess)
  <2>1. Fits(RequiredFatSectors(1)) /\ RequiredFatSectors(1) \in Nat
    BY <1>2, <1>5, <1>6, LongestFits, RequiredPositive
  <2> QED
    BY <1>2, <1>5, <2>1, Antitone
<1>8. RequiredFatSectors(guess) = guess /\ ~Encodable(guess)
  BY <1>7 DEF TooSmall
<1>9. guess = spf
  BY <1>2, <1>3, <1>7, <1>8, OneSolution
<1> QED
  BY <1>3, <1>8, <1>9

(* A retry stays below the answer to the shortest guess.                   *)
LEMMA RetryBounded ==
  ASSUME IInv, SearchInv, Retry
  PROVE  /\ RequiredFatSectors(guess) >= 1
         /\ Fits(1)
         /\ RequiredFatSectors(guess) <= RequiredFatSectors(1)
<1>1. disk \in Nat /\ guess \in Nat /\ Allowed /\ guess >= 1 /\ Fits(guess)
  BY LayoutAssumption DEF IInv, TypeOK, SearchInv, Retry
<1>2. RequiredFatSectors(guess) >= 1
  BY <1>1, RequiredPositive
<1>3. Fits(1) /\ RequiredFatSectors(guess) <= RequiredFatSectors(1)
  BY <1>1, Antitone
<1> QED
  BY <1>2, <1>3

(* Every step of the planner keeps the search complete.                    *)
LEMMA SearchStep == IInv /\ SearchInv /\ [Next]_vars => SearchInv'
<1> SUFFICES ASSUME IInv, SearchInv, [Next]_vars PROVE SearchInv'
  OBVIOUS
<1>1. ASSUME disk' = disk
      PROVE  /\ PartitionLen' = PartitionLen
             /\ Fits(1)' = Fits(1) /\ RequiredFatSectors(1)' = RequiredFatSectors(1)
             /\ \A spf \in Nat : Solution(spf)' = Solution(spf)
  BY <1>1 DEF PartitionLen, PartitionEndLba, Fits, DataOffset, FatArea, TotalClusters,
              RequiredFatSectors, Solution, Encodable
<1>2. CASE CheckMinimum
  BY <1>2 DEF CheckMinimum, SearchInv
<1>3. CASE CheckLayout
  <2>1. pc = "structures" /\ disk' = disk
    BY <1>3 DEF CheckLayout
  <2>2. CASE pc' = "loop"
    <3>1. PartitionLen <= MaxU32 /\ guess' = 1
      BY <1>3, <2>2 DEF CheckLayout
    <3> QED
      BY <1>1, <2>1, <2>2, <3>1 DEF SearchInv
  <2>3. CASE pc' = "error"
    <3>1. guess' = guess
      BY <1>3, <2>3 DEF CheckLayout
    <3>2. guess = 0
      BY <2>1 DEF SearchInv
    <3> QED
      BY <2>3, <3>1, <3>2 DEF SearchInv
  <2> QED
    BY <1>3, <2>2, <2>3 DEF CheckLayout
<1>4. CASE Retry
  <2>1. pc = "loop" /\ pc' = "loop" /\ disk' = disk /\ guess' = RequiredFatSectors(guess)
    BY <1>4 DEF Retry
  <2> QED
    BY <1>1, <1>4, <2>1, RetryBounded DEF SearchInv
<1>5. CASE TooSmall
  <2>1. pc' = "error" /\ disk' = disk
    BY <1>5 DEF TooSmall
  <2> QED
    BY <1>1, <1>5, <2>1, GivesUp DEF SearchInv
<1>6. CASE Accept
  BY <1>6 DEF Accept, SearchInv
<1>7. CASE Patch
  BY <1>7 DEF Patch, SearchInv
<1>8. CASE Open
  BY <1>8 DEF Open, SearchInv
<1>9. CASE UNCHANGED vars
  BY <1>1, <1>9 DEF vars, SearchInv
<1> QED
  BY <1>2, <1>3, <1>4, <1>5, <1>6, <1>7, <1>8, <1>9 DEF Next

(* SearchInv holds in every reachable state.                               *)
THEOREM SearchHolds == Spec => []SearchInv
<1>1. Init => SearchInv
  BY DEF Init, SearchInv
<1> QED
  BY <1>1, SearchStep, Inductive, PTL DEF Spec

(* When the loop of fat32_geometry gives up on a target, no length of a    *)
(* FAT at all would have been right for it (msfat32.rs:144-163).           *)
THEOREM SearchIsComplete ==
  Spec => [](pc = "error" /\ guess # 0 => \A spf \in Nat : ~Solution(spf))
<1>1. SearchInv => (pc = "error" /\ guess # 0 => \A spf \in Nat : ~Solution(spf))
  BY DEF SearchInv
<1> QED
  BY <1>1, SearchHolds, PTL

(* The same for the lengths a run goes over: the loop refuses no target    *)
(* that has a geometry (msfat32.rs:144-163).                               *)
THEOREM NothingMissed == Spec => []NoGeometryMissed
<1>1. SearchInv => NoGeometryMissed
  <2> SUFFICES ASSUME SearchInv, pc = "error", guess # 0,
                      NEW spf \in 1 .. RequiredFatSectors(1)
               PROVE  ~Solution(spf)
    BY DEF NoGeometryMissed
  <2>1. spf \in Nat
    OBVIOUS
  <2> QED
    BY <2>1 DEF SearchInv
<1> QED
  BY <1>1, SearchHolds, PTL

-----------------------------------------------------------------------------
(* The answer to the next guess lies between this guess and the next one.  *)
Narrowing ==
  pc = "loop" /\ Fits(guess) /\ Fits(RequiredFatSectors(guess)) =>
    LET next  == RequiredFatSectors(guess)
        after == RequiredFatSectors(next)
    IN \/ guess <= after /\ after <= next
       \/ next <= after /\ after <= guess

(* The first guess is below its answer, and the next one between them.     *)
LEMMA NarrowsFirst ==
  ASSUME disk \in Nat, Allowed, Fits(1), Fits(RequiredFatSectors(1))
  PROVE  /\ 1 <= RequiredFatSectors(RequiredFatSectors(1))
         /\ RequiredFatSectors(RequiredFatSectors(1)) <= RequiredFatSectors(1)
<1>1. RequiredFatSectors(1) \in Nat \ {0}
  BY RequiredPositive
<1>2. RequiredFatSectors(RequiredFatSectors(1)) \in Nat \ {0}
  BY <1>1, RequiredPositive
<1>3. RequiredFatSectors(RequiredFatSectors(1)) <= RequiredFatSectors(1)
  BY <1>1, Antitone
<1> QED
  BY <1>2, <1>3

(* Order is turned round by every answer, so the next three are nested if  *)
(* the last three were.                                                    *)
LEMMA NarrowsOn ==
  ASSUME disk \in Nat, Allowed, NEW f \in Nat, NEW g \in Nat, NEW h \in Nat,
         Fits(f), Fits(g), Fits(h),
         RequiredFatSectors(f) = g, RequiredFatSectors(g) = h,
         \/ f <= h /\ h <= g
         \/ g <= h /\ h <= f
  PROVE  \/ g <= RequiredFatSectors(h) /\ RequiredFatSectors(h) <= h
         \/ h <= RequiredFatSectors(h) /\ RequiredFatSectors(h) <= g
<1>1. CASE f <= h /\ h <= g
  BY <1>1, Antitone
<1>2. CASE g <= h /\ h <= f
  BY <1>2, Antitone
<1> QED
  BY <1>1, <1>2

(* What Narrowing says of a guess.                                         *)
Narrow(g) ==
  Fits(g) /\ Fits(RequiredFatSectors(g)) =>
    LET next  == RequiredFatSectors(g)
        after == RequiredFatSectors(next)
    IN \/ g <= after /\ after <= next
       \/ next <= after /\ after <= g

(* Every step of the loop narrows the search.                              *)
LEMMA NarrowingStep == IInv /\ Narrowing /\ [Next]_vars => Narrowing'
<1> SUFFICES ASSUME IInv, Narrowing, [Next]_vars, pc' = "loop"
             PROVE  Narrowing'
  BY DEF Narrowing
<1>1. disk \in Nat /\ disk' = disk /\ guess \in Nat
  BY LayoutAssumption DEF IInv, TypeOK, Next, vars, CheckMinimum, CheckLayout, Retry,
                          TooSmall, Accept, Patch, Open
<1>2. Narrow(guess') => Narrowing'
  BY <1>1 DEF Narrow, Narrowing, PartitionLen, PartitionEndLba, Fits, DataOffset, FatArea,
              TotalClusters, RequiredFatSectors
<1>3. Allowed
  <2>1. Allowed'
    BY NextIInv DEF IInv
  <2> QED
    BY <1>1, <2>1 DEF Allowed, PartitionEndLba, LastUsableLba, BackupEntriesLba, LastLba
<1>4. pc = "loop" => Narrow(guess)
  BY DEF Narrowing, Narrow
<1>5. CASE CheckLayout
  <2>1. guess' = 1
    BY <1>5 DEF CheckLayout
  <2>2. Narrow(1)
    BY <1>1, <1>3, NarrowsFirst DEF Narrow
  <2> QED
    BY <1>2, <2>1, <2>2
<1>6. CASE Retry
  <2> DEFINE g == RequiredFatSectors(guess)
             h == RequiredFatSectors(g)
  <2>1. pc = "loop" /\ Fits(guess) /\ guess' = g
    BY <1>6 DEF Retry
  <2>2. ASSUME Fits(g), Fits(h)
        PROVE  \/ g <= RequiredFatSectors(h) /\ RequiredFatSectors(h) <= h
               \/ h <= RequiredFatSectors(h) /\ RequiredFatSectors(h) <= g
    <3>1. g \in Nat /\ h \in Nat
      BY <1>1, <1>3, <2>1, <2>2, RequiredPositive
    <3>2. \/ guess <= h /\ h <= g
          \/ g <= h /\ h <= guess
      BY <1>4, <2>1, <2>2 DEF Narrow
    <3> HIDE DEF g, h
    <3> QED
      BY <1>1, <1>3, <2>1, <2>2, <3>1, <3>2, NarrowsOn DEF g, h
  <2>3. Narrow(g)
    BY <2>2 DEF Narrow
  <2> QED
    BY <1>2, <2>1, <2>3
<1>7. CASE UNCHANGED vars
  <2>1. pc = "loop" /\ guess' = guess
    BY <1>7 DEF vars
  <2> QED
    BY <1>2, <1>4, <2>1
<1> QED
  BY <1>5, <1>6, <1>7 DEF Next, CheckMinimum, TooSmall, Accept, Patch, Open

(* The loop never runs away: every guess lies between the two before it,   *)
(* so that one which does not end alternates between two lengths           *)
(* (fat32_geometry, msfat32.rs:144).                                       *)
THEOREM SearchNarrows == Spec => []Narrowing
<1>1. Init => Narrowing
  BY DEF Init, Narrowing
<1> QED
  BY <1>1, NarrowingStep, Inductive, PTL DEF Spec

-----------------------------------------------------------------------------
(* The length of a FAT with an entry for every cluster of a target, if the *)
(* FATs themselves took no room.                                           *)
LongestFat(size) ==
  (((size - StartLba - TrailingGap) \div SectorsPerCluster + 2) * EntrySize + SectorSize - 1)
    \div SectorSize

(* A geometry whose FATs fit below p has a data offset of p at most.       *)
LEMMA SmallReserved ==
  ASSUME NEW p \in Powers, p <= MaxU16 + 1,
         \A size \in DiskSizes : Fats * LongestFat(size) + MinReserved <= p,
         IInv, Planned
  PROVE  Reserved(guess) <= MaxU16
<1>1. /\ StartLba \in Nat /\ TrailingGap \in Nat /\ GptEntrySectors \in Nat
      /\ MinReserved \in Nat /\ Fats = 2 /\ Powers \subseteq Nat /\ MaxU16 \in Nat
      /\ SectorsPerCluster \in Nat \ {0} /\ SectorSize \in Nat \ {0}
      /\ EntrySize \in Nat \ {0} /\ DiskSizes \subseteq Nat
  BY LayoutAssumption
<1>2. /\ disk \in Nat /\ disk \in DiskSizes /\ guess \in Nat /\ Allowed /\ Fits(guess)
      /\ RequiredFatSectors(guess) = guess
  BY <1>1 DEF IInv, TypeOK
<1>3. /\ PartitionLen \in Nat /\ DataOffset(guess) \in Nat
      /\ DataOffset(guess) < PartitionLen /\ TotalClusters(guess) \in Nat
      /\ guess \in Nat \ {0}
  <2>1. guess \in Nat \ {0}
    BY <1>2, RequiredPositive
  <2> QED
    BY <1>2, <2>1, SizesFollow DEF Fits
<1> DEFINE all == PartitionLen \div SectorsPerCluster
           bytes(c) == (c + 2) * EntrySize + SectorSize - 1
<1>4. all \in Nat /\ TotalClusters(guess) <= all
  <2>1. PartitionLen - DataOffset(guess) \in Nat /\ PartitionLen - DataOffset(guess) <= PartitionLen
    BY <1>3
  <2> QED
    BY <1>1, <1>3, <2>1, QuotientMonotone, Quotient DEF TotalClusters
<1>5. PartitionLen = disk - StartLba - TrailingGap
  BY <1>1, <1>2 DEF PartitionLen, PartitionEndLba
<1>6. guess <= LongestFat(disk)
  <2>1. LongestFat(disk) = bytes(all) \div SectorSize
    BY <1>5 DEF LongestFat
  <2>2. guess = bytes(TotalClusters(guess)) \div SectorSize
    BY <1>2 DEF RequiredFatSectors
  <2> HIDE DEF all
  <2>3. /\ bytes(all) \in Nat /\ bytes(TotalClusters(guess)) \in Nat
        /\ bytes(TotalClusters(guess)) <= bytes(all)
    <3>1. /\ (all + 2) * EntrySize \in Nat /\ (TotalClusters(guess) + 2) * EntrySize \in Nat
          /\ (TotalClusters(guess) + 2) * EntrySize <= (all + 2) * EntrySize
      BY <1>1, <1>3, <1>4
    <3> QED
      BY <1>1, <3>1
  <2> HIDE DEF bytes
  <2> QED
    BY <1>1, <2>1, <2>2, <2>3, QuotientMonotone
<1>7. LongestFat(disk) \in Int
  BY <1>1, <1>2 DEF LongestFat
<1>8. Fats * LongestFat(disk) + MinReserved <= p
  BY <1>2
<1>9. FatArea(guess) + MinReserved \in Nat /\ FatArea(guess) + MinReserved <= p /\ p \in Nat
  BY <1>1, <1>3, <1>6, <1>7, <1>8 DEF FatArea
<1>10. DataOffset(guess) <= p
  BY <1>2, <1>9, NextPower DEF DataOffset, Fits
<1> QED
  BY <1>1, <1>3, <1>9, <1>10 DEF Reserved, FatArea

(* Where the FATs of the largest target fit below a power of two that the  *)
(* 16-bit field can nearly hold, format never panics on the number of      *)
(* reserved sectors: with the layout of the source, up to 16 GiB           *)
(* (write_u16, msfat32.rs:435).                                            *)
THEOREM SmallTargetsFit ==
  ASSUME NEW p \in Powers, p <= MaxU16 + 1,
         \A size \in DiskSizes : Fats * LongestFat(size) + MinReserved <= p
  PROVE  Spec => []NeverPanics
<1>1. Init => NeverPanics
  BY DEF Init, NeverPanics
<1>2. IInv /\ NeverPanics /\ [Next]_vars => NeverPanics'
  <2> SUFFICES ASSUME IInv, NeverPanics, [Next]_vars PROVE NeverPanics'
    OBVIOUS
  <2>1. CASE Patch
    <3>1. Planned
      BY <2>1 DEF Patch, Planned
    <3>2. Reserved(guess) <= MaxU16
      BY <3>1, SmallReserved
    <3> QED
      BY <2>1, <3>2 DEF Patch, NeverPanics
  <2> QED
    BY <2>1 DEF NeverPanics, Next, vars, CheckMinimum, CheckLayout, Retry, TooSmall, Accept, Open
<1> QED
  BY <1>1, <1>2, Inductive, PTL DEF Spec

(* Where the 16-bit field ends right below a power of two, as it does, a   *)
(* panic on the number of reserved sectors means FATs too large for that   *)
(* power, at every size of a target (patched_boot_sector, msfat32.rs:261). *)
THEOREM SmallFatsNeverPanic ==
  ASSUME MaxU16 + 1 \in Powers
  PROVE  Spec => []PanicsOnlyWithLargeFats
<1>1. Init => PanicsOnlyWithLargeFats
  BY DEF Init, PanicsOnlyWithLargeFats
<1>2. ASSUME IInv, Planned, FatArea(guess) + MinReserved <= MaxU16 + 1
      PROVE  Reserved(guess) <= MaxU16
  <2>1. /\ MinReserved \in Nat /\ Fats = 2 /\ MaxU16 \in Nat /\ Powers \subseteq Nat
        /\ disk \in Nat /\ guess \in Nat /\ Allowed /\ Fits(guess)
        /\ RequiredFatSectors(guess) = guess
    BY <1>2, LayoutAssumption DEF IInv, TypeOK
  <2>2. guess \in Nat \ {0}
    BY <2>1, RequiredPositive
  <2>3. FatArea(guess) + MinReserved \in Nat
    BY <2>1 DEF FatArea
  <2>4. DataOffset(guess) \in Nat /\ DataOffset(guess) <= MaxU16 + 1
    <3>1. ~Overflows(FatArea(guess) + MinReserved)
      BY <2>1 DEF Fits
    <3> QED
      BY <1>2, <2>1, <2>3, <3>1, NextPower DEF DataOffset
  <2> QED
    BY <2>1, <2>2, <2>4 DEF Reserved, FatArea
<1>3. IInv /\ PanicsOnlyWithLargeFats /\ [Next]_vars => PanicsOnlyWithLargeFats'
  <2> SUFFICES ASSUME IInv, PanicsOnlyWithLargeFats, [Next]_vars
               PROVE  PanicsOnlyWithLargeFats'
    OBVIOUS
  <2>1. CASE Patch
    <3>1. Planned /\ guess' = guess
      BY <2>1 DEF Patch, Planned
    <3>2. CASE Reserved(guess) <= MaxU16
      BY <2>1, <3>2 DEF Patch, PanicsOnlyWithLargeFats
    <3>3. CASE ~(Reserved(guess) <= MaxU16)
      <4>1. ~(FatArea(guess) + MinReserved <= MaxU16 + 1)
        BY <1>2, <3>1, <3>3
      <4>2. FatArea(guess) + MinReserved \in Int /\ MaxU16 + 1 \in Int
        BY LayoutAssumption DEF IInv, TypeOK, FatArea
      <4>3. FatArea(guess) + MinReserved > MaxU16 + 1
        BY <4>1, <4>2
      <4> QED
        BY <3>1, <4>3 DEF PanicsOnlyWithLargeFats, FatArea
    <3> QED
      BY <3>2, <3>3
  <2>2. CASE Next /\ ~Patch
    BY <2>2 DEF PanicsOnlyWithLargeFats, Next, CheckMinimum, CheckLayout, Retry, TooSmall,
                Accept, Open
  <2>3. CASE UNCHANGED vars
    <3>1. pc' = pc /\ guess' = guess
      BY <2>3 DEF vars
    <3> QED
      BY <3>1 DEF PanicsOnlyWithLargeFats, FatArea
  <2> QED
    BY <2>1, <2>2, <2>3
<1> QED
  BY <1>1, <1>3, Inductive, PTL DEF Spec
=============================================================================
