--------------------------- MODULE Fat32Geometry ----------------------------
(***************************************************************************)
(* How `hazmat format` lays the cover filesystem out on a target of a      *)
(* given size (write_structures and fat32_geometry of src/src/msfat32.rs), *)
(* what it puts into the FAT32 boot sector, and how `hazmat open` finds    *)
(* the hidden header again from that boot sector alone.                    *)
(*                                                                         *)
(* All lengths are in sectors.  The constants are those of the source, so  *)
(* that a small instance can be explored for every size of a target.       *)
(***************************************************************************)
EXTENDS Integers

CONSTANTS
  MinimumSectors,    \* MINIMUM_SIZE, in sectors
  StartLba,          \* FAT32_START_LBA
  TrailingGap,       \* MIN_TRAILING_GAP_SECTORS
  GptEntrySectors,   \* GPT_ENTRY_ARRAY_SECTORS
  MinReserved,       \* FAT32_MIN_RESERVED_SECTORS
  SectorsPerCluster, \* FAT32_SECTORS_PER_CLUSTER
  Fats,              \* FAT32_FATS
  SectorSize,        \* SECTOR_SIZE
  EntrySize,         \* bytes of a FAT entry, 4
  HeaderCluster,     \* FIRST_UNUSED_CLUSTER
  MinClusters,       \* 65_525
  MaxU16, MaxU32,    \* largest values of the fields of the boot sector
  Powers,            \* the powers of two that have a representation
  DiskSizes          \* sizes of the targets to format

BackupBootSector == 6

ASSUME LayoutAssumption ==
  /\ MinimumSectors \in Nat /\ StartLba \in Nat /\ GptEntrySectors \in Nat
  /\ TrailingGap \in Nat /\ TrailingGap > GptEntrySectors
  /\ MinReserved \in Nat /\ MinReserved > BackupBootSector
  /\ SectorsPerCluster \in Nat \ {0}
  /\ Fats = 2
  /\ EntrySize \in Nat \ {0} /\ SectorSize \in Nat \ {0}
  /\ HeaderCluster \in Nat /\ HeaderCluster >= 2
  /\ MinClusters \in Nat /\ MinClusters > HeaderCluster - 1
  /\ MaxU16 \in Nat /\ MaxU32 \in Nat
  /\ Powers \subseteq Nat
  /\ DiskSizes \subseteq Nat

(* Powers is what it is called, as far as a length of 32 bits may need.    *)
ASSUME PowersAssumption ==
  /\ \A p \in Powers : p = 1 \/ \E q \in Powers : p = 2 * q
  /\ \E p \in Powers : p >= MaxU32 \div 2

(* Two FATs with an entry for every cluster take little of a partition that *)
(* has MinClusters clusters, even when they are rounded to a power of two. *)
ASSUME RoomAssumption ==
  /\ SectorSize * SectorsPerCluster >= 4 * EntrySize
  /\ MinClusters * (SectorSize * SectorsPerCluster - 4 * EntrySize)
       >= 8 * EntrySize + 4 * SectorSize + 2 * MinReserved * SectorSize

VARIABLES
  disk,  \* sectors of the target
  pc,    \* how far the command is, or how it ended
  guess, \* sectors_per_fat of the loop of fat32_geometry
  boot   \* the fields of the boot sector that open reads back

vars == <<disk, pc, guess, boot>>

NoBoot == [reserved |-> 0, fats |-> 0, total |-> 0, fatSize |-> 0, cluster |-> 0]

-----------------------------------------------------------------------------
(* write_structures *)
LastLba          == disk - 1
BackupEntriesLba == LastLba - GptEntrySectors
LastUsableLba    == BackupEntriesLba - 1
PartitionEndLba  == disk - TrailingGap - 1

(* fat32_geometry *)
PartitionLen == PartitionEndLba - StartLba + 1

(* checked_next_power_of_two *)
NextPowerOfTwo(n) == CHOOSE p \in Powers : p >= n /\ \A q \in Powers : q >= n => p <= q

Overflows(n) == \A p \in Powers : p < n

FatArea(spf) == Fats * spf

DataOffset(spf) == NextPowerOfTwo(FatArea(spf) + MinReserved)

TotalClusters(spf) == (PartitionLen - DataOffset(spf)) \div SectorsPerCluster

(* Mutant: the length of a FAT rounded down. *)
RequiredFatSectorsDown(spf) ==
  ((TotalClusters(spf) + 2) * EntrySize) \div SectorSize

RequiredFatSectors(spf) ==
  ((TotalClusters(spf) + 2) * EntrySize + SectorSize - 1) \div SectorSize

Fits(spf) ==
  /\ ~Overflows(FatArea(spf) + MinReserved)
  /\ DataOffset(spf) < PartitionLen

(* Mutant: any number of clusters is good enough. *)
EncodableAnyCount(spf) == TotalClusters(spf) <= MaxU32 - 2 /\ spf <= MaxU32

(* A FAT32 volume of that many clusters exists, and its sizes have 32 bits.*)
Encodable(spf) ==
  /\ TotalClusters(spf) \in MinClusters .. MaxU32 - 2
  /\ spf <= MaxU32

(* Mutant: the FATs counted among the reserved sectors. *)
ReservedWithFats(spf) == DataOffset(spf)

Reserved(spf) == DataOffset(spf) - FatArea(spf)

FirstFatLba(spf)  == StartLba + DataOffset(spf) - FatArea(spf)
SecondFatLba(spf) == StartLba + DataOffset(spf) - spf
DataStartLba(spf) == StartLba + DataOffset(spf)
DataEndLba(spf)   == DataStartLba(spf) + TotalClusters(spf) * SectorsPerCluster - 1

(* Mutant: the root cluster counted as part of the gap. *)
FirstUnusedSectorEarly(spf) ==
  DataStartLba(spf) + (HeaderCluster - 3) * SectorsPerCluster

FirstUnusedSectorLba(spf) ==
  DataStartLba(spf) + (HeaderCluster - 2) * SectorsPerCluster

-----------------------------------------------------------------------------
Init ==
  /\ disk \in DiskSizes
  /\ pc = "format"
  /\ guess = 0
  /\ boot = NoBoot

(* format refuses a small target before it overwrites anything. *)
CheckMinimum ==
  /\ pc = "format"
  /\ pc' = IF disk < MinimumSectors THEN "refused" ELSE "structures"
  /\ UNCHANGED <<disk, guess, boot>>

(* The checks of write_structures, and of fat32_geometry before its loop. *)
CheckLayout ==
  /\ pc = "structures"
  /\ IF /\ disk > StartLba + TrailingGap + GptEntrySectors
        /\ PartitionEndLba <= LastUsableLba
        /\ PartitionLen <= MaxU32
     THEN pc' = "loop" /\ guess' = 1
     ELSE pc' = "error" /\ UNCHANGED guess
  /\ UNCHANGED <<disk, boot>>

(* Mutant: one sector to spare with every guess. *)
RetryWithSpare ==
  /\ pc = "loop"
  /\ Fits(guess)
  /\ RequiredFatSectors(guess) # guess
  /\ guess' = RequiredFatSectors(guess) + 1
  /\ UNCHANGED <<disk, pc, boot>>

(* Mutant: a wrong guess is doubled. *)
RetryDoubles ==
  /\ pc = "loop"
  /\ Fits(guess)
  /\ RequiredFatSectors(guess) # guess
  /\ guess' = 2 * guess
  /\ UNCHANGED <<disk, pc, boot>>

(* The loop of fat32_geometry, one iteration: the guess is wrong ... *)
Retry ==
  /\ pc = "loop"
  /\ Fits(guess)
  /\ RequiredFatSectors(guess) # guess
  /\ guess' = RequiredFatSectors(guess)
  /\ UNCHANGED <<disk, pc, boot>>

(* ... or it leaves no room for the data ... *)
TooSmall ==
  /\ pc = "loop"
  /\ \/ ~Fits(guess)
     \/ /\ RequiredFatSectors(guess) = guess
        /\ ~Encodable(guess)
  /\ pc' = "error"
  /\ UNCHANGED <<disk, guess, boot>>

(* ... or it is right. *)
Accept ==
  /\ pc = "loop"
  /\ Fits(guess)
  /\ RequiredFatSectors(guess) = guess
  /\ Encodable(guess)
  /\ pc' = "planned"
  /\ UNCHANGED <<disk, guess, boot>>

(* patch_boot_sector: write_u16 and write_u32 panic on a value that does   *)
(* not fit the field, so nothing is truncated.  Here the boot sector is on *)
(* the target from now on; CoverImage has the writes.                      *)
Patch ==
  /\ pc = "planned"
  /\ IF Reserved(guess) <= MaxU16
     THEN /\ pc' = "patched"
          /\ boot' = [reserved |-> Reserved(guess), fats |-> Fats,
                      total |-> PartitionLen, fatSize |-> guess,
                      cluster |-> SectorsPerCluster]
     ELSE pc' = "panic" /\ UNCHANGED boot
  /\ UNCHANGED <<disk, guess>>

-----------------------------------------------------------------------------
(* Mutant: the second FAT forgotten. *)
BootDataOffsetOneFat == boot.reserved + boot.fatSize

(* read_fat32_disk_layout *)
BootDataOffset == boot.reserved + boot.fats * boot.fatSize

BootClusters == (boot.total - BootDataOffset) \div boot.cluster

BootAccepted ==
  /\ boot.cluster # 0 /\ boot.total # 0 /\ boot.fatSize # 0 /\ boot.fats # 0
  /\ BootDataOffset < boot.total
  /\ BootClusters >= MinClusters

(* first_unused_cluster_lba, with nothing but the boot sector to go by *)
HeaderLba ==
  StartLba + BootDataOffset + (HeaderCluster - 2) * boot.cluster

Open ==
  /\ pc = "patched"
  /\ pc' = IF BootAccepted /\ HeaderCluster < BootClusters + 2
           THEN "opened" ELSE "lost"
  /\ UNCHANGED <<disk, guess, boot>>

Next ==
  \/ CheckMinimum \/ CheckLayout
  \/ Retry \/ TooSmall \/ Accept
  \/ Patch \/ Open

Spec == Init /\ [][Next]_vars

(* The command runs on its own thread, which the scheduler does not stop.  *)
FairSpec == Spec /\ WF_vars(Next)

-----------------------------------------------------------------------------
Planned == pc \in {"planned", "panic", "patched", "opened", "lost"}

(* Every variable has the shape its declaration gives it. *)
TypeOK ==
  /\ disk \in DiskSizes
  /\ pc \in {"format", "structures", "loop", "planned", "patched", "opened",
             "refused", "error", "panic", "lost"}
  /\ guess \in Nat
  /\ boot \in [reserved : Nat, fats : Nat, total : Nat, fatSize : Nat, cluster : Nat]

(* The regions of an accepted geometry follow one another without          *)
(* overlap - reserved sectors with the backup boot sector, two FATs, data, *)
(* backup GPT - and a FAT has an entry for every cluster, although the     *)
(* loop found its length by guessing (fat32_geometry, msfat32.rs:135).     *)
RegionsDisjoint ==
  Planned =>
    /\ StartLba + MinReserved <= FirstFatLba(guess)
    /\ FirstFatLba(guess) + guess <= SecondFatLba(guess)
    /\ SecondFatLba(guess) + guess = DataStartLba(guess)
    /\ DataEndLba(guess) <= PartitionEndLba
    /\ PartitionEndLba < BackupEntriesLba
    /\ (TotalClusters(guess) + 2) * EntrySize <= guess * SectorSize

(* The header and at least one payload sector lie inside the data area of  *)
(* the cover filesystem, past its first clusters and before its last one   *)
(* (write_structures returns both ends, msfat32.rs:760).                   *)
PayloadInsideData ==
  Planned =>
    /\ DataStartLba(guess) <= FirstUnusedSectorLba(guess)
    /\ FirstUnusedSectorLba(guess) < DataEndLba(guess)

(* open accepts every boot sector that format wrote, and computes from it  *)
(* the LBA where format put the header and the same number of clusters     *)
(* (read_fat32_disk_layout, msfat32.rs:359; first_unused_cluster_lba,      *)
(* msfat32.rs:567).                                                        *)
OpenFindsHeader ==
  /\ pc # "lost"
  /\ pc = "opened" => /\ HeaderLba = FirstUnusedSectorLba(guess)
                      /\ BootClusters = TotalClusters(guess)

(* A target that is large enough is formatted: the geometry of every size  *)
(* that passes the check of MINIMUM_SIZE fits the fields of the boot       *)
(* sector (write_u16, msfat32.rs:435).                                     *)
NeverPanics == pc # "panic"

(* What is left of that: as long as both FATs and the least number of      *)
(* reserved sectors find room in 2^16 sectors, rounding up to a power of   *)
(* two leaves a number of reserved sectors that fits its field, however    *)
(* far the rounding goes (patched_boot_sector, msfat32.rs:261).            *)
PanicsOnlyWithLargeFats ==
  pc = "panic" => FatArea(guess) + MinReserved > MaxU16 + 1

Solution(spf) ==
  Fits(spf) /\ RequiredFatSectors(spf) = spf /\ Encodable(spf)

(* The loop tries few lengths of a FAT, each the answer to the one before. *)
(* When it gives up on a target no length would have done: neither one it  *)
(* has passed over nor one behind a guess that was too long for the target *)
(* (fat32_geometry, msfat32.rs:144-163).                                   *)
NoGeometryMissed ==
  pc = "error" /\ guess # 0 =>
    \A spf \in 1 .. RequiredFatSectors(1) : ~Solution(spf)

(* The loop of fat32_geometry ends (msfat32.rs:144). *)
PlanningEnds == pc = "loop" ~> pc # "loop"
=============================================================================
