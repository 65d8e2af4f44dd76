----------------------------- MODULE CoverImage -----------------------------
(***************************************************************************)
(* What `hazmat format` writes once the layout of Fat32Geometry is found:  *)
(* the zeroes, the GPT and the FAT32 structures of write_structures        *)
(* (src/src/msfat32.rs) and the header of inserting_hazmat_structures      *)
(* (src/src/cmd/format.rs), in their order; and what another system may do *)
(* to the target when it mounts the cover filesystem.                      *)
(*                                                                         *)
(* The target is the list of the writes made so far, the last one of them  *)
(* in part: what a sector holds is what the last write over it put there.  *)
(* A call of write(2) may move fewer sectors than it is given, and any     *)
(* call may fail.                                                          *)
(***************************************************************************)
EXTENDS Fat32Geometry, Sequences, FiniteSets

CONSTANTS
  MsrLba,           \* MSR_START_LBA
  MsrSectors,       \* sectors of the template of the MSR partition
  FatPrefixSectors, \* sectors of the template of a FAT
  ZeroChunk,        \* ZERO_WRITE_BYTES, in sectors
  Stops,            \* bound: how far in a write a call may stop short
  Searches,         \* where a mounting system looks first: "lowest", "hint"
  FileClusters,     \* clusters of a file it may write
  MaxTaken          \* bound on the clusters it takes

ASSUME TemplateAssumption ==
  /\ MsrLba \in Nat /\ MsrSectors \in Nat \ {0}
  /\ GptEntrySectors # 0
  /\ GptEntrySectors + 1 < TrailingGap
  /\ 2 + GptEntrySectors = MsrLba
  /\ MsrLba + MsrSectors <= StartLba
  /\ FatPrefixSectors \in Nat \ {0}
  /\ FatPrefixSectors * SectorSize <= (MinClusters + 2) * EntrySize
  /\ ZeroChunk \in Nat \ {0}
  /\ Stops \subseteq Nat \ {0}
  /\ HeaderCluster > 2
  /\ Searches \subseteq {"lowest", "hint"}
  /\ FileClusters \subseteq Nat \ {0}
  /\ MaxTaken \in Nat

VARIABLES
  made,   \* writes that are complete
  part,   \* sectors of the next one that are on the target
  synced, \* write_structures has called fsync(2)
  failed, \* a call on the target has failed and ended the command
  taken   \* clusters that users of the cover filesystem have written

coverVars == <<made, part, synced, failed, taken>>
allVars == <<vars, coverVars>>

-----------------------------------------------------------------------------
(* patched_gpt_header for the header at the beginning ... *)
PrimaryHeader ==
  [current |-> 1, backup |-> LastLba, firstUsable |-> MsrLba,
   lastUsable |-> LastUsableLba, entries |-> 2]

(* Mutant: the backup header names the entries of the primary one. *)
BackupHeaderPrimaryEntries ==
  [current |-> LastLba, backup |-> 1, firstUsable |-> MsrLba,
   lastUsable |-> LastUsableLba, entries |-> 2]

(* ... and for the one in the last sector. *)
BackupHeader ==
  [current |-> LastLba, backup |-> 1, firstUsable |-> MsrLba,
   lastUsable |-> LastUsableLba, entries |-> BackupEntriesLba]

(* patched_gpt_entries: the MSR partition of the template, and the FAT32   *)
(* partition with its computed end.                                        *)
Partitions ==
  <<[first |-> MsrLba, last |-> StartLba - 1],
    [first |-> StartLba, last |-> PartitionEndLba]>>

(* patched_fat_prefix: the clusters that are not free in a new FAT, the    *)
(* end marker among them if the prefix reaches it.                         *)
Allocated ==
  {2} \cup {c \in {TotalClusters(guess) + 2} :
              (c + 1) * EntrySize <= FatPrefixSectors * SectorSize}

(* patch_fsinfo_sector *)
FsInfo == [free |-> TotalClusters(guess) - 1, next |-> HeaderCluster]

(* Mutant: the payload begins with the header. *)
HeaderFromStart ==
  [starting |-> FirstUnusedSectorLba(guess), ending |-> DataEndLba(guess)]

(* create_header *)
Header ==
  [starting |-> FirstUnusedSectorLba(guess) + 1, ending |-> DataEndLba(guess)]

-----------------------------------------------------------------------------
W(what, at, len) == [what |-> what, at |-> at, len |-> len]

(* Mutant: the first FAT zeroed twice. *)
ZeroesFirstFatTwice ==
  <<W("zeroes", MsrLba, StartLba - MsrLba),
    W("zeroes", FirstFatLba(guess), guess),
    W("zeroes", FirstFatLba(guess), guess),
    W("zeroes", PartitionEndLba + 1, BackupEntriesLba - (PartitionEndLba + 1))>>

(* write_structures: the four calls of write_zeroes_at_lba ... *)
Zeroes ==
  <<W("zeroes", MsrLba, StartLba - MsrLba),
    W("zeroes", FirstFatLba(guess), guess),
    W("zeroes", SecondFatLba(guess), guess),
    W("zeroes", PartitionEndLba + 1, BackupEntriesLba - (PartitionEndLba + 1))>>

(* ... and those of write_at_lba and write_fixed_blob. *)
Structures ==
  <<W("mbr", 0, 1), W("gpt", 1, 1), W("entries", 2, GptEntrySectors),
    W("msr", MsrLba, MsrSectors),
    W("reserved", StartLba, Reserved(guess)),
    W("fat", FirstFatLba(guess), FatPrefixSectors),
    W("fat", SecondFatLba(guess), FatPrefixSectors),
    W("root", DataStartLba(guess), SectorsPerCluster),
    W("entries", BackupEntriesLba, GptEntrySectors), W("gpt", LastLba, 1)>>

(* inserting_hazmat_structures *)
HeaderWrite == <<W("header", FirstUnusedSectorLba(guess), 1)>>

(* Mutant: the structures before the zeroes. *)
WritesZeroesLate == Structures \o Zeroes \o HeaderWrite

Writes == Zeroes \o Structures \o HeaderWrite

NrWrites == 15

(* Those of write_structures, which fsync(2) follows. *)
NrStructures == 14

Formatted == pc = "patched" /\ made = NrWrites

-----------------------------------------------------------------------------
CoverInit ==
  /\ Init
  /\ made = 0
  /\ part = 0
  /\ synced = FALSE
  /\ failed = FALSE
  /\ taken = {}

Plan ==
  /\ CheckMinimum \/ CheckLayout \/ Retry \/ TooSmall \/ Accept \/ Patch
  /\ UNCHANGED coverVars

(* The next write of write_structures or inserting_hazmat_structures. *)
Writing ==
  /\ pc = "patched" /\ ~failed
  /\ made < NrWrites
  /\ made = NrStructures => synced

Earlier(m, n) == IF m <= n THEN m ELSE n

(* Mutant: every chunk of zeroes is a whole one. *)
AskedWholeChunks(w) ==
  IF w.what = "zeroes" THEN part - (part % ZeroChunk) + ZeroChunk ELSE w.len

(* Where the next call of write(2) would end: write_all_at asks for the    *)
(* rest of the buffer, which for zeroes is one of the chunks of            *)
(* write_zeroes_at.                                                        *)
Asked(w) ==
  IF w.what = "zeroes" THEN Earlier(w.len, part - (part % ZeroChunk) + ZeroChunk)
                       ELSE w.len

(* It moves all of that, or stops short, and the loops ask for the rest.   *)
WriteNext ==
  /\ Writing
  /\ LET w == Writes[made + 1]
     IN \E to \in Stops \cup {Asked(w)} :
          /\ part < to /\ to <= Asked(w)
          /\ IF to = w.len THEN made' = made + 1 /\ part' = 0
                           ELSE part' = to /\ UNCHANGED made
  /\ UNCHANGED <<vars, synced, failed, taken>>

(* write_structures ends with fsync. *)
Sync ==
  /\ pc = "patched" /\ ~failed
  /\ made = NrStructures /\ ~synced
  /\ synced' = TRUE
  /\ UNCHANGED <<vars, made, part, failed, taken>>

(* The call, or the fsync, fails: what is on the target stays there.       *)
WriteFails ==
  /\ pc = "patched" /\ ~failed
  /\ made < NrWrites
  /\ failed' = TRUE
  /\ UNCHANGED <<vars, made, part, synced, taken>>

FreeRun(c, n) == \A b \in c .. c + n - 1 : b \notin Allocated /\ b \notin taken

SearchFrom(search) == IF search = "hint" THEN FsInfo.next ELSE 2

Window(search) == SearchFrom(search) .. SearchFrom(search) + MaxTaken + 1

NoRoom(search, n) == \A c \in Window(search) : ~FreeRun(c, n)

FirstFree(search, n) ==
  CHOOSE c \in Window(search) :
    FreeRun(c, n) /\ \A b \in SearchFrom(search) .. c - 1 : ~FreeRun(b, n)

(* A system that mounts the cover filesystem writes a file of n clusters   *)
(* to the first free ones at or behind the place where it looks first: the *)
(* beginning of the data area, or the hint of FSInfo.                      *)
WriteFile(search, n) ==
  /\ Formatted
  /\ Cardinality(taken) + n <= MaxTaken
  /\ ~NoRoom(search, n)
  /\ LET first == FirstFree(search, n)
     IN /\ first + n - 1 <= TotalClusters(guess) + 1
        /\ taken' = taken \cup (first .. first + n - 1)
  /\ UNCHANGED <<vars, made, part, synced, failed>>

OpenCover ==
  /\ Formatted
  /\ Open
  /\ UNCHANGED coverVars

CoverNext ==
  \/ Plan
  \/ WriteNext \/ Sync \/ WriteFails
  \/ \E search \in Searches, n \in FileClusters : WriteFile(search, n)
  \/ OpenCover

CoverSpec == CoverInit /\ [][CoverNext]_allVars

(* The planning runs on its own thread, which the scheduler does not stop. *)
CoverFairSpec == CoverSpec /\ WF_allVars(Plan)

-----------------------------------------------------------------------------
(* Every variable has the shape its declaration gives it: a write that is  *)
(* not complete has sectors to go, and no cluster that is not free in the  *)
(* FAT is ever taken for a new file.                                       *)
CoverTypeOK ==
  /\ TypeOK
  /\ made \in 0 .. NrWrites
  /\ part \in Nat
  /\ part # 0 => made < NrWrites /\ part < Writes[made + 1].len
  /\ synced \in BOOLEAN
  /\ failed \in BOOLEAN
  /\ taken \subseteq 3 .. TotalClusters(guess) + 1

Meets(w, lo, hi) == w.at <= hi /\ lo <= w.at + w.len - 1

(* No structure is overwritten by a later write, zeroes excepted, and none *)
(* passes the end of the target (write_structures, msfat32.rs:641-675).    *)
StructuresIntact ==
  Planned =>
    LET w == Writes
    IN \A i \in 1 .. made :
         /\ w[i].at + w[i].len <= disk
         /\ w[i].what # "zeroes" =>
              \A j \in i + 1 .. made : ~Meets(w[i], w[j].at, w[j].at + w[j].len - 1)

(* The writes over the len sectors from lo on, by their place in them. *)
Within(lo, len) ==
  LET w == Writes
  IN {[what |-> w[i].what, at |-> w[i].at - lo, len |-> w[i].len] :
        i \in {j \in 1 .. made : Meets(w[j], lo, lo + len - 1)}}

(* When format is done the two FATs are equal, sector by sector, and       *)
(* nothing of the random fill is left inside them (msfat32.rs:647-658,     *)
(* msfat32.rs:671).                                                        *)
FatsAgree ==
  Formatted =>
    /\ Within(FirstFatLba(guess), guess) = Within(SecondFatLba(guess), guess)
    /\ W("zeroes", 0, guess) \in Within(FirstFatLba(guess), guess)

Holds(what, lba) ==
  LET w == Writes IN \E i \in 1 .. made : w[i].what = what /\ w[i].at = lba

(* The two GPT headers name each other and themselves, each names a table  *)
(* of entries outside the usable range, and the partitions lie inside it   *)
(* one behind the other (patched_gpt_header, msfat32.rs:208).              *)
GptAgrees ==
  Formatted =>
    /\ PrimaryHeader.backup = BackupHeader.current
    /\ BackupHeader.backup = PrimaryHeader.current
    /\ PrimaryHeader.entries # BackupHeader.entries
    /\ \A h \in {PrimaryHeader, BackupHeader} :
         /\ Holds("gpt", h.current)
         /\ Holds("entries", h.entries)
         /\ \/ h.entries + GptEntrySectors <= h.firstUsable
            \/ h.lastUsable < h.entries
         /\ h.firstUsable <= Partitions[1].first
         /\ Partitions[1].last < Partitions[2].first
         /\ Partitions[2].last <= h.lastUsable

(* Where open looks for the header there is the header, and no write of    *)
(* format reaches the sectors it names as payload: they keep the random    *)
(* fill (create_header, hazmat.rs:14; msfat32.rs:760).                     *)
PayloadKeepsFill ==
  Formatted =>
    LET w == Writes
    IN /\ Holds("header", HeaderLba)
       /\ \A i \in 1 .. made : ~Meets(w[i], Header.starting, Header.ending)

ClusterLba(c) == DataStartLba(guess) + (c - 2) * SectorsPerCluster

(* The free clusters before the header are room for the metadata that a    *)
(* mounting system writes: until it has taken as many clusters as the gap  *)
(* has, header and payload are as format left them (HAZMAT_CLUSTER_GAP,    *)
(* msfat32.rs:17; msfat32.rs:563).                                         *)
GapIsRoom ==
  Formatted /\ Cardinality(taken) <= HeaderCluster - 3 =>
    \A c \in taken : ClusterLba(c) + SectorsPerCluster <= Header.starting - 1

(* A mounting system that damages the payload has taken the cluster of the *)
(* header before, so that a damaged payload is never opened: as long as    *)
(* that cluster is free every file lies in the gap before the header,      *)
(* wherever the system looks first (patch_fsinfo_sector, msfat32.rs:271;   *)
(* first_unused_cluster_lba, msfat32.rs:567).                              *)
HeaderGoesFirst ==
  Formatted /\ HeaderCluster \notin taken =>
    \A c \in taken : ClusterLba(c) + SectorsPerCluster <= Header.starting - 1
=============================================================================
