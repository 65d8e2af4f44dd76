----------------------------- MODULE CoverProofs ----------------------------
(***************************************************************************)
(* Proofs about CoverImage for every size of a target and every layout     *)
(* that satisfies the assumptions, the one of the source among them.       *)
(***************************************************************************)
EXTENDS CoverRefinement, Fat32Proofs, FiniteSetTheorems, SequenceTheorems

(* Planning and opening are those of Fat32Geometry; the writes leave its   *)
(* variables alone.                                                        *)
THEOREM CoverIsGeometry == CoverSpec => Spec
<1>1. CoverInit => Init
  BY DEF CoverInit
<1>2. [CoverNext]_allVars => [Next]_vars
  <2> SUFFICES ASSUME [CoverNext]_allVars PROVE [Next]_vars
    OBVIOUS
  <2>1. CASE Plan
    BY <2>1 DEF Plan, Next
  <2>2. CASE WriteNext
    BY <2>2 DEF WriteNext, vars
  <2>3. CASE Sync \/ WriteFails
    BY <2>3 DEF Sync, WriteFails, vars
  <2>4. CASE \E search \in Searches, n \in FileClusters : WriteFile(search, n)
    BY <2>4 DEF WriteFile, vars
  <2>5. CASE OpenCover
    BY <2>5 DEF OpenCover, Next
  <2>6. CASE UNCHANGED allVars
    BY <2>6 DEF allVars, vars
  <2> QED
    BY <2>1, <2>2, <2>3, <2>4, <2>5, <2>6 DEF CoverNext
<1> QED
  BY <1>1, <1>2, PTL DEF CoverSpec, Spec

(* The invariant of the geometry holds while the structures are written    *)
(* and the cover filesystem is used.                                       *)
THEOREM CoverGeometry == CoverSpec => []IInv
  BY CoverIsGeometry, Inductive, PTL

-----------------------------------------------------------------------------
(* The places of a sound layout, in their order on the target. *)
LEMMA Places ==
  ASSUME IInv, Planned
  PROVE  /\ guess \in Nat \ {0} /\ disk \in Nat /\ TotalClusters(guess) \in Nat
         /\ 2 + GptEntrySectors = MsrLba /\ MsrLba + MsrSectors <= StartLba
         /\ MsrLba \in Nat /\ MsrSectors \in Nat \ {0}
         /\ GptEntrySectors \in Nat \ {0}
         /\ SectorsPerCluster \in Nat \ {0} /\ StartLba \in Nat
         /\ StartLba + Reserved(guess) = FirstFatLba(guess) /\ Reserved(guess) \in Nat \ {0}
         /\ FirstFatLba(guess) \in Nat
         /\ FirstFatLba(guess) + guess = SecondFatLba(guess)
         /\ SecondFatLba(guess) + guess = DataStartLba(guess)
         /\ DataStartLba(guess) + SectorsPerCluster <= FirstUnusedSectorLba(guess)
         /\ FirstUnusedSectorLba(guess) \in Nat /\ DataEndLba(guess) \in Int
         /\ FirstUnusedSectorLba(guess) < DataEndLba(guess)
         /\ DataEndLba(guess) <= PartitionEndLba /\ PartitionEndLba \in Nat
         /\ PartitionEndLba + 1 < BackupEntriesLba /\ BackupEntriesLba \in Nat
         /\ BackupEntriesLba + GptEntrySectors = LastLba /\ LastLba + 1 = disk
         /\ FatPrefixSectors \in Nat \ {0} /\ FatPrefixSectors <= guess
<1> DEFINE c == TotalClusters(guess)
           d == DataStartLba(guess)
           o == DataOffset(guess)
<1>1. /\ StartLba \in Nat /\ TrailingGap \in Nat /\ GptEntrySectors \in Nat
      /\ MinReserved \in Nat \ {0} /\ Fats = 2 /\ SectorsPerCluster \in Nat \ {0}
      /\ HeaderCluster \in Nat /\ MinClusters \in Nat /\ MaxU32 \in Nat
      /\ SectorSize \in Nat \ {0} /\ EntrySize \in Nat \ {0}
      /\ TrailingGap > GptEntrySectors /\ DiskSizes \subseteq Nat
  BY LayoutAssumption DEF BackupBootSector
<1>2. /\ MsrLba \in Nat /\ MsrSectors \in Nat \ {0} /\ 2 + GptEntrySectors = MsrLba
      /\ GptEntrySectors # 0 /\ GptEntrySectors + 1 < TrailingGap
      /\ MsrLba + MsrSectors <= StartLba /\ FatPrefixSectors \in Nat \ {0}
      /\ FatPrefixSectors * SectorSize <= (MinClusters + 2) * EntrySize
      /\ HeaderCluster > 2
  BY TemplateAssumption
<1>3. /\ disk \in Nat /\ guess \in Nat /\ Allowed /\ Fits(guess) /\ Encodable(guess)
      /\ RequiredFatSectors(guess) = guess
  BY <1>1 DEF IInv, TypeOK
<1>4. /\ PartitionLen \in Nat /\ o \in Nat /\ o >= 2 * guess + MinReserved
      /\ c \in Nat /\ (c + 2) * EntrySize <= guess * SectorSize
  BY <1>3, SizesFollow
<1>5. RegionsDisjoint /\ PayloadInsideData
  BY RegionsFollow, PayloadFollows
<1>6. /\ DataEndLba(guess) <= PartitionEndLba
      /\ FirstUnusedSectorLba(guess) < DataEndLba(guess)
  BY <1>5 DEF RegionsDisjoint, PayloadInsideData
<1>7. /\ StartLba + Reserved(guess) = FirstFatLba(guess) /\ Reserved(guess) \in Nat \ {0}
      /\ FirstFatLba(guess) \in Nat /\ d \in Nat
      /\ FirstFatLba(guess) + guess = SecondFatLba(guess)
      /\ SecondFatLba(guess) + guess = d
  BY <1>1, <1>3, <1>4 DEF Reserved, FirstFatLba, SecondFatLba, DataStartLba, FatArea
<1>8. /\ BackupEntriesLba + GptEntrySectors = LastLba /\ LastLba + 1 = disk
      /\ BackupEntriesLba \in Nat /\ PartitionEndLba \in Nat
      /\ PartitionEndLba + 1 < BackupEntriesLba
  BY <1>1, <1>2, <1>3 DEF Allowed, BackupEntriesLba, LastLba, PartitionEndLba
<1>9. /\ d + SectorsPerCluster <= FirstUnusedSectorLba(guess)
      /\ FirstUnusedSectorLba(guess) \in Nat
  <2>1. /\ HeaderCluster - 2 \in Nat /\ HeaderCluster - 2 >= 1
        /\ (HeaderCluster - 2) * SectorsPerCluster >= SectorsPerCluster
        /\ (HeaderCluster - 2) * SectorsPerCluster \in Nat
    BY <1>1, <1>2
  <2>2. FirstUnusedSectorLba(guess) = d + (HeaderCluster - 2) * SectorsPerCluster
    BY DEF FirstUnusedSectorLba
  <2> HIDE DEF d
  <2> QED
    BY <1>1, <1>7, <2>1, <2>2
<1>10. DataEndLba(guess) \in Int
  <2>1. c * SectorsPerCluster \in Nat
    BY <1>1, <1>4
  <2> QED
    BY <1>7, <2>1 DEF DataEndLba
<1>11. FatPrefixSectors <= guess
  <2>1. c >= MinClusters
    BY <1>1, <1>3, <1>4 DEF Encodable
  <2>2. (MinClusters + 2) * EntrySize <= (c + 2) * EntrySize
    BY <1>1, <1>4, <2>1
  <2>3. /\ FatPrefixSectors * SectorSize \in Nat /\ guess * SectorSize \in Nat
        /\ (MinClusters + 2) * EntrySize \in Nat /\ (c + 2) * EntrySize \in Nat
    BY <1>1, <1>2, <1>3, <1>4
  <2>4. FatPrefixSectors * SectorSize <= guess * SectorSize
    BY <1>2, <1>4, <2>2, <2>3
  <2> SUFFICES ASSUME guess + 1 <= FatPrefixSectors PROVE FALSE
    BY <1>2, <1>3
  <2>5. (guess + 1) * SectorSize <= FatPrefixSectors * SectorSize
    BY <1>1, <1>2, <1>3
  <2>6. (guess + 1) * SectorSize = guess * SectorSize + SectorSize
    BY <1>1, <1>3
  <2> QED
    BY <1>1, <2>3, <2>4, <2>5, <2>6
<1>12. guess # 0
  BY <1>2, <1>11
<1> QED
  BY <1>1, <1>2, <1>3, <1>4, <1>6, <1>7, <1>8, <1>9, <1>10, <1>11, <1>12

(* The list of the writes, one by one. *)
LEMMA List ==
  /\ Writes[1] = W("zeroes", MsrLba, StartLba - MsrLba)
  /\ Writes[2] = W("zeroes", FirstFatLba(guess), guess)
  /\ Writes[3] = W("zeroes", SecondFatLba(guess), guess)
  /\ Writes[4] = W("zeroes", PartitionEndLba + 1, BackupEntriesLba - (PartitionEndLba + 1))
  /\ Writes[5] = W("mbr", 0, 1)
  /\ Writes[6] = W("gpt", 1, 1)
  /\ Writes[7] = W("entries", 2, GptEntrySectors)
  /\ Writes[8] = W("msr", MsrLba, MsrSectors)
  /\ Writes[9] = W("reserved", StartLba, Reserved(guess))
  /\ Writes[10] = W("fat", FirstFatLba(guess), FatPrefixSectors)
  /\ Writes[11] = W("fat", SecondFatLba(guess), FatPrefixSectors)
  /\ Writes[12] = W("root", DataStartLba(guess), SectorsPerCluster)
  /\ Writes[13] = W("entries", BackupEntriesLba, GptEntrySectors)
  /\ Writes[14] = W("gpt", LastLba, 1)
  /\ Writes[15] = W("header", FirstUnusedSectorLba(guess), 1)
<1>1. /\ Writes[1] = W("zeroes", MsrLba, StartLba - MsrLba)
      /\ Writes[2] = W("zeroes", FirstFatLba(guess), guess)
      /\ Writes[3] = W("zeroes", SecondFatLba(guess), guess)
      /\ Writes[4] = W("zeroes", PartitionEndLba + 1, BackupEntriesLba - (PartitionEndLba + 1))
  BY DEF Writes, Zeroes, Structures, HeaderWrite
<1>2. /\ Writes[5] = W("mbr", 0, 1)
      /\ Writes[6] = W("gpt", 1, 1)
      /\ Writes[7] = W("entries", 2, GptEntrySectors)
      /\ Writes[8] = W("msr", MsrLba, MsrSectors)
      /\ Writes[9] = W("reserved", StartLba, Reserved(guess))
  BY DEF Writes, Zeroes, Structures, HeaderWrite
<1>3. /\ Writes[10] = W("fat", FirstFatLba(guess), FatPrefixSectors)
      /\ Writes[11] = W("fat", SecondFatLba(guess), FatPrefixSectors)
      /\ Writes[12] = W("root", DataStartLba(guess), SectorsPerCluster)
      /\ Writes[13] = W("entries", BackupEntriesLba, GptEntrySectors)
      /\ Writes[14] = W("gpt", LastLba, 1)
  BY DEF Writes, Zeroes, Structures, HeaderWrite
<1>4. Writes[15] = W("header", FirstUnusedSectorLba(guess), 1)
  BY DEF Writes, Zeroes, Structures, HeaderWrite
<1> QED
  BY <1>1, <1>2, <1>3, <1>4

(* The sector behind a write. *)
End(w) == w.at + w.len

(* Where the writes begin and end. *)
LEMMA Spans ==
  ASSUME IInv, Planned
  PROVE  /\ Writes[1].at = MsrLba /\ End(Writes[1]) = StartLba
         /\ Writes[2].at = FirstFatLba(guess) /\ End(Writes[2]) = SecondFatLba(guess)
         /\ Writes[3].at = SecondFatLba(guess) /\ End(Writes[3]) = DataStartLba(guess)
         /\ Writes[4].at = PartitionEndLba + 1 /\ End(Writes[4]) = BackupEntriesLba
         /\ Writes[5].at = 0 /\ End(Writes[5]) = 1
         /\ Writes[6].at = 1 /\ End(Writes[6]) = 2
         /\ Writes[7].at = 2 /\ End(Writes[7]) <= MsrLba
         /\ Writes[8].at = MsrLba /\ End(Writes[8]) <= StartLba
         /\ Writes[9].at = StartLba /\ End(Writes[9]) = FirstFatLba(guess)
         /\ Writes[10].at = FirstFatLba(guess) /\ End(Writes[10]) <= SecondFatLba(guess)
         /\ Writes[11].at = SecondFatLba(guess) /\ End(Writes[11]) <= DataStartLba(guess)
         /\ Writes[12].at = DataStartLba(guess)
         /\ End(Writes[12]) <= FirstUnusedSectorLba(guess)
         /\ Writes[13].at = BackupEntriesLba /\ End(Writes[13]) = LastLba
         /\ Writes[14].at = LastLba /\ End(Writes[14]) = disk
         /\ Writes[15].at = FirstUnusedSectorLba(guess)
         /\ End(Writes[15]) <= DataEndLba(guess)
<1>1. \A what, at, len : W(what, at, len).at = at /\ W(what, at, len).len = len
  BY DEF W
<1>2. /\ Writes[1].len = StartLba - MsrLba /\ Writes[2].len = guess
      /\ Writes[3].len = guess
      /\ Writes[4].len = BackupEntriesLba - (PartitionEndLba + 1)
      /\ Writes[5].len = 1 /\ Writes[6].len = 1 /\ Writes[7].len = GptEntrySectors
      /\ Writes[8].len = MsrSectors /\ Writes[9].len = Reserved(guess)
      /\ Writes[10].len = FatPrefixSectors /\ Writes[11].len = FatPrefixSectors
      /\ Writes[12].len = SectorsPerCluster /\ Writes[13].len = GptEntrySectors
      /\ Writes[14].len = 1 /\ Writes[15].len = 1
  BY <1>1, List
<1>3. /\ Writes[1].at = MsrLba /\ Writes[2].at = FirstFatLba(guess)
      /\ Writes[3].at = SecondFatLba(guess) /\ Writes[4].at = PartitionEndLba + 1
      /\ Writes[5].at = 0 /\ Writes[6].at = 1 /\ Writes[7].at = 2
      /\ Writes[8].at = MsrLba /\ Writes[9].at = StartLba
      /\ Writes[10].at = FirstFatLba(guess) /\ Writes[11].at = SecondFatLba(guess)
      /\ Writes[12].at = DataStartLba(guess) /\ Writes[13].at = BackupEntriesLba
      /\ Writes[14].at = LastLba /\ Writes[15].at = FirstUnusedSectorLba(guess)
  BY <1>1, List
<1> QED
  BY <1>2, <1>3, Places DEF End

(* A structure lies apart from all writes behind it. *)
LEMMA Apart ==
  ASSUME IInv, Planned, NEW i \in 5 .. 15, NEW j \in i + 1 .. 15
  PROVE  End(Writes[i]) <= Writes[j].at \/ End(Writes[j]) <= Writes[i].at
<1>1. /\ 2 <= MsrLba /\ MsrLba <= StartLba
      /\ StartLba <= FirstFatLba(guess) /\ FirstFatLba(guess) <= SecondFatLba(guess)
      /\ SecondFatLba(guess) <= DataStartLba(guess)
      /\ DataStartLba(guess) <= FirstUnusedSectorLba(guess)
      /\ FirstUnusedSectorLba(guess) <= DataEndLba(guess)
      /\ DataEndLba(guess) <= BackupEntriesLba /\ BackupEntriesLba <= LastLba
      /\ MsrLba \in Int /\ StartLba \in Int /\ FirstFatLba(guess) \in Int
      /\ SecondFatLba(guess) \in Int /\ DataStartLba(guess) \in Int
      /\ FirstUnusedSectorLba(guess) \in Int /\ DataEndLba(guess) \in Int
      /\ BackupEntriesLba \in Int /\ LastLba \in Int /\ disk \in Int
  BY Places
<1> DEFINE at(n) == Writes[n].at
           to(n) == End(Writes[n])
<1>2. /\ at(5) = 0 /\ at(6) = 1 /\ at(7) = 2 /\ at(8) = MsrLba /\ at(9) = StartLba
      /\ at(10) = FirstFatLba(guess) /\ at(11) = SecondFatLba(guess)
      /\ at(12) = DataStartLba(guess) /\ at(13) = BackupEntriesLba /\ at(14) = LastLba
      /\ at(15) = FirstUnusedSectorLba(guess)
      /\ to(5) = 1 /\ to(6) = 2 /\ to(7) <= MsrLba /\ to(8) <= StartLba
      /\ to(9) = FirstFatLba(guess) /\ to(10) <= SecondFatLba(guess)
      /\ to(11) <= DataStartLba(guess) /\ to(12) <= FirstUnusedSectorLba(guess)
      /\ to(13) = LastLba /\ to(14) = disk /\ to(15) <= DataEndLba(guess)
  BY Spans
<1>3. \A n \in 5 .. 15 : at(n) \in Int /\ to(n) \in Int
  BY <1>1, <1>2, Places, List DEF W, End
<1> SUFFICES to(i) <= at(j) \/ to(j) <= at(i)
  OBVIOUS
<1> HIDE DEF at, to
<1>4. j = 6 \/ j = 7 \/ j = 8 \/ j = 9 \/ j = 10 \/ j = 11 \/ j = 12 \/ j = 13 \/ j = 14 \/ j = 15
  OBVIOUS
<1>5. at(j) >= 1 /\ (j # 6 => at(j) >= 2) /\ (j \notin {6, 7} => at(j) >= MsrLba)
  BY <1>1, <1>2, <1>4
<1>6. /\ j \notin {6, 7, 8} => at(j) >= StartLba
      /\ j \notin {6, 7, 8, 9} => at(j) >= FirstFatLba(guess)
      /\ j \notin {6, 7, 8, 9, 10} => at(j) >= SecondFatLba(guess)
      /\ j \notin {6, 7, 8, 9, 10, 11} => at(j) >= DataStartLba(guess)
      /\ j \in {13, 14, 15} => at(j) >= FirstUnusedSectorLba(guess)
  BY <1>1, <1>2, <1>4
<1>7. CASE i \in {5, 6, 7}
  BY <1>1, <1>2, <1>3, <1>5, <1>7
<1>8. CASE i \in {8, 9, 10}
  BY <1>1, <1>2, <1>3, <1>6, <1>8
<1>9. CASE i \in {11, 12}
  BY <1>1, <1>2, <1>3, <1>6, <1>9
<1>10. CASE i \in {13, 14}
  <2>1. (i = 13 /\ j = 14) \/ j = 15
    BY <1>10
  <2>2. to(13) <= at(14)
    BY <1>1, <1>2
  <2>3. to(15) <= at(13) /\ to(15) <= at(14)
    BY <1>1, <1>2, <1>3
  <2> QED
    BY <1>10, <2>1, <2>2, <2>3
<1>11. i \in {5, 6, 7} \/ i \in {8, 9, 10} \/ i \in {11, 12} \/ i \in {13, 14}
  OBVIOUS
<1> QED
  BY <1>7, <1>8, <1>9, <1>10, <1>11

-----------------------------------------------------------------------------
(* Where the writes of format are, as integers; none of them is empty.     *)
LEMMA Integral ==
  ASSUME IInv, Planned, NEW n \in 1 .. 15
  PROVE  /\ Writes[n].at \in Int /\ Writes[n].len \in Nat \ {0}
         /\ End(Writes[n]) \in Int
<1>1. \A k \in 1 .. 15 : Writes[k].at \in Int /\ Writes[k].len \in Int /\ Writes[k].len > 0
  BY Places, List DEF W
<1> QED
  BY <1>1 DEF End

(* A step that leaves the layout alone leaves the list of the writes alone. *)
LEMMA LayoutStays ==
  ASSUME guess' = guess, disk' = disk
  PROVE  Writes' = Writes /\ TotalClusters(guess)' = TotalClusters(guess)
<1>1. /\ FirstFatLba(guess)' = FirstFatLba(guess)
      /\ SecondFatLba(guess)' = SecondFatLba(guess)
      /\ DataStartLba(guess)' = DataStartLba(guess)
      /\ FirstUnusedSectorLba(guess)' = FirstUnusedSectorLba(guess)
      /\ Reserved(guess)' = Reserved(guess)
      /\ PartitionEndLba' = PartitionEndLba /\ BackupEntriesLba' = BackupEntriesLba
      /\ LastLba' = LastLba
  BY DEF FirstFatLba, SecondFatLba, DataStartLba, FirstUnusedSectorLba, Reserved,
         DataOffset, FatArea, PartitionEndLba, BackupEntriesLba, LastLba
<1>2. TotalClusters(guess)' = TotalClusters(guess)
  BY <1>1 DEF TotalClusters, PartitionLen, DataOffset, FatArea
<1>3. Zeroes' = Zeroes /\ Structures' = Structures /\ HeaderWrite' = HeaderWrite
  BY <1>1 DEF Zeroes, Structures, HeaderWrite, W
<1> QED
  BY <1>2, <1>3 DEF Writes

(* What the properties of the writes need besides the geometry: nothing is *)
(* written, and no cluster taken, before the layout is found; a write in   *)
(* progress has sectors to go; the header follows the fsync.               *)
CInv ==
  /\ IInv
  /\ made \in 0 .. NrWrites
  /\ part \in Nat
  /\ part # 0 => made < NrWrites /\ pc = "patched" /\ part < Writes[made + 1].len
  /\ synced \in BOOLEAN
  /\ synced => made >= NrStructures
  /\ made = NrWrites => synced
  /\ failed \in BOOLEAN
  /\ made # 0 \/ taken # {} => pc \in {"patched", "opened"}
  /\ taken \subseteq 3 .. TotalClusters(guess) + 1

(* The first free run is free, and none before it is.                      *)
LEMMA FirstFreeIsFree ==
  ASSUME NEW search \in {"lowest", "hint"}, NEW n \in Nat, ~NoRoom(search, n)
  PROVE  LET c == FirstFree(search, n)
         IN /\ c \in Nat /\ c >= SearchFrom(search)
            /\ FreeRun(c, n)
            /\ \A b \in SearchFrom(search) .. c - 1 : ~FreeRun(b, n)
<1>1. SearchFrom(search) \in Nat /\ MaxTaken \in Nat
  BY LayoutAssumption, TemplateAssumption DEF SearchFrom, FsInfo
<1> DEFINE free == {c \in Window(search) : FreeRun(c, n)}
<1>2. free \in SUBSET Nat /\ free # {}
  BY <1>1 DEF NoRoom, Window
<1>3. PICK m \in free : \A c \in free : m <= c
  BY <1>2, Least
<1>4. ASSUME NEW b \in SearchFrom(search) .. m - 1
      PROVE  ~FreeRun(b, n)
  <2>1. m \in Nat /\ m \in Window(search)
    BY <1>2, <1>3
  <2>2. b \in Window(search) /\ ~(m <= b)
    BY <1>1, <2>1 DEF Window
  <2> QED
    BY <1>3, <2>2
<1>5. /\ m \in Window(search) /\ FreeRun(m, n)
      /\ \A b \in SearchFrom(search) .. m - 1 : ~FreeRun(b, n)
  BY <1>3, <1>4
<1> DEFINE c == FirstFree(search, n)
<1>6. /\ c \in Window(search) /\ FreeRun(c, n)
      /\ \A b \in SearchFrom(search) .. c - 1 : ~FreeRun(b, n)
  BY <1>5 DEF FirstFree
<1>7. c \in Nat /\ c >= SearchFrom(search)
  BY <1>1, <1>6 DEF Window
<1> QED
  BY <1>6, <1>7

(* Before the first write nothing is made and nothing taken.               *)
LEMMA CoverInitCInv == CoverInit => CInv
<1> SUFFICES ASSUME CoverInit PROVE CInv
  OBVIOUS
<1>1. IInv
  BY InitIInv DEF CoverInit
<1>2. made = 0 /\ part = 0 /\ synced = FALSE /\ failed = FALSE /\ taken = {}
  BY DEF CoverInit
<1>3. failed \in BOOLEAN /\ synced \in BOOLEAN /\ taken \subseteq 3 .. TotalClusters(guess) + 1
  BY <1>2
<1>4. /\ made \in 0 .. NrWrites /\ ~(made # 0 \/ taken # {}) /\ part \in Nat
      /\ ~(part # 0) /\ ~synced /\ made # NrWrites
  BY <1>2 DEF NrWrites
<1> QED
  BY <1>1, <1>3, <1>4 DEF CInv

(* What a call of write(2) is asked for ends with the write at the latest. *)
LEMMA CallEnds ==
  ASSUME CInv, Writing
  PROVE  /\ made \in 0 .. 14 /\ IInv /\ Planned
         /\ Writes[made + 1].len \in Nat \ {0}
         /\ Asked(Writes[made + 1]) \in Int
         /\ Asked(Writes[made + 1]) <= Writes[made + 1].len
<1>1. /\ made \in 0 .. 14 /\ made + 1 \in 1 .. 15 /\ IInv /\ Planned /\ part \in Nat
      /\ ZeroChunk \in Nat \ {0}
  BY TemplateAssumption DEF CInv, Writing, NrWrites, Planned
<1>2. Writes[made + 1].len \in Nat \ {0}
  BY <1>1, Integral
<1>3. part % ZeroChunk \in Int
  BY <1>1
<1> QED
  BY <1>1, <1>2, <1>3 DEF Asked, Earlier

(* A call moves at least one sector of the write in progress, or the last. *)
LEMMA CallMoves ==
  ASSUME CInv, WriteNext
  PROVE  /\ Writing /\ UNCHANGED vars
         /\ synced' = synced /\ failed' = failed /\ taken' = taken
         /\ \/ made' = made + 1 /\ part' = 0
            \/ /\ made' = made /\ part' \in Nat \ {0} /\ part' < Writes[made + 1].len
               /\ part < part'
<1>1. Writing /\ UNCHANGED vars /\ synced' = synced /\ failed' = failed /\ taken' = taken
  BY DEF WriteNext
<1> DEFINE w == Writes[made + 1]
<1>2. PICK to \in Stops \cup {Asked(w)} :
        /\ part < to /\ to <= Asked(w)
        /\ IF to = w.len THEN made' = made + 1 /\ part' = 0
                         ELSE part' = to /\ UNCHANGED made
  BY DEF WriteNext
<1>3. w.len \in Nat \ {0} /\ Asked(w) \in Int /\ Asked(w) <= w.len
  BY <1>1, CallEnds
<1>4. to \in Int /\ part \in Nat
  BY <1>3, TemplateAssumption DEF CInv
<1> HIDE DEF w
<1> QED
  BY <1>1, <1>2, <1>3, <1>4 DEF w

(* Every call, failing call and file of another system preserves the       *)
(* invariant.                                                              *)
LEMMA CoverNextCInv == CInv /\ [CoverNext]_allVars => CInv'
<1> SUFFICES ASSUME CInv, [CoverNext]_allVars PROVE CInv'
  OBVIOUS
<1>1. IInv'
  <2>1. [Next]_vars
    BY DEF CoverNext, allVars, vars, Plan, Next, WriteNext, Sync, WriteFails, WriteFile,
           OpenCover
  <2> QED
    BY <2>1, NextIInv DEF CInv
<1>2. CASE Plan
  <2>1. /\ made' = made /\ part' = part /\ synced' = synced /\ failed' = failed
        /\ taken' = taken
    BY <1>2 DEF Plan, coverVars
  <2>2. pc \notin {"patched", "opened"}
    BY <1>2 DEF Plan, CheckMinimum, CheckLayout, Retry, TooSmall, Accept, Patch
  <2>3. made = 0 /\ taken = {} /\ part = 0 /\ ~synced
    BY <2>2 DEF CInv, NrStructures
  <2> QED
    BY <1>1, <2>1, <2>3 DEF CInv, NrWrites
<1>3. ASSUME UNCHANGED vars
      PROVE  /\ pc' = pc /\ Writes' = Writes
             /\ TotalClusters(guess)' = TotalClusters(guess)
  BY <1>3, LayoutStays DEF vars
<1>4. CASE WriteNext
  <2>1. /\ Writing /\ pc = "patched" /\ UNCHANGED vars
        /\ synced' = synced /\ failed' = failed /\ taken' = taken
        /\ \/ made' = made + 1 /\ part' = 0
           \/ /\ made' = made /\ part' \in Nat \ {0} /\ part' < Writes[made + 1].len
              /\ part < part'
    BY <1>4, CallMoves DEF Writing
  <2>2. /\ made \in 0 .. 14
        /\ made = NrStructures => synced
        /\ made' \in 0 .. NrWrites /\ made' >= made /\ made' \in {made, made + 1}
    BY <2>1 DEF CInv, NrWrites, Writing
  <2>3. part' \in Nat
    BY <2>1
  <2>4. (part # 0 => made < NrWrites /\ pc = "patched" /\ part < Writes[made + 1].len)'
    <3>1. CASE part' = 0
      BY <3>1
    <3>2. CASE part' # 0
      <4>1. made' = made /\ part' < Writes[made + 1].len
        BY <2>1, <3>2
      <4>2. made' < NrWrites
        BY <2>2, <4>1 DEF NrWrites
      <4>3. pc' = "patched" /\ Writes' = Writes
        BY <1>3, <2>1
      <4> QED
        BY <4>1, <4>2, <4>3
    <3> QED
      BY <3>1, <3>2
  <2>5. (synced => made >= NrStructures)' /\ (made = NrWrites => synced)'
    BY <2>1, <2>2 DEF CInv, NrStructures, NrWrites
  <2> QED
    BY <1>1, <1>3, <2>1, <2>2, <2>3, <2>4, <2>5 DEF CInv
<1>5. CASE Sync
  <2>1. /\ UNCHANGED vars /\ failed' = failed /\ taken' = taken /\ made' = made
        /\ part' = part /\ synced' = TRUE /\ made = NrStructures
    BY <1>5 DEF Sync
  <2>2. NrStructures >= NrStructures
    BY DEF NrStructures
  <2> QED
    BY <1>1, <1>3, <2>1, <2>2 DEF CInv
<1>6. CASE WriteFails
  <2>1. /\ UNCHANGED vars /\ failed' = TRUE /\ taken' = taken /\ made' = made
        /\ part' = part /\ synced' = synced
    BY <1>6 DEF WriteFails
  <2> QED
    BY <1>1, <1>3, <2>1 DEF CInv
<1>7. CASE \E search \in Searches, n \in FileClusters : WriteFile(search, n)
  <2>1. PICK search \in Searches, n \in FileClusters : WriteFile(search, n)
    BY <1>7
  <2>2. search \in {"lowest", "hint"} /\ n \in Nat \ {0} /\ HeaderCluster > 2
        /\ HeaderCluster \in Nat
    BY TemplateAssumption, LayoutAssumption
  <2> DEFINE first == FirstFree(search, n)
  <2>3. /\ UNCHANGED vars /\ failed' = failed /\ made' = made /\ pc = "patched"
        /\ part' = part /\ synced' = synced
        /\ first + n - 1 <= TotalClusters(guess) + 1
        /\ taken' = taken \cup (first .. first + n - 1)
        /\ ~NoRoom(search, n)
    BY <2>1 DEF WriteFile, Formatted
  <2>4. first \in Nat /\ first >= SearchFrom(search) /\ FreeRun(first, n)
    BY <2>2, <2>3, FirstFreeIsFree
  <2>5. first >= 2
    BY <2>2, <2>4 DEF SearchFrom, FsInfo
  <2>6. first # 2
    <3>1. first \in first .. first + n - 1
      BY <2>2, <2>4
    <3> QED
      BY <2>4, <3>1 DEF FreeRun, Allocated
  <2> HIDE DEF first
  <2>7. TotalClusters(guess) \in Nat
    BY <2>3, Places DEF CInv, Planned
  <2>8. taken' \subseteq 3 .. TotalClusters(guess) + 1
    <3>1. taken \subseteq 3 .. TotalClusters(guess) + 1
      BY DEF CInv
    <3> QED
      BY <2>2, <2>3, <2>4, <2>5, <2>6, <2>7, <3>1
  <2> QED
    BY <1>1, <1>3, <2>3, <2>8 DEF CInv
<1>8. CASE OpenCover
  <2>1. /\ made' = made /\ failed' = failed /\ taken' = taken /\ part' = part
        /\ synced' = synced /\ guess' = guess /\ disk' = disk /\ made = NrWrites
    BY <1>8 DEF OpenCover, Open, coverVars, Formatted
  <2>2. pc' = "opened"
    <3>1. pc' \in {"opened", "lost"}
      BY <1>8 DEF OpenCover, Open
    <3> QED
      BY <1>1, <3>1 DEF IInv
  <2>3. TotalClusters(guess)' = TotalClusters(guess) /\ part = 0
    BY <2>1, LayoutStays DEF CInv, NrWrites
  <2> QED
    BY <1>1, <2>1, <2>2, <2>3 DEF CInv
<1>9. CASE UNCHANGED allVars
  <2>1. /\ UNCHANGED vars /\ failed' = failed /\ taken' = taken /\ made' = made
        /\ part' = part /\ synced' = synced
    BY <1>9 DEF allVars, coverVars
  <2> QED
    BY <1>1, <1>3, <2>1 DEF CInv
<1> QED
  BY <1>2, <1>4, <1>5, <1>6, <1>7, <1>8, <1>9 DEF CoverNext

(* CInv holds in every reachable state.                                    *)
THEOREM CoverInductive == CoverSpec => []CInv
  BY CoverInitCInv, CoverNextCInv, PTL DEF CoverSpec

(* The writes are counted, and no cluster that is not free in the FAT is   *)
(* taken (patched_fat_prefix, msfat32.rs:276).                             *)
THEOREM CoverTypes == CoverSpec => []CoverTypeOK
<1>1. CInv => CoverTypeOK
  BY DEF CInv, IInv, CoverTypeOK
<1> QED
  BY <1>1, CoverInductive, PTL

-----------------------------------------------------------------------------
(* No structure is overwritten by a later write, and none passes the end   *)
(* of the target (write_structures, msfat32.rs:641-675).                   *)
THEOREM NothingOverwritten == CoverSpec => []StructuresIntact
<1>1. ASSUME CInv, Planned
      PROVE  StructuresIntact
  <2>1. IInv /\ made \in 0 .. 15
    BY <1>1 DEF CInv, NrWrites
  <2>2. ASSUME NEW i \in 1 .. made
        PROVE  Writes[i].at + Writes[i].len <= disk
    <3>1. i \in 1 .. 15
      BY <2>1, <2>2
    <3>2. /\ StartLba <= disk /\ SecondFatLba(guess) <= disk
          /\ DataStartLba(guess) <= disk /\ BackupEntriesLba <= disk
          /\ MsrLba <= disk /\ FirstFatLba(guess) <= disk /\ 2 <= disk
          /\ FirstUnusedSectorLba(guess) <= disk /\ LastLba <= disk
          /\ DataEndLba(guess) <= disk
      BY <2>1, <1>1, Places
    <3>3. /\ StartLba \in Int /\ SecondFatLba(guess) \in Int
          /\ DataStartLba(guess) \in Int /\ BackupEntriesLba \in Int
          /\ MsrLba \in Int /\ FirstFatLba(guess) \in Int
          /\ FirstUnusedSectorLba(guess) \in Int /\ LastLba \in Int
          /\ DataEndLba(guess) \in Int /\ disk \in Int
      BY <2>1, <1>1, Places
    <3>4. \A n \in 1 .. 15 : End(Writes[n]) \in Int
      BY <2>1, <1>1, Places, List DEF W, End
    <3>5. /\ End(Writes[1]) <= disk /\ End(Writes[2]) <= disk /\ End(Writes[3]) <= disk
          /\ End(Writes[4]) <= disk /\ End(Writes[5]) <= disk /\ End(Writes[6]) <= disk
          /\ End(Writes[7]) <= disk /\ End(Writes[8]) <= disk
      BY <2>1, <1>1, <3>2, <3>3, <3>4, Spans
    <3>6. /\ End(Writes[9]) <= disk /\ End(Writes[10]) <= disk /\ End(Writes[11]) <= disk
          /\ End(Writes[12]) <= disk /\ End(Writes[13]) <= disk /\ End(Writes[14]) <= disk
          /\ End(Writes[15]) <= disk
      BY <2>1, <1>1, <3>2, <3>3, <3>4, Spans
    <3>7. End(Writes[i]) <= disk
      BY <3>1, <3>5, <3>6
    <3> QED
      BY <3>7 DEF End
  <2>3. ASSUME NEW i \in 1 .. made, Writes[i].what # "zeroes", NEW j \in i + 1 .. made
        PROVE  ~Meets(Writes[i], Writes[j].at, Writes[j].at + Writes[j].len - 1)
    <3>1. i \notin {1, 2, 3, 4}
      BY <2>3, List DEF W
    <3>2. i \in 5 .. 15 /\ j \in i + 1 .. 15
      BY <2>1, <3>1
    <3>3. End(Writes[i]) <= Writes[j].at \/ End(Writes[j]) <= Writes[i].at
      BY <1>1, <2>1, <3>2, Apart
    <3>4. \A n \in 1 .. 15 : Writes[n].at \in Int /\ Writes[n].len \in Int
      BY <2>1, <1>1, Places, List DEF W
    <3>5. /\ Writes[i].at \in Int /\ Writes[i].len \in Int
          /\ Writes[j].at \in Int /\ Writes[j].len \in Int
      BY <3>2, <3>4
    <3> QED
      BY <3>3, <3>5 DEF End, Meets
  <2> QED
    BY <2>2, <2>3 DEF StructuresIntact
<1>2. CInv => StructuresIntact
  BY <1>1 DEF StructuresIntact
<1> QED
  BY <1>2, CoverInductive, PTL

-----------------------------------------------------------------------------
(* Every write of a complete format is one of the fifteen.                 *)
LEMMA Complete ==
  ASSUME CInv, Formatted
  PROVE  IInv /\ Planned /\ Patched /\ made = 15
BY DEF CInv, Formatted, Planned, Patched, NrWrites

(* What a write is, from its place in the list.                            *)
LEMMA Kind ==
  /\ Writes[6].what = "gpt" /\ Writes[6].at = 1
  /\ Writes[7].what = "entries" /\ Writes[7].at = 2
  /\ Writes[13].what = "entries" /\ Writes[13].at = BackupEntriesLba
  /\ Writes[14].what = "gpt" /\ Writes[14].at = LastLba
  /\ Writes[15].what = "header" /\ Writes[15].at = FirstUnusedSectorLba(guess)
BY List DEF W

(* Where open looks for the header there is the header, and the payload    *)
(* keeps the random fill (create_header, hazmat.rs:14).                    *)
THEOREM PayloadKept == CoverSpec => []PayloadKeepsFill
<1>1. ASSUME CInv, Formatted
      PROVE  PayloadKeepsFill
  <2>1. IInv /\ Planned /\ Patched /\ made = 15
    BY <1>1, Complete
  <2>2. Holds("header", HeaderLba)
    <3>1. HeaderLba = FirstUnusedSectorLba(guess)
      BY <2>1, BootAgrees
    <3> QED
      BY <2>1, <3>1, Kind DEF Holds
  <2> DEFINE from == FirstUnusedSectorLba(guess) + 1
             end == DataEndLba(guess)
  <2>3. /\ from \in Int /\ end \in Int /\ end < BackupEntriesLba /\ end < PartitionEndLba + 1
        /\ BackupEntriesLba <= LastLba /\ LastLba \in Int /\ BackupEntriesLba \in Int
        /\ PartitionEndLba \in Int
        /\ StartLba <= from /\ FirstFatLba(guess) <= from /\ SecondFatLba(guess) <= from
        /\ DataStartLba(guess) <= from /\ FirstUnusedSectorLba(guess) <= from
        /\ MsrLba <= from /\ 2 <= from
        /\ StartLba \in Int /\ SecondFatLba(guess) \in Int /\ DataStartLba(guess) \in Int
        /\ MsrLba \in Int /\ FirstFatLba(guess) \in Int /\ FirstUnusedSectorLba(guess) \in Int
    BY <2>1, Places
  <2>4. \A n \in 1 .. 15 : /\ Writes[n].at \in Int /\ Writes[n].len \in Int
                           /\ End(Writes[n]) \in Int
    BY <2>1, Integral
  <2>5. End(Writes[15]) = from
    BY List DEF W, End
  <2> HIDE DEF from, end
  <2>6. /\ End(Writes[1]) <= from /\ End(Writes[2]) <= from /\ End(Writes[3]) <= from
        /\ end < Writes[4].at /\ End(Writes[5]) <= from /\ End(Writes[6]) <= from
        /\ End(Writes[7]) <= from /\ End(Writes[8]) <= from
    BY <2>1, <2>3, <2>4, Spans
  <2>7. /\ End(Writes[9]) <= from /\ End(Writes[10]) <= from /\ End(Writes[11]) <= from
        /\ End(Writes[12]) <= from /\ end < Writes[13].at /\ end < Writes[14].at
    BY <2>1, <2>3, <2>4, Spans
  <2>8. ASSUME NEW i \in 1 .. 15
        PROVE  ~Meets(Writes[i], from, end)
    <3>1. End(Writes[i]) <= from \/ end < Writes[i].at
      BY <2>3, <2>5, <2>6, <2>7
    <3>2. Writes[i].at \in Int /\ Writes[i].len \in Int /\ from \in Int /\ end \in Int
      BY <2>3, <2>4
    <3> QED
      BY <3>1, <3>2 DEF Meets, End
  <2>9. Header.starting = from /\ Header.ending = end
    BY DEF Header, from, end
  <2> QED
    BY <2>1, <2>2, <2>8, <2>9 DEF PayloadKeepsFill
<1>2. CInv => PayloadKeepsFill
  BY <1>1 DEF PayloadKeepsFill
<1> QED
  BY <1>2, CoverInductive, PTL

(* The range in the header of a complete format is one that UblkTarget can *)
(* serve, as its GeometryAssumption asks: not empty, inside the target, and *)
(* from the sector behind the header on (create_header, hazmat.rs:14).     *)
THEOREM HeaderCanBeServed ==
  CoverSpec => [](Formatted => /\ Header.starting \in Nat /\ Header.ending \in Nat
                               /\ Header.starting = HeaderLba + 1
                               /\ Header.starting <= Header.ending
                               /\ Header.ending < disk)
<1>1. ASSUME CInv, Formatted
      PROVE  /\ Header.starting \in Nat /\ Header.ending \in Nat
             /\ Header.starting = HeaderLba + 1
             /\ Header.starting <= Header.ending
             /\ Header.ending < disk
  <2>1. IInv /\ Planned /\ Patched
    BY <1>1, Complete
  <2>2. HeaderLba = FirstUnusedSectorLba(guess)
    BY <2>1, BootAgrees
  <2>3. /\ FirstUnusedSectorLba(guess) \in Nat /\ DataEndLba(guess) \in Int
        /\ FirstUnusedSectorLba(guess) < DataEndLba(guess)
        /\ DataEndLba(guess) < disk
    BY <2>1, Places
  <2>4. Header.starting = FirstUnusedSectorLba(guess) + 1 /\ Header.ending = DataEndLba(guess)
    BY DEF Header
  <2> QED
    BY <2>2, <2>3, <2>4
<1> QED
  BY <1>1, CoverInductive, PTL

(* The two GPT headers and their partitions agree with what is on the      *)
(* target (patched_gpt_header, msfat32.rs:208).                            *)
THEOREM GptHeadersAgree == CoverSpec => []GptAgrees
<1>1. ASSUME CInv, Formatted
      PROVE  GptAgrees
  <2>1. IInv /\ Planned /\ made = 15
    BY <1>1, Complete
  <2>2. /\ MsrLba \in Nat /\ StartLba \in Nat /\ GptEntrySectors \in Nat
        /\ BackupEntriesLba \in Nat /\ PartitionEndLba \in Nat
        /\ 2 + GptEntrySectors <= MsrLba /\ MsrLba < StartLba
        /\ StartLba <= PartitionEndLba /\ PartitionEndLba < BackupEntriesLba
    BY <2>1, Places
  <2>3. LastUsableLba \in Int /\ LastUsableLba = BackupEntriesLba - 1
    BY <2>2 DEF LastUsableLba
  <2>4. /\ Holds("gpt", 1) /\ Holds("gpt", LastLba)
        /\ Holds("entries", 2) /\ Holds("entries", BackupEntriesLba)
    BY <2>1, Kind DEF Holds
  <2>5. /\ PrimaryHeader.current = 1 /\ PrimaryHeader.backup = LastLba
        /\ PrimaryHeader.firstUsable = MsrLba /\ PrimaryHeader.lastUsable = LastUsableLba
        /\ PrimaryHeader.entries = 2
        /\ BackupHeader.current = LastLba /\ BackupHeader.backup = 1
        /\ BackupHeader.firstUsable = MsrLba /\ BackupHeader.lastUsable = LastUsableLba
        /\ BackupHeader.entries = BackupEntriesLba
    BY DEF PrimaryHeader, BackupHeader
  <2>6. /\ Partitions[1].first = MsrLba /\ Partitions[1].last = StartLba - 1
        /\ Partitions[2].first = StartLba /\ Partitions[2].last = PartitionEndLba
    BY DEF Partitions
  <2>7. BackupEntriesLba # 2 /\ LastUsableLba < BackupEntriesLba
        /\ StartLba - 1 < StartLba /\ PartitionEndLba <= LastUsableLba
    BY <2>2, <2>3
  <2> QED
    BY <2>2, <2>4, <2>5, <2>6, <2>7 DEF GptAgrees
<1>2. CInv => GptAgrees
  BY <1>1 DEF GptAgrees
<1> QED
  BY <1>2, CoverInductive, PTL

(* The writes that reach the sectors of a FAT are its zeroes and its       *)
(* template.                                                               *)
LEMMA FatWrites ==
  ASSUME IInv, Planned, NEW i \in 1 .. 15
  PROVE  /\ Meets(Writes[i], FirstFatLba(guess), FirstFatLba(guess) + guess - 1)
              <=> i \in {2, 10}
         /\ Meets(Writes[i], SecondFatLba(guess), SecondFatLba(guess) + guess - 1)
              <=> i \in {3, 11}
<1> DEFINE f == FirstFatLba(guess)
           s == SecondFatLba(guess)
           d == DataStartLba(guess)
<1>1. /\ f \in Int /\ s \in Int /\ d \in Int /\ f < s /\ s < d /\ f + guess = s
      /\ s + guess = d /\ guess \in Int
      /\ MsrLba <= f /\ StartLba <= f /\ 2 <= f /\ d <= PartitionEndLba + 1
      /\ d <= BackupEntriesLba /\ d <= LastLba /\ d <= FirstUnusedSectorLba(guess)
      /\ MsrLba \in Int /\ StartLba \in Int /\ PartitionEndLba \in Int
      /\ BackupEntriesLba \in Int /\ LastLba \in Int /\ FirstUnusedSectorLba(guess) \in Int
  BY Places
<1>2. \A n \in 1 .. 15 : /\ Writes[n].at \in Int /\ Writes[n].len \in Int
                         /\ End(Writes[n]) \in Int
  BY Integral
<1>3. /\ Writes[2].at = f /\ End(Writes[2]) = s /\ Writes[3].at = s /\ End(Writes[3]) = d
      /\ Writes[10].at = f /\ End(Writes[10]) <= s
      /\ Writes[11].at = s /\ End(Writes[11]) <= d
      /\ Writes[10].len > 0 /\ Writes[11].len > 0
  <2>1. Writes[10].len = FatPrefixSectors /\ Writes[11].len = FatPrefixSectors
    BY List DEF W
  <2> QED
    BY <2>1, Places, Spans
<1> HIDE DEF f, s, d
<1>4. /\ End(Writes[1]) <= f /\ d <= Writes[4].at /\ End(Writes[5]) <= f
      /\ End(Writes[6]) <= f /\ End(Writes[7]) <= f /\ End(Writes[8]) <= f
      /\ End(Writes[9]) <= f /\ d <= Writes[12].at /\ d <= Writes[13].at
      /\ d <= Writes[14].at /\ d <= Writes[15].at
  <2>1. /\ End(Writes[1]) <= f /\ d <= Writes[4].at /\ End(Writes[5]) <= f
        /\ End(Writes[6]) <= f /\ End(Writes[7]) <= f
    BY <1>1, <1>2, Spans
  <2>2. End(Writes[8]) <= f /\ End(Writes[9]) <= f
    BY <1>1, <1>2, Spans DEF f
  <2>3. /\ d <= Writes[12].at /\ d <= Writes[13].at
        /\ d <= Writes[14].at /\ d <= Writes[15].at
    BY <1>1, <1>2, Spans DEF d
  <2> QED
    BY <2>1, <2>2, <2>3
<1>5. Meets(Writes[i], f, f + guess - 1) <=> Writes[i].at < s /\ f < End(Writes[i])
  BY <1>1, <1>2 DEF Meets, End
<1>6. Meets(Writes[i], s, s + guess - 1) <=> Writes[i].at < d /\ s < End(Writes[i])
  BY <1>1, <1>2 DEF Meets, End
<1>7. CASE i \in {2, 10}
  <2>1. End(Writes[10]) > f
    BY <1>1, <1>2, <1>3 DEF End
  <2> QED
    BY <1>1, <1>2, <1>3, <1>5, <1>6, <1>7, <2>1 DEF f, s
<1>8. CASE i \in {3, 11}
  <2>1. End(Writes[11]) > s
    BY <1>1, <1>2, <1>3 DEF End
  <2> QED
    BY <1>1, <1>2, <1>3, <1>5, <1>6, <1>8, <2>1 DEF f, s
<1>9. CASE i \notin {2, 3, 10, 11}
  <2>1. End(Writes[i]) <= f \/ d <= Writes[i].at
    BY <1>4, <1>9
  <2> QED
    BY <1>1, <1>2, <1>5, <1>6, <1>9, <2>1 DEF f, s
<1> QED
  BY <1>7, <1>8, <1>9

(* When format is done the two FATs are equal, sector by sector            *)
(* (msfat32.rs:647-658, msfat32.rs:671).                                   *)
THEOREM FatsEqual == CoverSpec => []FatsAgree
<1>1. ASSUME CInv, Formatted
      PROVE  FatsAgree
  <2>1. IInv /\ Planned /\ made = 15
    BY <1>1, Complete
  <2> DEFINE f == FirstFatLba(guess)
             s == SecondFatLba(guess)
             Part(i, lo) == [what |-> Writes[i].what, at |-> Writes[i].at - lo,
                             len |-> Writes[i].len]
  <2>2. f \in Int /\ s \in Int
    BY <2>1, Places
  <2>3. \A i \in 1 .. 15 : /\ Meets(Writes[i], f, f + guess - 1) <=> i \in {2, 10}
                           /\ Meets(Writes[i], s, s + guess - 1) <=> i \in {3, 11}
    BY <2>1, FatWrites
  <2>4. Within(f, guess) = {Part(i, f) : i \in {j \in 1 .. 15 : Meets(Writes[j], f, f + guess - 1)}}
    BY <2>1 DEF Within
  <2>5. Within(s, guess) = {Part(i, s) : i \in {j \in 1 .. 15 : Meets(Writes[j], s, s + guess - 1)}}
    BY <2>1 DEF Within
  <2>6. /\ {j \in 1 .. 15 : Meets(Writes[j], f, f + guess - 1)} = {2, 10}
        /\ {j \in 1 .. 15 : Meets(Writes[j], s, s + guess - 1)} = {3, 11}
    <3> HIDE DEF f, s
    <3> QED
      BY <2>3
  <2>7. Part(2, f) = W("zeroes", 0, guess) /\ Part(3, s) = W("zeroes", 0, guess)
    BY <2>2, List DEF W
  <2>8. /\ Part(10, f) = W("fat", 0, FatPrefixSectors)
        /\ Part(11, s) = W("fat", 0, FatPrefixSectors)
    BY <2>2, List DEF W
  <2> HIDE DEF Part, f, s
  <2>9. /\ Within(f, guess) = {Part(2, f), Part(10, f)}
        /\ Within(s, guess) = {Part(3, s), Part(11, s)}
    BY <2>4, <2>5, <2>6
  <2>10. Within(f, guess) = Within(s, guess) /\ W("zeroes", 0, guess) \in Within(f, guess)
    BY <2>7, <2>8, <2>9
  <2> QED
    BY <2>10 DEF FatsAgree, f, s
<1>2. CInv => FatsAgree
  BY <1>1 DEF FatsAgree
<1> QED
  BY <1>2, CoverInductive, PTL

-----------------------------------------------------------------------------
(* Until the cluster of the header is taken, the clusters are taken in     *)
(* their order.                                                            *)
InOrder == HeaderCluster \notin taken => \E m \in Nat : taken = 3 .. m + 2

(* The first file that finds its first cluster free, and nothing taken     *)
(* behind it, begins there.                                                *)
LEMMA BeginsThere ==
  ASSUME CInv, NEW search \in Searches, NEW n \in FileClusters, WriteFile(search, n),
         NEW start \in Nat, start > 2, start >= SearchFrom(search),
         FirstFree(search, n) >= start, \A b \in taken : b < start
  PROVE  FirstFree(search, n) = start
<1> DEFINE first == FirstFree(search, n)
           count == TotalClusters(guess)
<1>1. search \in {"lowest", "hint"} /\ n \in Nat \ {0}
  BY TemplateAssumption
<1>2. pc = "patched" /\ ~NoRoom(search, n) /\ first + n - 1 <= count + 1
  BY DEF WriteFile, Formatted
<1>3. count \in Nat
  BY <1>2, Places DEF CInv, Planned
<1>4. /\ first \in Nat /\ SearchFrom(search) \in Int
      /\ \A b \in SearchFrom(search) .. first - 1 : ~FreeRun(b, n)
  <2>1. SearchFrom(search) \in Int
    BY LayoutAssumption DEF SearchFrom, FsInfo
  <2> QED
    BY <1>1, <1>2, <2>1, FirstFreeIsFree
<1>5. \A b \in Allocated : b = 2 \/ b = count + 2
  BY DEF Allocated
<1> HIDE DEF first, count
<1>6. first = start
  <2> SUFFICES ASSUME first > start PROVE FALSE
    BY <1>4 DEF first
  <2>1. ~FreeRun(start, n)
    BY <1>4
  <2>2. PICK b \in start .. start + n - 1 : b \in Allocated \/ b \in taken
    BY <2>1 DEF FreeRun
  <2>3. b \notin taken /\ b # 2 /\ b \in Nat
    BY <1>1, <2>2
  <2>4. b = count + 2
    BY <1>5, <2>2, <2>3
  <2> QED
    BY <1>1, <1>2, <1>3, <1>4, <2>2, <2>4
<1> QED
  BY <1>6 DEF first

(* A file begins where the one before it ended, or at the header.          *)
LEMMA InOrderStep ==
  ASSUME CInv, InOrder, [CoverNext]_allVars
  PROVE  InOrder'
<1>1. CASE taken' = taken
  BY <1>1 DEF InOrder
<1>2. CASE \E search \in Searches, n \in FileClusters : WriteFile(search, n)
  <2>1. PICK search \in Searches, n \in FileClusters : WriteFile(search, n)
    BY <1>2
  <2> DEFINE first == FirstFree(search, n)
  <2>2. /\ taken' = taken \cup (first .. first + n - 1) /\ ~NoRoom(search, n)
    BY <2>1 DEF WriteFile
  <2> SUFFICES ASSUME HeaderCluster \notin taken' PROVE \E m \in Nat : taken' = 3 .. m + 2
    BY DEF InOrder
  <2>3. /\ search \in {"lowest", "hint"} /\ n \in Nat \ {0}
        /\ HeaderCluster \in Nat /\ HeaderCluster > 2
    BY TemplateAssumption, LayoutAssumption
  <2>4. PICK m \in Nat : taken = 3 .. m + 2
    BY <2>2 DEF InOrder
  <2>5. first \in Nat /\ first >= SearchFrom(search) /\ FreeRun(first, n)
    BY <2>2, <2>3, FirstFreeIsFree
  <2>6. first \in first .. first + n - 1
    BY <2>3, <2>5
  <2>7. m + 3 <= HeaderCluster
    BY <2>2, <2>3, <2>4
  <2>8. search = "lowest"
    <3> SUFFICES ASSUME search = "hint" PROVE FALSE
      BY <2>3
    <3>1. SearchFrom(search) = HeaderCluster
      BY DEF SearchFrom, FsInfo
    <3>2. first >= HeaderCluster /\ \A b \in taken : b < HeaderCluster
      <4> HIDE DEF first
      <4>1. \A b \in taken : b <= m + 2 /\ b \in Nat
        BY <2>4
      <4> QED
        BY <2>3, <2>5, <2>7, <3>1, <4>1
    <3>3. first = HeaderCluster
      BY <2>1, <2>3, <3>1, <3>2, BeginsThere
    <3> HIDE DEF first
    <3> QED
      BY <2>2, <2>6, <3>3
  <2>9. first = m + 3
    <3>1. SearchFrom(search) = 2
      BY <2>8 DEF SearchFrom
    <3>2. first >= 2 /\ first # 2 /\ first \notin 3 .. m + 2
      <4>1. first \notin Allocated /\ first \notin taken /\ first >= 2
        BY <2>5, <2>6, <3>1 DEF FreeRun
      <4>2. 2 \in Allocated
        BY DEF Allocated
      <4> HIDE DEF first
      <4> QED
        BY <2>4, <4>1, <4>2
    <3>3. first >= m + 3 /\ m + 3 \in Nat /\ m + 3 > 2 /\ \A b \in taken : b < m + 3
      <4> HIDE DEF first
      <4> QED
        BY <2>4, <2>5, <3>2
    <3> QED
      BY <2>1, <3>1, <3>3, BeginsThere
  <2> HIDE DEF first
  <2>10. taken' = 3 .. (m + n) + 2 /\ m + n \in Nat
    BY <2>2, <2>3, <2>4, <2>9
  <2> QED
    BY <2>10
<1> QED
  BY <1>1, <1>2 DEF CoverNext, Plan, WriteNext, Sync, WriteFails, OpenCover, allVars, coverVars

(* A payload that other systems have damaged is never opened: they take    *)
(* the cluster of the header first, wherever they look first               *)
(* (patch_fsinfo_sector, msfat32.rs:271).                                  *)
THEOREM HeaderIsLostFirst == CoverSpec => []HeaderGoesFirst
<1>1. CoverInit => InOrder
  <2> SUFFICES ASSUME CoverInit PROVE InOrder
    OBVIOUS
  <2>1. taken = 3 .. 0 + 2
    BY DEF CoverInit
  <2> QED
    BY <2>1 DEF InOrder
<1>2. CInv /\ InOrder /\ [CoverNext]_allVars => InOrder'
  BY InOrderStep
<1>3. ASSUME CInv, InOrder, Formatted, HeaderCluster \notin taken, NEW c \in taken
      PROVE  ClusterLba(c) + SectorsPerCluster <= Header.starting - 1
  <2>1. PICK m \in Nat : taken = 3 .. m + 2
    BY <1>3 DEF InOrder
  <2>2. /\ HeaderCluster \in Nat /\ HeaderCluster > 2 /\ SectorsPerCluster \in Nat
    BY TemplateAssumption, LayoutAssumption
  <2>3. /\ c \in Nat /\ c - 1 \in Nat /\ HeaderCluster - 2 \in Nat
        /\ c - 1 <= HeaderCluster - 2
    BY <1>3, <2>1, <2>2
  <2>4. DataStartLba(guess) \in Int
    <3>1. IInv /\ Planned
      BY <1>3, Complete
    <3>2. /\ SecondFatLba(guess) + guess = DataStartLba(guess)
          /\ FirstFatLba(guess) + guess = SecondFatLba(guess)
          /\ FirstFatLba(guess) \in Nat /\ guess \in Nat
      BY <3>1, Places
    <3> QED
      BY <3>2
  <2>5. (c - 1) * SectorsPerCluster <= (HeaderCluster - 2) * SectorsPerCluster
    BY <2>2, <2>3
  <2>6. (c - 2) * SectorsPerCluster + SectorsPerCluster = (c - 1) * SectorsPerCluster
    BY <2>2, <2>3
  <2>7. /\ (c - 2) * SectorsPerCluster \in Int /\ (c - 1) * SectorsPerCluster \in Int
        /\ (HeaderCluster - 2) * SectorsPerCluster \in Int
    BY <2>2, <2>3
  <2>8. Header.starting = DataStartLba(guess) + (HeaderCluster - 2) * SectorsPerCluster + 1
    BY DEF Header, FirstUnusedSectorLba
  <2> QED
    BY <2>2, <2>3, <2>4, <2>5, <2>6, <2>7, <2>8 DEF ClusterLba
<1>4. CInv /\ InOrder => HeaderGoesFirst
  BY <1>3 DEF HeaderGoesFirst
<1>5. CoverSpec => []InOrder
  BY <1>1, <1>2, CoverInductive, PTL DEF CoverSpec
<1> QED
  BY <1>4, <1>5, CoverInductive, PTL

-----------------------------------------------------------------------------
(* The area that each of the fifteen writes lies in.                       *)
CoverArea ==
  <<"boot", "fats", "fats", "tail", "boot", "boot", "boot", "boot", "boot",
    "fats", "fats", "fats", "tail", "tail", "header">>

(* The areas, one behind the other.                                        *)
LEMMA PlacesApart ==
  ASSUME IInv, Planned
  PROVE  /\ \A a \in LifeArea : Place[a].first \in Int /\ Place[a].behind \in Int
         /\ Place["boot"].first = 0 /\ Place["boot"].behind = FirstFatLba(guess)
         /\ Place["fats"].first = FirstFatLba(guess) /\ Place["fats"].behind = RootEnd
         /\ Place["gap"].first = RootEnd /\ Place["gap"].behind = FirstUnusedSectorLba(guess)
         /\ Place["header"].first = FirstUnusedSectorLba(guess)
         /\ Place["header"].behind = FirstUnusedSectorLba(guess) + 1
         /\ Place["payload"].first = FirstUnusedSectorLba(guess) + 1
         /\ Place["payload"].behind = PartitionEndLba + 1
         /\ Place["tail"].first = PartitionEndLba + 1 /\ Place["tail"].behind = disk
         /\ \A a, b \in LifeArea :
              a # b => \/ Place[a].behind <= Place[b].first
                      \/ Place[b].behind <= Place[a].first
<1>1. /\ Place["boot"].first = 0 /\ Place["boot"].behind = FirstFatLba(guess)
      /\ Place["fats"].first = FirstFatLba(guess) /\ Place["fats"].behind = RootEnd
      /\ Place["gap"].first = RootEnd /\ Place["gap"].behind = FirstUnusedSectorLba(guess)
      /\ Place["header"].first = FirstUnusedSectorLba(guess)
      /\ Place["header"].behind = FirstUnusedSectorLba(guess) + 1
      /\ Place["payload"].first = FirstUnusedSectorLba(guess) + 1
      /\ Place["payload"].behind = PartitionEndLba + 1
      /\ Place["tail"].first = PartitionEndLba + 1 /\ Place["tail"].behind = disk
  BY DEF Place, Lbas, Header
<1>2. /\ 0 <= FirstFatLba(guess) /\ FirstFatLba(guess) <= RootEnd
      /\ RootEnd <= FirstUnusedSectorLba(guess)
      /\ FirstUnusedSectorLba(guess) + 1 <= PartitionEndLba + 1
      /\ PartitionEndLba + 1 <= disk
      /\ FirstFatLba(guess) \in Int /\ RootEnd \in Int
      /\ FirstUnusedSectorLba(guess) \in Int /\ PartitionEndLba \in Int /\ disk \in Int
  BY Places DEF RootEnd
<1>3. \A a \in LifeArea : Place[a].first \in Int /\ Place[a].behind \in Int
  BY <1>1, <1>2 DEF LifeArea
<1>4. ASSUME NEW a \in LifeArea, NEW b \in LifeArea, a # b
      PROVE  Place[a].behind <= Place[b].first \/ Place[b].behind <= Place[a].first
  BY <1>1, <1>2, <1>4 DEF LifeArea
<1> QED
  BY <1>1, <1>3, <1>4

(* Every write lies in its area.                                           *)
LEMMA LiesInArea ==
  ASSUME IInv, Planned, NEW i \in 1 .. 15
  PROVE  /\ CoverArea[i] \in LifeArea
         /\ Place[CoverArea[i]].first <= Writes[i].at
         /\ End(Writes[i]) <= Place[CoverArea[i]].behind
<1> DEFINE b == CoverArea[i]
<1>1. b \in LifeArea
  BY DEF CoverArea, LifeArea
<1>2. Writes[i].at \in Int /\ End(Writes[i]) \in Int
  BY Integral
<1>3. /\ 2 <= MsrLba /\ MsrLba < StartLba
      /\ StartLba < FirstFatLba(guess) /\ FirstFatLba(guess) < SecondFatLba(guess)
      /\ SecondFatLba(guess) < DataStartLba(guess) /\ DataStartLba(guess) < RootEnd
      /\ RootEnd <= FirstUnusedSectorLba(guess)
      /\ PartitionEndLba + 1 < BackupEntriesLba
      /\ BackupEntriesLba <= LastLba /\ LastLba + 1 = disk
      /\ MsrLba \in Int /\ StartLba \in Int /\ FirstFatLba(guess) \in Int
      /\ SecondFatLba(guess) \in Int /\ DataStartLba(guess) \in Int /\ RootEnd \in Int
      /\ FirstUnusedSectorLba(guess) \in Int
      /\ PartitionEndLba \in Int /\ BackupEntriesLba \in Int /\ LastLba \in Int
      /\ disk \in Int
  BY Places DEF RootEnd
<1>4. CASE i \in {1, 5, 6, 7, 8, 9}
  <2>1. b = "boot"
    BY <1>4 DEF CoverArea
  <2>2. 0 <= Writes[i].at /\ End(Writes[i]) <= FirstFatLba(guess)
    BY <1>2, <1>3, <1>4, Spans
  <2> QED
    BY <1>1, <2>1, <2>2, PlacesApart
<1>5. CASE i \in {2, 3, 10, 11}
  <2>1. b = "fats"
    BY <1>5 DEF CoverArea
  <2>2. FirstFatLba(guess) <= Writes[i].at /\ End(Writes[i]) <= RootEnd
    BY <1>2, <1>3, <1>5, Spans
  <2> QED
    BY <1>1, <2>1, <2>2, PlacesApart
<1>6. CASE i = 12
  <2>1. b = "fats"
    BY <1>6 DEF CoverArea
  <2>2. Writes[12].at = DataStartLba(guess) /\ Writes[12].len = SectorsPerCluster
    BY List DEF W
  <2>3. FirstFatLba(guess) <= Writes[i].at /\ End(Writes[i]) <= RootEnd
    BY <1>3, <1>6, <2>2 DEF End, RootEnd
  <2> QED
    BY <1>1, <2>1, <2>3, PlacesApart
<1>7. CASE i \in {4, 13, 14}
  <2>1. b = "tail"
    BY <1>7 DEF CoverArea
  <2>2. PartitionEndLba + 1 <= Writes[i].at /\ End(Writes[i]) <= disk
    BY <1>2, <1>3, <1>7, Spans
  <2> QED
    BY <1>1, <2>1, <2>2, PlacesApart
<1>8. CASE i = 15
  <2>1. b = "header"
    BY <1>8 DEF CoverArea
  <2>2. Writes[15].at = FirstUnusedSectorLba(guess) /\ Writes[15].len = 1
    BY List DEF W
  <2> QED
    BY <1>1, <1>3, <1>8, <2>1, <2>2, PlacesApart DEF End
<1> QED
  BY <1>4, <1>5, <1>6, <1>7, <1>8

-----------------------------------------------------------------------------
(* A number of complete writes, and of sectors of the next one.            *)
Progress(m, p) ==
  /\ m \in 0 .. 15
  /\ p \in Nat
  /\ p # 0 => m < 15 /\ p < Writes[m + 1].len

Begun(m, p) == IF p = 0 THEN m ELSE m + 1

(* What is on the target begins where the writes begin.                    *)
LEMMA DoneIs ==
  ASSUME IInv, Planned, NEW m, NEW p, Progress(m, p)
  PROVE  /\ Begun(m, p) \in 0 .. 15
         /\ DOMAIN Done(Writes, m, p) = 1 .. Begun(m, p)
         /\ \A i \in 1 .. Begun(m, p) :
              LET d == Done(Writes, m, p)[i]
              IN /\ d.what = Writes[i].what /\ d.at = Writes[i].at
                 /\ d.len \in Nat \ {0} /\ d.len <= Writes[i].len
                 /\ i <= m => d.len = Writes[i].len
                 /\ i > m => i = m + 1 /\ d.len = p /\ p # 0 /\ p < Writes[i].len
<1>1. Begun(m, p) \in 0 .. 15 /\ m \in 0 .. 15 /\ p \in Nat
  BY DEF Progress, Begun
<1>2. Done(Writes, m, p) =
        [i \in 1 .. Begun(m, p) |->
           W(Writes[i].what, Writes[i].at, IF i <= m THEN Writes[i].len ELSE p)]
  BY DEF Done, Begun
<1>3. ASSUME NEW i \in 1 .. Begun(m, p)
      PROVE  LET d == Done(Writes, m, p)[i]
             IN /\ d.what = Writes[i].what /\ d.at = Writes[i].at
                /\ d.len \in Nat \ {0} /\ d.len <= Writes[i].len
                /\ i <= m => d.len = Writes[i].len
                /\ i > m => i = m + 1 /\ d.len = p /\ p # 0 /\ p < Writes[i].len
  <2> DEFINE d == Done(Writes, m, p)[i]
  <2>1. d = W(Writes[i].what, Writes[i].at, IF i <= m THEN Writes[i].len ELSE p)
    BY <1>2
  <2>2. /\ d.what = Writes[i].what /\ d.at = Writes[i].at
        /\ d.len = IF i <= m THEN Writes[i].len ELSE p
    BY <2>1 DEF W
  <2>3. i \in 1 .. 15 /\ i \in Nat
    BY <1>1
  <2>4. Writes[i].len \in Nat \ {0}
    BY <2>3, Integral
  <2>5. i > m => i = m + 1 /\ p # 0 /\ p < Writes[i].len
    BY <1>1 DEF Begun, Progress
  <2> QED
    BY <1>1, <2>2, <2>3, <2>4, <2>5
<1> QED
  BY <1>1, <1>2, <1>3

(* One of the writes that are on the target.                               *)
LEMMA OneDone ==
  ASSUME IInv, Planned, NEW m, NEW p, Progress(m, p), NEW i \in 1 .. Begun(m, p)
  PROVE  /\ i \in 1 .. 15 /\ Writes[i].at \in Int /\ Writes[i].len \in Nat
         /\ Done(Writes, m, p)[i].at = Writes[i].at
         /\ Done(Writes, m, p)[i].what = Writes[i].what
         /\ Done(Writes, m, p)[i].len \in Nat \ {0}
         /\ Done(Writes, m, p)[i].len <= Writes[i].len
         /\ i <= m => Done(Writes, m, p)[i].len = Writes[i].len
         /\ i > m => Done(Writes, m, p)[i].len < Writes[i].len
<1>1. i \in 1 .. 15
  BY DoneIs
<1>2. Writes[i].at \in Int /\ Writes[i].len \in Nat
  BY <1>1, Integral
<1> DEFINE d == Done(Writes, m, p)[i]
<1>3. /\ d.what = Writes[i].what /\ d.at = Writes[i].at
      /\ d.len \in Nat \ {0} /\ d.len <= Writes[i].len
      /\ i <= m => d.len = Writes[i].len
      /\ i > m => d.len < Writes[i].len
  BY DoneIs
<1> QED
  BY <1>1, <1>2, <1>3

(* The writes that touch an area are those that lie in it.                 *)
LEMMA TouchingIs ==
  ASSUME IInv, Planned, NEW m, NEW p, Progress(m, p), NEW a \in LifeArea
  PROVE  Touching(Done(Writes, m, p), Place[a]) = {i \in 1 .. Begun(m, p) : CoverArea[i] = a}
<1> DEFINE d == Done(Writes, m, p)
<1>1. Begun(m, p) \in 0 .. 15 /\ DOMAIN d = 1 .. Begun(m, p)
  BY DoneIs
<1>2. ASSUME NEW i \in 1 .. Begun(m, p)
      PROVE  Meets(d[i], Place[a].first, Place[a].behind - 1) <=> CoverArea[i] = a
  <2>1. i \in 1 .. 15
    BY <1>1
  <2> DEFINE b == CoverArea[i]
  <2>2. /\ d[i].at = Writes[i].at /\ d[i].len \in Nat \ {0}
        /\ d[i].len <= Writes[i].len
    BY DoneIs
  <2>3. /\ b \in LifeArea /\ Place[b].first <= Writes[i].at
        /\ End(Writes[i]) <= Place[b].behind
        /\ Writes[i].at \in Int /\ Writes[i].len \in Nat
    BY <2>1, LiesInArea, Integral
  <2>4. /\ Place[a].first \in Int /\ Place[a].behind \in Int
        /\ Place[b].first \in Int /\ Place[b].behind \in Int
        /\ a # b => \/ Place[a].behind <= Place[b].first
                    \/ Place[b].behind <= Place[a].first
    BY <2>3, PlacesApart
  <2>5. CASE a = b
    <3>1. d[i].at <= Place[b].behind - 1 /\ Place[b].first <= d[i].at + d[i].len - 1
      <4> HIDE DEF b, d
      <4> QED
        BY <2>2, <2>3, <2>4 DEF End
    <3> QED
      BY <2>5, <3>1 DEF Meets
  <2>6. CASE a # b
    <3>1. ~(d[i].at <= Place[a].behind - 1 /\ Place[a].first <= d[i].at + d[i].len - 1)
      <4> HIDE DEF b, d
      <4> QED
        BY <2>2, <2>3, <2>4, <2>6 DEF End
    <3> QED
      BY <2>6, <3>1 DEF Meets
  <2> QED
    BY <2>5, <2>6
<1> HIDE DEF d
<1>3. Touching(d, Place[a]) = {i \in 1 .. Begun(m, p) : CoverArea[i] = a}
  BY <1>1, <1>2 DEF Touching
<1> QED
  BY <1>3 DEF d

(* Which areas are written by which of the writes.                         *)
LEMMA AreasOf ==
  ASSUME NEW i \in 1 .. 15
  PROVE  /\ CoverArea[i] = "boot" <=> i \in {1, 5, 6, 7, 8, 9}
         /\ CoverArea[i] = "fats" <=> i \in {2, 3, 10, 11, 12}
         /\ CoverArea[i] = "tail" <=> i \in {4, 13, 14}
         /\ CoverArea[i] = "header" <=> i = 15
         /\ CoverArea[i] # "gap" /\ CoverArea[i] # "payload"
<1>1. CASE i \in 1 .. 5
  BY <1>1 DEF CoverArea
<1>2. CASE i \in 6 .. 10
  BY <1>2 DEF CoverArea
<1>3. CASE i \in 11 .. 15
  BY <1>3 DEF CoverArea
<1> QED
  BY <1>1, <1>2, <1>3

(* The one write that is a header, and the one of the reserved sectors. *)
LEMMA OneHeader ==
  ASSUME NEW i \in 1 .. 15
  PROVE  /\ Writes[i].what = "header" <=> i = 15
         /\ Writes[i].what = "reserved" <=> i = 9
<1>1. /\ Writes[1].what = "zeroes" /\ Writes[2].what = "zeroes"
      /\ Writes[3].what = "zeroes" /\ Writes[4].what = "zeroes"
      /\ Writes[5].what = "mbr" /\ Writes[6].what = "gpt"
      /\ Writes[7].what = "entries" /\ Writes[8].what = "msr"
      /\ Writes[9].what = "reserved" /\ Writes[10].what = "fat"
      /\ Writes[11].what = "fat" /\ Writes[12].what = "root"
      /\ Writes[13].what = "entries" /\ Writes[14].what = "gpt"
      /\ Writes[15].what = "header"
  BY List DEF W
<1>2. CASE i \in 1 .. 5
  BY <1>1, <1>2
<1>3. CASE i \in 6 .. 10
  BY <1>1, <1>3
<1>4. CASE i \in 11 .. 15
  BY <1>1, <1>4
<1> QED
  BY <1>2, <1>3, <1>4

(* What an area of the cover holds that some write has reached: it is      *)
(* whole, or not.                                                          *)
HeldOf(a, m, p) == Held(Done(Writes, m, p), Place[a])

LEMMA HeldIs ==
  ASSUME IInv, Planned, NEW m, NEW p, Progress(m, p), NEW a \in LifeArea, a # "header"
  PROVE  LET t == {i \in 1 .. Begun(m, p) : CoverArea[i] = a}
         IN HeldOf(a, m, p) = IF t = {} THEN Untouched
                              ELSE IF Covered(Done(Writes, m, p), Place[a])
                                   THEN Covering ELSE Torn
<1> DEFINE t == {i \in 1 .. Begun(m, p) : CoverArea[i] = a}
           d == Done(Writes, m, p)
<1>1. Touching(d, Place[a]) = t /\ Begun(m, p) \in 0 .. 15
  BY TouchingIs, DoneIs
<1>2. ASSUME NEW i \in t
      PROVE  d[i].what # "header"
  <2>1. i \in 1 .. 15 /\ i # 15
    <3>1. i \in 1 .. Begun(m, p) /\ CoverArea[i] = a
      BY <1>2
    <3>2. i \in 1 .. 15
      BY <1>1, <3>1
    <3> QED
      BY <3>1, <3>2, AreasOf
  <2> QED
    BY <1>2, <2>1, DoneIs, OneHeader
<1> HIDE DEF t, d
<1>3. Held(d, Place[a]) = IF t = {} THEN Untouched
                          ELSE IF Covered(d, Place[a]) THEN Covering ELSE Torn
  BY <1>1, <1>2 DEF Held
<1> QED
  BY <1>3 DEF t, d, HeldOf

(* An area is not covered while the last sector of it is missing.          *)
LEMMA LastIsMissing ==
  ASSUME IInv, Planned, NEW m, NEW p, Progress(m, p), NEW a \in LifeArea,
         \A j \in 1 .. Begun(m, p) : CoverArea[j] = a =>
            Writes[j].at + Done(Writes, m, p)[j].len < Place[a].behind
  PROVE  ~Covered(Done(Writes, m, p), Place[a])
<1> DEFINE d == Done(Writes, m, p)
           t == Touching(d, Place[a])
           s == Place[a].behind - 1
<1>1. /\ t = {i \in 1 .. Begun(m, p) : CoverArea[i] = a} /\ Place[a].behind \in Int
      /\ Place[a].first \in Int /\ Begun(m, p) \in 0 .. 15
  BY TouchingIs, PlacesApart, DoneIs
<1>2. ASSUME NEW j \in t
      PROVE  ~(s < d[j].at + d[j].len)
  <2>1. j \in 1 .. 15 /\ j \in 1 .. Begun(m, p) /\ CoverArea[j] = a
    BY <1>1, <1>2
  <2>2. Writes[j].at \in Int /\ d[j].at = Writes[j].at /\ d[j].len \in Nat
    BY <2>1, OneDone
  <2>3. Writes[j].at + d[j].len < Place[a].behind
    BY <2>1
  <2> HIDE DEF d
  <2> QED
    BY <1>1, <2>2, <2>3
<1>3. s < Place[a].behind
  BY <1>1
<1> HIDE DEF d, s
<1>4. ~Covered(d, Place[a])
  <2> SUFFICES ASSUME Covered(d, Place[a]) PROVE FALSE
    OBVIOUS
  <2>1. s < Place[a].behind => \E j \in t : d[j].at <= s /\ s < d[j].at + d[j].len
    BY DEF Covered, s
  <2> QED
    BY <1>2, <1>3, <2>1
<1> QED
  BY <1>4 DEF d

(* MBR, primary GPT and reserved sectors. *)
LEMMA BootHolds ==
  ASSUME IInv, Planned, NEW m, NEW p, Progress(m, p)
  PROVE  HeldOf("boot", m, p) = IF Begun(m, p) = 0 THEN Untouched
                                ELSE IF m < 9 THEN Torn ELSE Covering
<1> DEFINE b == Begun(m, p)
           d == Done(Writes, m, p)
           t == {i \in 1 .. b : CoverArea[i] = "boot"}
<1>1. b \in 0 .. 15 /\ m \in 0 .. 15 /\ m <= b /\ b <= m + 1
  BY DoneIs DEF Progress, Begun
<1>2. t = 1 .. b \cap {1, 5, 6, 7, 8, 9}
  BY <1>1, AreasOf
<1>3. HeldOf("boot", m, p) = IF t = {} THEN Untouched
                             ELSE IF Covered(d, Place["boot"]) THEN Covering ELSE Torn
  BY HeldIs DEF LifeArea
<1>4. t = {} <=> b = 0
  BY <1>1, <1>2
<1>5. ASSUME m < 9 PROVE ~Covered(d, Place["boot"])
  <2>1. ASSUME NEW j \in 1 .. b, CoverArea[j] = "boot"
        PROVE  Writes[j].at + d[j].len < Place["boot"].behind
    <3>1. j \in {1, 5, 6, 7, 8, 9} /\ j \in 1 .. 15
      BY <1>2, <2>1, <1>1
    <3>2. /\ StartLba < FirstFatLba(guess) /\ MsrLba <= StartLba /\ 2 <= MsrLba
          /\ StartLba \in Int /\ FirstFatLba(guess) \in Int /\ MsrLba \in Int
          /\ Place["boot"].behind = FirstFatLba(guess)
      BY Places, PlacesApart
    <3>3. /\ Writes[j].at \in Int /\ Writes[j].len \in Nat /\ d[j].len \in Nat
          /\ d[j].len <= Writes[j].len /\ d[j].at = Writes[j].at
          /\ j > m => d[j].len < Writes[j].len
      BY <2>1, OneDone
    <3>4. CASE j = 9
      <4>1. Writes[9].at + Writes[9].len = FirstFatLba(guess)
        BY Spans DEF End
      <4>2. d[j].len < Writes[j].len
        BY <1>1, <1>5, <3>3, <3>4
      <4> HIDE DEF d
      <4> QED
        BY <3>2, <3>3, <3>4, <4>1, <4>2
    <3>5. CASE j # 9
      <4>1. Writes[j].at + Writes[j].len <= StartLba
        BY <3>1, <3>2, <3>5, Integral, Spans DEF End
      <4> HIDE DEF d
      <4> QED
        BY <3>2, <3>3, <4>1
    <3> QED
      BY <3>4, <3>5
  <2> QED
    BY <2>1, LastIsMissing DEF LifeArea
<1>6. ASSUME m >= 9 PROVE Covered(d, Place["boot"])
  <2>1. t = {1, 5, 6, 7, 8, 9} /\ Touching(d, Place["boot"]) = t
    <3>1. 1 .. b \cap {1, 5, 6, 7, 8, 9} = {1, 5, 6, 7, 8, 9}
      BY <1>1, <1>6
    <3> QED
      BY <1>2, <3>1, TouchingIs DEF LifeArea
  <2>2. \A j \in t : d[j].at = Writes[j].at /\ d[j].at + d[j].len = End(Writes[j])
    <3>1. \A j \in t : j \in 1 .. b /\ j <= m
      BY <1>1, <1>6, <2>1
    <3> QED
      BY <3>1, DoneIs DEF End
  <2> HIDE DEF d, t
  <2>3. /\ Writes[1].at = 2 + GptEntrySectors /\ End(Writes[1]) = StartLba
        /\ Writes[5].at = 0 /\ End(Writes[5]) = 1
        /\ Writes[6].at = 1 /\ End(Writes[6]) = 2
        /\ Writes[7].at = 2 /\ End(Writes[7]) = 2 + GptEntrySectors
        /\ Writes[8].at = 2 + GptEntrySectors /\ End(Writes[8]) <= StartLba
        /\ End(Writes[8]) > 2 + GptEntrySectors /\ End(Writes[8]) \in Int
        /\ Writes[9].at = StartLba /\ End(Writes[9]) = FirstFatLba(guess)
    <3>1. /\ Writes[7].len = GptEntrySectors /\ Writes[8].len = MsrSectors
          /\ Writes[7].at = 2 /\ Writes[8].at = MsrLba
      BY List DEF W
    <3>2. MsrLba = 2 + GptEntrySectors /\ MsrSectors \in Nat \ {0} /\ MsrLba \in Nat
      BY Places
    <3> QED
      BY <3>1, <3>2, Spans DEF End
  <2>4. /\ StartLba < FirstFatLba(guess) /\ 2 + GptEntrySectors < StartLba
        /\ StartLba \in Int /\ FirstFatLba(guess) \in Int /\ GptEntrySectors \in Nat \ {0}
        /\ Place["boot"].first = 0 /\ Place["boot"].behind = FirstFatLba(guess)
    BY Places, PlacesApart
  <2>5. ASSUME NEW s \in {Place["boot"].first, Place["boot"].behind - 1}
                            \cup {d[i].at + d[i].len : i \in t},
               s < Place["boot"].behind
        PROVE  \E j \in t : d[j].at <= s /\ s < d[j].at + d[j].len
    <3>1. \/ s = 0 \/ s = FirstFatLba(guess) - 1 \/ s = StartLba \/ s = 1 \/ s = 2
          \/ s = 2 + GptEntrySectors
          \/ s = End(Writes[8])
      BY <2>1, <2>2, <2>3, <2>4, <2>5
    <3>2. s \in Int
      BY <2>3, <2>4, <3>1
    <3>3. \E j \in t : Writes[j].at <= s /\ s < End(Writes[j])
      <4>1. 0 <= s /\ s < FirstFatLba(guess)
        BY <2>3, <2>4, <3>1
      <4>2. \/ 0 <= s /\ s < 1
            \/ 1 <= s /\ s < 2
            \/ 2 <= s /\ s < 2 + GptEntrySectors
            \/ 2 + GptEntrySectors <= s /\ s < StartLba
            \/ StartLba <= s /\ s < FirstFatLba(guess)
        BY <2>4, <3>2, <4>1
      <4> QED
        BY <2>1, <2>3, <4>2
    <3> QED
      BY <2>2, <3>3
  <2> QED
    BY <2>1, <2>5 DEF Covered
<1> HIDE DEF b, d, t
<1>7. HeldOf("boot", m, p) = IF b = 0 THEN Untouched ELSE IF m < 9 THEN Torn ELSE Covering
  BY <1>1, <1>3, <1>4, <1>5, <1>6
<1> QED
  BY <1>7 DEF b

(* The FATs and the root cluster. *)
LEMMA FatsHold ==
  ASSUME IInv, Planned, NEW m, NEW p, Progress(m, p)
  PROVE  HeldOf("fats", m, p) = IF Begun(m, p) < 2 THEN Untouched
                                ELSE IF m < 12 THEN Torn ELSE Covering
<1> DEFINE b == Begun(m, p)
           d == Done(Writes, m, p)
           t == {i \in 1 .. b : CoverArea[i] = "fats"}
<1>1. b \in 0 .. 15 /\ m \in 0 .. 15 /\ m <= b /\ b <= m + 1
  BY DoneIs DEF Progress, Begun
<1>2. t = 1 .. b \cap {2, 3, 10, 11, 12}
  BY <1>1, AreasOf
<1>3. HeldOf("fats", m, p) = IF t = {} THEN Untouched
                             ELSE IF Covered(d, Place["fats"]) THEN Covering ELSE Torn
  BY HeldIs DEF LifeArea
<1>4. t = {} <=> b < 2
  BY <1>1, <1>2
<1>5. /\ FirstFatLba(guess) < SecondFatLba(guess) /\ SecondFatLba(guess) < DataStartLba(guess)
      /\ DataStartLba(guess) < RootEnd /\ FirstFatLba(guess) \in Int
      /\ SecondFatLba(guess) \in Int /\ DataStartLba(guess) \in Int /\ RootEnd \in Int
      /\ Place["fats"].first = FirstFatLba(guess) /\ Place["fats"].behind = RootEnd
  BY Places, PlacesApart DEF RootEnd
<1>6. Writes[12].at + Writes[12].len = RootEnd
  BY List DEF W, RootEnd
<1>7. ASSUME m < 12 PROVE ~Covered(d, Place["fats"])
  <2>1. ASSUME NEW j \in 1 .. b, CoverArea[j] = "fats"
        PROVE  Writes[j].at + d[j].len < Place["fats"].behind
    <3>1. j \in {2, 3, 10, 11, 12} /\ j \in 1 .. 15
      BY <1>2, <2>1, <1>1
    <3>2. /\ Writes[j].at \in Int /\ Writes[j].len \in Nat /\ d[j].len \in Nat
          /\ d[j].len <= Writes[j].len
          /\ j > m => d[j].len < Writes[j].len
      BY <2>1, OneDone
    <3>3. CASE j = 12
      <4>1. d[j].len < Writes[j].len
        BY <1>1, <1>7, <3>2, <3>3
      <4> HIDE DEF d
      <4> QED
        BY <1>5, <1>6, <3>2, <3>3, <4>1
    <3>4. CASE j # 12
      <4>1. Writes[j].at + Writes[j].len <= DataStartLba(guess)
        BY <1>5, <3>1, <3>4, Integral, Spans DEF End
      <4> HIDE DEF d
      <4> QED
        BY <1>5, <3>2, <4>1
    <3> QED
      BY <3>3, <3>4
  <2> QED
    BY <2>1, LastIsMissing DEF LifeArea
<1>8. ASSUME m >= 12 PROVE Covered(d, Place["fats"])
  <2>1. t = {2, 3, 10, 11, 12} /\ Touching(d, Place["fats"]) = t
    <3>1. 1 .. b \cap {2, 3, 10, 11, 12} = {2, 3, 10, 11, 12}
      BY <1>1, <1>8
    <3> QED
      BY <1>2, <3>1, TouchingIs DEF LifeArea
  <2>2. \A j \in t : d[j].at = Writes[j].at /\ d[j].at + d[j].len = End(Writes[j])
    <3>1. \A j \in t : j \in 1 .. b /\ j <= m
      BY <1>1, <1>8, <2>1
    <3> QED
      BY <3>1, OneDone DEF End
  <2> HIDE DEF d, t
  <2>3. /\ Writes[2].at = FirstFatLba(guess) /\ End(Writes[2]) = SecondFatLba(guess)
        /\ Writes[3].at = SecondFatLba(guess) /\ End(Writes[3]) = DataStartLba(guess)
        /\ Writes[12].at = DataStartLba(guess) /\ End(Writes[12]) = RootEnd
        /\ FirstFatLba(guess) <= End(Writes[10]) /\ End(Writes[10]) \in Int
        /\ FirstFatLba(guess) <= End(Writes[11]) /\ End(Writes[11]) \in Int
    <3>1. /\ Writes[10].len \in Nat /\ Writes[11].len \in Nat
          /\ End(Writes[10]) \in Int /\ End(Writes[11]) \in Int
      BY Integral
    <3>2. Writes[10].at = FirstFatLba(guess) /\ Writes[11].at = SecondFatLba(guess)
      BY Spans
    <3> QED
      BY <1>5, <1>6, <3>1, <3>2, Spans DEF End
  <2>4. ASSUME NEW s \in {Place["fats"].first, Place["fats"].behind - 1}
                            \cup {d[i].at + d[i].len : i \in t},
               s < Place["fats"].behind
        PROVE  \E j \in t : d[j].at <= s /\ s < d[j].at + d[j].len
    <3>1. s \in Int /\ FirstFatLba(guess) <= s /\ s < RootEnd
      BY <1>5, <2>1, <2>2, <2>3, <2>4
    <3>2. \E j \in t : Writes[j].at <= s /\ s < End(Writes[j])
      BY <1>5, <2>1, <2>3, <3>1
    <3> QED
      BY <2>2, <3>2
  <2> QED
    BY <2>1, <2>4 DEF Covered
<1> HIDE DEF b, d, t
<1>9. HeldOf("fats", m, p) = IF b < 2 THEN Untouched ELSE IF m < 12 THEN Torn ELSE Covering
  BY <1>1, <1>3, <1>4, <1>7, <1>8
<1> QED
  BY <1>9 DEF b

(* The trailing gap with the backup GPT. *)
LEMMA TailHolds ==
  ASSUME IInv, Planned, NEW m, NEW p, Progress(m, p)
  PROVE  HeldOf("tail", m, p) = IF Begun(m, p) < 4 THEN Untouched
                                ELSE IF m < 14 THEN Torn ELSE Covering
<1> DEFINE b == Begun(m, p)
           d == Done(Writes, m, p)
           t == {i \in 1 .. b : CoverArea[i] = "tail"}
<1>1. b \in 0 .. 15 /\ m \in 0 .. 15 /\ m <= b /\ b <= m + 1
  BY DoneIs DEF Progress, Begun
<1>2. t = 1 .. b \cap {4, 13, 14}
  BY <1>1, AreasOf
<1>3. HeldOf("tail", m, p) = IF t = {} THEN Untouched
                             ELSE IF Covered(d, Place["tail"]) THEN Covering ELSE Torn
  BY HeldIs DEF LifeArea
<1>4. t = {} <=> b < 4
  BY <1>1, <1>2
<1>5. /\ PartitionEndLba + 1 < BackupEntriesLba /\ BackupEntriesLba < LastLba
      /\ LastLba + 1 = disk /\ PartitionEndLba \in Int /\ BackupEntriesLba \in Int
      /\ LastLba \in Int /\ disk \in Int
      /\ Place["tail"].first = PartitionEndLba + 1 /\ Place["tail"].behind = disk
  BY Places, PlacesApart
<1>6. /\ Writes[4].at = PartitionEndLba + 1 /\ End(Writes[4]) = BackupEntriesLba
      /\ Writes[13].at = BackupEntriesLba /\ End(Writes[13]) = LastLba
      /\ Writes[14].at = LastLba /\ End(Writes[14]) = disk
  BY Spans
<1>7. ASSUME m < 14 PROVE ~Covered(d, Place["tail"])
  <2>1. ASSUME NEW j \in 1 .. b, CoverArea[j] = "tail"
        PROVE  Writes[j].at + d[j].len < Place["tail"].behind
    <3>1. j \in {4, 13, 14} /\ j \in 1 .. 15
      BY <1>2, <2>1, <1>1
    <3>2. /\ Writes[j].at \in Int /\ Writes[j].len \in Nat /\ d[j].len \in Nat
          /\ d[j].len <= Writes[j].len
          /\ j > m => d[j].len < Writes[j].len
      BY <2>1, OneDone
    <3>3. CASE j = 14
      <4>1. d[j].len < Writes[j].len
        BY <1>1, <1>7, <3>2, <3>3
      <4> HIDE DEF d
      <4> QED
        BY <1>5, <1>6, <3>2, <3>3, <4>1 DEF End
    <3>4. CASE j # 14
      <4>1. Writes[j].at + Writes[j].len <= LastLba
        BY <1>5, <1>6, <3>1, <3>4 DEF End
      <4> HIDE DEF d
      <4> QED
        BY <1>5, <3>2, <4>1
    <3> QED
      BY <3>3, <3>4
  <2> QED
    BY <2>1, LastIsMissing DEF LifeArea
<1>8. ASSUME m >= 14 PROVE Covered(d, Place["tail"])
  <2>1. t = {4, 13, 14} /\ Touching(d, Place["tail"]) = t
    <3>1. 1 .. b \cap {4, 13, 14} = {4, 13, 14}
      BY <1>1, <1>8
    <3> QED
      BY <1>2, <3>1, TouchingIs DEF LifeArea
  <2>2. \A j \in t : d[j].at = Writes[j].at /\ d[j].at + d[j].len = End(Writes[j])
    <3>1. \A j \in t : j \in 1 .. b /\ j <= m
      BY <1>1, <1>8, <2>1
    <3> QED
      BY <3>1, OneDone DEF End
  <2> HIDE DEF d, t
  <2>3. ASSUME NEW s \in {Place["tail"].first, Place["tail"].behind - 1}
                            \cup {d[i].at + d[i].len : i \in t},
               s < Place["tail"].behind
        PROVE  \E j \in t : d[j].at <= s /\ s < d[j].at + d[j].len
    <3>1. s \in Int /\ PartitionEndLba + 1 <= s /\ s < disk
      BY <1>5, <1>6, <2>1, <2>2, <2>3
    <3>2. \E j \in t : Writes[j].at <= s /\ s < End(Writes[j])
      BY <1>5, <1>6, <2>1, <3>1
    <3> QED
      BY <2>2, <3>2
  <2> QED
    BY <2>1, <2>3 DEF Covered
<1> HIDE DEF b, d, t
<1>9. HeldOf("tail", m, p) = IF b < 4 THEN Untouched ELSE IF m < 14 THEN Torn ELSE Covering
  BY <1>1, <1>3, <1>4, <1>7, <1>8
<1> QED
  BY <1>9 DEF b

(* The header, and what format does not write. *)
LEMMA OthersHold ==
  ASSUME IInv, Planned, NEW m, NEW p, Progress(m, p)
  PROVE  /\ HeldOf("header", m, p) = IF m < 15 THEN Untouched ELSE Heading
         /\ HeldOf("gap", m, p) = Untouched /\ HeldOf("payload", m, p) = Untouched
<1> DEFINE b == Begun(m, p)
           d == Done(Writes, m, p)
<1>1. b \in 0 .. 15 /\ m \in 0 .. 15 /\ m <= b /\ b <= m + 1
  BY DoneIs DEF Progress, Begun
<1>2. /\ Touching(d, Place["header"]) = {i \in 1 .. b : CoverArea[i] = "header"}
      /\ Touching(d, Place["gap"]) = {i \in 1 .. b : CoverArea[i] = "gap"}
      /\ Touching(d, Place["payload"]) = {i \in 1 .. b : CoverArea[i] = "payload"}
  BY TouchingIs DEF LifeArea
<1>3. /\ Touching(d, Place["header"]) = 1 .. b \cap {15}
      /\ Touching(d, Place["gap"]) = {} /\ Touching(d, Place["payload"]) = {}
  <2>1. \A i \in 1 .. b : i \in 1 .. 15
    BY <1>1
  <2> HIDE DEF b, d
  <2> QED
    BY <1>2, <2>1, AreasOf
<1>4. b = 15 <=> m = 15
  <2>1. Writes[15].len = 1
    BY List DEF W
  <2> QED
    BY <1>1, <2>1 DEF Progress, Begun
<1>5. HeldOf("gap", m, p) = Untouched /\ HeldOf("payload", m, p) = Untouched
  BY <1>3 DEF HeldOf, Held
<1>6. CASE m = 15
  <2>1. 15 \in Touching(d, Place["header"]) /\ 15 \in 1 .. b
    BY <1>1, <1>3, <1>4, <1>6
  <2>2. d[15].what = "header"
    BY <2>1, OneDone, OneHeader
  <2> QED
    BY <1>5, <1>6, <2>1, <2>2 DEF HeldOf, Held
<1>7. CASE m # 15
  <2>1. Touching(d, Place["header"]) = {} /\ m < 15
    BY <1>1, <1>3, <1>4, <1>7
  <2> QED
    BY <1>5, <2>1 DEF HeldOf, Held
<1> QED
  BY <1>6, <1>7

-----------------------------------------------------------------------------
(* What the areas hold when s of the writes are seen. *)
Target(s) ==
  [a \in LifeArea |->
     IF a = "boot" THEN IF s = 0 THEN Untouched ELSE IF s < 9 THEN Torn ELSE Covering
     ELSE IF a = "fats" THEN IF s < 2 THEN Untouched ELSE IF s < 12 THEN Torn ELSE Covering
     ELSE IF a = "tail" THEN IF s < 4 THEN Untouched ELSE IF s < 14 THEN Torn ELSE Covering
     ELSE IF a = "header" /\ s = 15 THEN Heading ELSE Untouched]

SeenOf(m, p) == IF m < NrZeroes /\ p # 0 THEN m + 1 ELSE m

(* After(m, p) without the choice that spares TLC work.                    *)
LEMMA AfterIs ==
  ASSUME NEW m, NEW p
  PROVE  After(m, p) = [a \in LifeArea |-> HeldOf(a, m, p)]
<1> DEFINE f == [a \in LifeArea |-> Held(Done(Writes, m, p), Place[a])]
           s == {[a \in LifeArea |-> Held(done, places[a])] :
                   done \in {Done(Writes, m, p)}, places \in {Place}}
<1>1. s = {f}
  OBVIOUS
<1>2. After(m, p) = CHOOSE target \in s : TRUE
  BY DEF After
<1> HIDE DEF f, s
<1>3. After(m, p) = f
  BY <1>1, <1>2
<1> QED
  BY <1>3 DEF f, HeldOf

(* What the calls have made of the target depends on what is seen of them. *)
LEMMA AfterIsTarget ==
  ASSUME IInv, Planned, NEW m, NEW p, Progress(m, p)
  PROVE  After(m, p) = Target(SeenOf(m, p))
<1> DEFINE s == SeenOf(m, p)
           b == Begun(m, p)
<1>1. /\ m \in 0 .. 15 /\ s \in 0 .. 15
      /\ b = 0 <=> s = 0
      /\ b < 2 <=> s < 2
      /\ b < 4 <=> s < 4
      /\ m < 9 <=> s < 9
      /\ m < 12 <=> s < 12
      /\ m < 14 <=> s < 14
      /\ m < 15 <=> s # 15
  BY DEF Progress, Begun, SeenOf, NrZeroes
<1> HIDE DEF s, b
<1>2. ASSUME NEW a \in LifeArea
      PROVE  HeldOf(a, m, p) = Target(s)[a]
  <2>1. CASE a = "boot"
    BY <1>1, <2>1, BootHolds DEF Target, b
  <2>2. CASE a = "fats"
    BY <1>1, <2>2, FatsHold DEF Target, b
  <2>3. CASE a = "tail"
    BY <1>1, <2>3, TailHolds DEF Target, b
  <2>4. CASE a = "header"
    BY <1>1, <2>4, OthersHold DEF Target
  <2>5. CASE a \in {"gap", "payload"}
    BY <2>5, OthersHold DEF Target
  <2> QED
    BY <2>1, <2>2, <2>3, <2>4, <2>5 DEF LifeArea
<1>3. After(m, p) = Target(s)
  BY <1>2, AfterIs DEF Target
<1> QED
  BY <1>3 DEF s

(* Before the first write the target is random.                            *)
LEMMA NoWrite == After(0, 0) = Filled /\ Target(0) = Filled
<1>1. ASSUME NEW place
      PROVE  Touching(Done(Writes, 0, 0), place) = {}
  <2>1. DOMAIN Done(Writes, 0, 0) = {}
    BY DEF Done
  <2> QED
    BY <2>1 DEF Touching
<1>2. \A a \in LifeArea : HeldOf(a, 0, 0) = Untouched
  BY <1>1 DEF HeldOf, Held
<1>3. Target(0) = Filled
  BY DEF Target, Filled
<1> QED
  BY <1>2, <1>3, AfterIs DEF Filled

(* A failing call that has begun the reserved sectors. *)
Unfinished == failed /\ part # 0 /\ made = 8

(* View and Durable, once format writes, from what is seen of the writes.  *)
LEMMA StateIs ==
  CInv /\ ~Unbegun =>
    /\ View = IF Unfinished THEN [Target(Seen) EXCEPT !["boot"] = Covering]
                            ELSE Target(Seen)
    /\ Durable = IF synced THEN Target(14) ELSE Target(0)
<1> SUFFICES ASSUME CInv, ~Unbegun
             PROVE  /\ View = IF Unfinished THEN [Target(Seen) EXCEPT !["boot"] = Covering]
                                            ELSE Target(Seen)
                    /\ Durable = IF synced THEN Target(14) ELSE Target(0)
  OBVIOUS
<1>1. Seen = SeenOf(made, part) /\ Progress(made, part)
  BY DEF Seen, SeenOf, Progress, CInv, NrWrites
<1>2. CASE made = 0 /\ part = 0
  <2>1. Seen = 0 /\ ~synced /\ ~Unfinished /\ ~BootSectorOnly
    BY <1>2 DEF Seen, CInv, NrStructures, Unfinished, BootSectorOnly
  <2> QED
    BY <1>2, <2>1, NoWrite DEF View, Durable
<1>3. CASE ~(made = 0 /\ part = 0)
  <2>1. IInv /\ Planned
    BY <1>3 DEF CInv, Planned
  <2>2. After(made, part) = Target(Seen)
    BY <1>1, <2>1, AfterIsTarget
  <2>3. BootSectorOnly <=> Unfinished
    <3>1. ASSUME part # 0
          PROVE  Writes[made + 1].what = "reserved" <=> made = 8
      <4>1. made \in 0 .. 14
        BY <3>1 DEF CInv, NrWrites
      <4> QED
        BY <4>1, OneHeader
    <3> QED
      BY <3>1 DEF BootSectorOnly, Unfinished
  <2>4. After(NrStructures, 0) = Target(14)
    <3>1. Progress(14, 0) /\ SeenOf(14, 0) = 14
      BY DEF Progress, SeenOf
    <3> QED
      BY <2>1, <3>1, AfterIsTarget DEF NrStructures
  <2> QED
    BY <2>2, <2>3, <2>4, NoWrite DEF View, Durable
<1> QED
  BY <1>2, <1>3

-----------------------------------------------------------------------------
(* The steps of HazmatLifecycle, by what they do to what is mapped.        *)
LEMMA Stutters ==
  ASSUME View' = View, Durable' = Durable, LifePc' = LifePc, Command' = Command,
         Position' = Position, Reported' = Reported, CutOff' = CutOff
  PROVE  UNCHANGED Life!vars
BY DEF Life!vars, Life!user, Life!history

(* The command ends with a fault: the target stays as it is, or the boot   *)
(* sector is the last that was written.                                    *)
LEMMA Aborts ==
  ASSUME Durable' = Durable, Reported' = Reported,
         LifePc # "idle", LifePc' = "idle", Position' = 0,
         Command' = Life!NoCmd, ~CutOff, CutOff',
         \/ View' = View
         \/ /\ LifePc = "cover" /\ Position = 3
            /\ View' = [View EXCEPT !["boot"] = Covering]
  PROVE  Life!Next
<1>1. Life!Cut
  BY DEF Life!Cut
<1>2. \/ View' = View
      \/ LifePc = "cover" /\ Position < Len(Life!CoverWrites) /\ Life!CoverStops
  <2>1. ASSUME Position = 3, View' = [View EXCEPT !["boot"] = Covering]
        PROVE  Position < Len(Life!CoverWrites) /\ Life!CoverStops
    <3>1. 3 < Len(Life!CoverWrites) /\ Life!CoverWrites[3 + 1] = "boot"
      BY DEF Life!CoverWrites
    <3>2. Position >= Life!ZeroWrites
      BY <2>1 DEF Life!ZeroWrites
    <3>3. Covering = Life!Content("cover", 1, Life!NoPass)
      BY DEF Covering, LifeContent, Life!Content, Life!NoPass
    <3> QED
      BY <2>1, <3>1, <3>2, <3>3 DEF Life!CoverStops
  <2> QED
    BY <2>1
<1>3. Life!Abort
  BY <1>1, <1>2 DEF Life!Abort, Life!Idle, Life!user
<1> QED
  BY <1>3 DEF Life!Next

(* A position with a write of the list still to come. *)
LEMMA BeforeTheLast == \A p \in 0 .. 5 : p < Len(Life!CoverWrites)
BY DEF Life!CoverWrites

LEMMA Covers ==
  ASSUME LifePc = "cover", LifePc' = "cover", Position \in 0 .. 5,
         Position' = Position + 1, Durable' = Durable, Command' = Command,
         Reported' = Reported, CutOff' = CutOff,
         View' = [View EXCEPT ![Life!CoverWrites[Position + 1]] =
                    IF Position < 3 THEN Life!Over(@, 1) ELSE Covering]
  PROVE  Life!Next
<1>1. Position < Len(Life!CoverWrites)
  BY BeforeTheLast
<1>2. Covering = Life!Content("cover", 1, Life!NoPass) /\ Life!ZeroWrites = 3
  BY DEF Life!ZeroWrites, Life!Content, Life!NoPass, Covering, LifeContent
<1>3. Life!Cover
  BY <1>1, <1>2 DEF Life!Cover, Life!user, Life!history
<1> QED
  BY <1>3 DEF Life!Next

LEMMA Syncs ==
  ASSUME LifePc = "cover", LifePc' = "header", Position = 6, Position' = 6,
         View' = View, Durable' = View, Command' = Command, Reported' = Reported,
         CutOff' = CutOff
  PROVE  Life!Next
<1>1. Position = Len(Life!CoverWrites)
  BY DEF Life!CoverWrites
<1>2. Life!CoverSync
  BY <1>1 DEF Life!CoverSync, Life!CoverEnds, Life!user, Life!history
<1> QED
  BY <1>2 DEF Life!Next

LEMMA Heads ==
  ASSUME LifePc = "header", LifePc' = "idle", Position' = 0, Durable' = Durable,
         Command.pass = Password, Command' = Life!NoCmd,
         Reported' = [name |-> "formatted", pass |-> Password],
         CutOff' = CutOff,
         View' = [View EXCEPT !["header"] = Heading]
  PROVE  Life!Next
<1>1. Heading = Life!Content("header", 1, Command.pass)
  BY DEF Life!Content, Heading, LifeContent
<1>2. Life!WriteHeader
  BY <1>1 DEF Life!WriteHeader, Life!HeaderDone, Life!Idle, Life!user
<1> QED
  BY <1>2 DEF Life!Next

-----------------------------------------------------------------------------
(* A write behind another one of the same area changes nothing of it, if   *)
(* the area is complete by a later one only.                               *)
LEMMA Repeats ==
  ASSUME NEW s \in {2, 4, 5, 6, 7, 9, 10, 12}
  PROVE  Target(s + 1) = Target(s) /\ StepOf[s + 1] = StepOf[s]
<1>1. StepOf[s + 1] = StepOf[s]
  BY DEF StepOf
<1>2. \A a \in LifeArea : Target(s + 1)[a] = Target(s)[a]
  BY DEF Target
<1> QED
  BY <1>1, <1>2 DEF Target

(* Every other write of write_structures is the next step of CoverWrites.  *)
LEMMA Advances ==
  ASSUME NEW s \in {0, 1, 3, 8, 11, 13},
         NEW p, p = IF s = 0 THEN 0 ELSE StepOf[s]
  PROVE  /\ p \in 0 .. 5 /\ StepOf[s + 1] = p + 1
         /\ Target(s + 1) = [Target(s) EXCEPT ![Life!CoverWrites[p + 1]] =
                               IF p < 3 THEN Life!Over(@, 1) ELSE Covering]
<1>1. /\ p = (IF s = 0 THEN 0 ELSE IF s = 1 THEN 1 ELSE IF s = 3 THEN 2
              ELSE IF s = 8 THEN 3 ELSE IF s = 11 THEN 4 ELSE 5)
      /\ StepOf[s + 1] = p + 1
  BY DEF StepOf
<1>2. /\ Life!CoverWrites[1] = "boot" /\ Life!CoverWrites[2] = "fats"
      /\ Life!CoverWrites[3] = "tail" /\ Life!CoverWrites[4] = "boot"
      /\ Life!CoverWrites[5] = "fats" /\ Life!CoverWrites[6] = "tail"
  BY DEF Life!CoverWrites
<1>3. Life!Over(Untouched, 1) = Torn
  BY DEF Life!Over, Life!Random, Life!Content, Life!NoPass, Untouched, Torn, LifeContent
<1> DEFINE x == Life!CoverWrites[p + 1]
           new == [Target(s) EXCEPT ![x] = IF p < 3 THEN Life!Over(@, 1) ELSE Covering]
<1>4. x = IF s \in {0, 8} THEN "boot" ELSE IF s \in {1, 11} THEN "fats" ELSE "tail"
  BY <1>1, <1>2
<1>5. Target(s)[x] = (IF p < 3 THEN Untouched ELSE Torn) /\ x \in LifeArea
  BY <1>1, <1>4 DEF Target, LifeArea
<1>6. new = [Target(s) EXCEPT ![x] = IF p < 3 THEN Torn ELSE Covering]
  BY <1>3, <1>5
<1>7. ASSUME NEW a \in LifeArea
      PROVE  Target(s + 1)[a] = IF a = x THEN IF p < 3 THEN Torn ELSE Covering
                                         ELSE Target(s)[a]
  <2>1. CASE a = "boot"
    BY <1>1, <1>4, <2>1 DEF Target
  <2>2. CASE a = "fats"
    BY <1>1, <1>4, <2>2 DEF Target
  <2>3. CASE a = "tail"
    BY <1>1, <1>4, <2>3 DEF Target
  <2>4. CASE a \notin {"boot", "fats", "tail"}
    BY <1>1, <1>4, <2>4 DEF Target
  <2> QED
    BY <2>1, <2>2, <2>3, <2>4
<1> HIDE DEF x
<1>8. Target(s + 1) = [Target(s) EXCEPT ![x] = IF p < 3 THEN Torn ELSE Covering]
  <2>1. /\ Target(s + 1) = [a \in LifeArea |-> Target(s + 1)[a]]
        /\ Target(s) = [a \in LifeArea |-> Target(s)[a]]
    BY DEF Target
  <2> HIDE DEF new
  <2> QED
    BY <1>5, <1>7, <2>1
<1>9. p \in 0 .. 5
  BY <1>1
<1> QED
  BY <1>1, <1>6, <1>8, <1>9 DEF x

(* The header is the last of them. *)
LEMMA TheHeader == Target(15) = [Target(14) EXCEPT !["header"] = Heading]
<1>1. Target(14)["header"] = Untouched /\ "header" \in LifeArea
  BY DEF Target, LifeArea
<1>2. \A a \in LifeArea : Target(15)[a] = IF a = "header" THEN Heading ELSE Target(14)[a]
  BY DEF Target
<1>3. /\ Target(15) = [a \in LifeArea |-> Target(15)[a]]
      /\ Target(14) = [a \in LifeArea |-> Target(14)[a]]
  BY DEF Target
<1> QED
  BY <1>1, <1>2, <1>3

(* Where view and durable are after a step that leaves format writing.     *)
LEMMA StateNext ==
  ASSUME CInv, [CoverNext]_allVars, ~Unbegun'
  PROVE  /\ View' = IF Unfinished' THEN [Target(Seen') EXCEPT !["boot"] = Covering]
                                   ELSE Target(Seen')
         /\ Durable' = IF synced' THEN Target(14) ELSE Target(0)
<1>1. CInv'
  BY CoverNextCInv
<1>2. (CInv /\ ~Unbegun =>
        /\ View = IF Unfinished THEN [Target(Seen) EXCEPT !["boot"] = Covering]
                                ELSE Target(Seen)
        /\ Durable = IF synced THEN Target(14) ELSE Target(0))'
  BY StateIs, PTL
<1> QED
  BY <1>1, <1>2

-----------------------------------------------------------------------------
(* Planning: the target is as the fill left it, and what is tried does not *)
(* show; an error, or a panic, ends the command.                           *)
LEMMA PlanningIsHidden ==
  ASSUME CInv, [CoverNext]_allVars, Plan, pc # "format"
  PROVE  Life!Next \/ UNCHANGED Life!vars
<1>1. made' = made /\ part' = part /\ failed' = failed /\ synced' = synced
  BY DEF Plan, coverVars
<1>2. /\ pc \in {"structures", "loop", "planned"}
      /\ pc' \in {"loop", "planned", "patched", "error", "panic"}
  BY DEF Plan, CheckMinimum, CheckLayout, Retry, TooSmall, Accept, Patch
<1>3. made = 0 /\ part = 0 /\ ~synced
  BY <1>2 DEF CInv, NrStructures
<1>4. ~Unbegun /\ ~Unbegun' /\ ~Unfinished /\ ~Unfinished' /\ Seen' = Seen
  BY <1>1, <1>2, <1>3 DEF Unbegun, Unfinished, Seen
<1>5. View' = View /\ Durable' = Durable
  <2>1. View = Target(Seen) /\ Durable = Target(0)
    BY <1>3, <1>4, StateIs
  <2>2. View' = Target(Seen') /\ Durable' = Target(0)
    BY <1>1, <1>3, <1>4, StateNext
  <2> QED
    BY <1>4, <2>1, <2>2
<1>6. Reported' = Reported
  BY <1>1 DEF Reported
<1>7. Position = 0 /\ Position' = 0
  BY <1>1, <1>3 DEF Position, Seen
<1>8. (Ended <=> CutOff) /\ (Ended' <=> CutOff') /\ (Ended => Ended')
  BY <1>1, <1>2, <1>3 DEF Ended, CutOff, NrWrites
<1>9. CASE Ended <=> Ended'
  <2>1. LifePc' = LifePc /\ Command' = Command
    BY <1>1, <1>9 DEF LifePc, Command
  <2>2. CutOff' = CutOff
    BY <1>8, <1>9 DEF CutOff
  <2> QED
    BY <1>5, <1>6, <1>7, <2>1, <2>2, Stutters
<1>10. CASE ~Ended /\ Ended'
  <2>1. LifePc # "idle" /\ LifePc' = "idle"
    BY <1>10 DEF LifePc
  <2>2. Command' = Life!NoCmd
    BY <1>10 DEF Command, Life!NoCmd, Life!NoPass
  <2> QED
    BY <1>5, <1>6, <1>7, <1>8, <1>10, <2>1, <2>2, Aborts
<1> QED
  BY <1>8, <1>9, <1>10

(* What is seen of the writes of a format that goes on. *)
LEMMA GoesOn ==
  ASSUME CInv, pc = "patched", ~failed, made # NrWrites
  PROVE  /\ ~Unbegun /\ ~Ended /\ ~CutOff /\ ~Unfinished
         /\ View = Target(Seen)
         /\ Command.pass = Password
         /\ LifePc = IF synced THEN "header" ELSE "cover"
         /\ Position = IF Seen = 0 THEN 0 ELSE StepOf[Seen]
<1>1. ~Unbegun /\ ~Ended /\ ~CutOff /\ ~Unfinished
  BY DEF Unbegun, Ended, CutOff, Unfinished
<1>2. Command.pass = Password
  BY <1>1 DEF Command
<1> QED
  BY <1>1, <1>2, StateIs DEF LifePc, Position

(* A call of write(2). *)
LEMMA WritingIsPhases ==
  ASSUME CInv, [CoverNext]_allVars, WriteNext
  PROVE  Life!Next \/ UNCHANGED Life!vars
<1>1. /\ pc = "patched" /\ pc' = "patched" /\ ~failed /\ ~failed'
      /\ synced' = synced /\ made \in 0 .. 14
      /\ made = 14 => synced
  BY CallMoves DEF Writing, vars, CInv, NrWrites, NrStructures
<1>2. synced => made = 14
  BY <1>1 DEF CInv, NrStructures
<1>3. /\ \/ made' = made + 1 /\ part' = 0
         \/ made' = made /\ part' \in Nat \ {0}
      /\ part \in Nat
  BY CallMoves DEF CInv
<1>4. made # NrWrites
  BY <1>1 DEF NrWrites
<1>5. CInv'
  BY CoverNextCInv
<1>6. /\ ~Unbegun /\ ~Ended /\ ~CutOff /\ View = Target(Seen)
      /\ Command.pass = Password
      /\ LifePc = IF synced THEN "header" ELSE "cover"
      /\ Position = IF Seen = 0 THEN 0 ELSE StepOf[Seen]
  BY <1>1, <1>4, GoesOn
<1>7. ~Unbegun' /\ ~CutOff' /\ ~Unfinished' /\ CutOff' = CutOff
  BY <1>1, <1>6 DEF Unbegun, CutOff, Unfinished
<1>8. View' = Target(Seen') /\ Durable' = Durable
  <2>1. /\ View' = Target(Seen')
        /\ Durable' = IF synced THEN Target(14) ELSE Target(0)
    BY <1>1, <1>7, StateNext
  <2>2. Durable = IF synced THEN Target(14) ELSE Target(0)
    BY <1>6, StateIs
  <2> QED
    BY <2>1, <2>2
<1>9. /\ Seen \in 0 .. 14 /\ Seen' \in {Seen, Seen + 1}
      /\ Seen = 14 <=> made = 14
      /\ made' = 15 <=> Seen' = 15
  BY <1>1, <1>3 DEF Seen, NrZeroes
<1>10. Ended' <=> Seen' = 15
  BY <1>1, <1>9 DEF Ended, NrWrites
<1>11. ASSUME Seen' # 15
       PROVE  /\ LifePc' = LifePc /\ Command' = Command /\ Reported' = Reported
              /\ Position' = IF Seen' = 0 THEN 0 ELSE StepOf[Seen']
  <2>1. ~Ended' /\ made' # NrWrites
    BY <1>9, <1>10, <1>11 DEF NrWrites
  <2>2. LifePc' = LifePc /\ Command' = Command
    BY <1>1, <1>6, <2>1 DEF LifePc, Command
  <2>3. Reported' = Reported
    BY <1>4, <2>1 DEF Reported
  <2>4. Position' = IF Seen' = 0 THEN 0 ELSE StepOf[Seen']
    BY <2>1 DEF Position
  <2> QED
    BY <2>2, <2>3, <2>4
<1>12. CASE Seen' = Seen
  <2>1. Seen' # 15
    BY <1>9, <1>12
  <2>2. Position' = Position /\ View' = View
    BY <1>6, <1>8, <1>11, <1>12, <2>1
  <2> QED
    BY <1>7, <1>8, <1>11, <2>1, <2>2, Stutters
<1>13. CASE Seen' = Seen + 1 /\ Seen \in {2, 4, 5, 6, 7, 9, 10, 12}
  <2>1. Seen' # 15 /\ Seen # 0 /\ Seen' # 0
    BY <1>13
  <2>2. Position' = Position /\ View' = View
    BY <1>6, <1>8, <1>11, <1>13, <2>1, Repeats
  <2> QED
    BY <1>7, <1>8, <1>11, <2>1, <2>2, Stutters
<1>14. CASE Seen' = Seen + 1 /\ Seen \in {0, 1, 3, 8, 11, 13}
  <2>1. Seen' # 15 /\ Seen' # 0 /\ made # 14
    BY <1>9, <1>14
  <2>2. LifePc = "cover" /\ LifePc' = "cover"
    BY <1>2, <1>6, <1>11, <2>1
  <2>3. /\ Position \in 0 .. 5 /\ Position' = Position + 1
        /\ View' = [View EXCEPT ![Life!CoverWrites[Position + 1]] =
                      IF Position < 3 THEN Life!Over(@, 1) ELSE Covering]
    BY <1>6, <1>8, <1>11, <1>14, <2>1, Advances
  <2> QED
    BY <1>7, <1>8, <1>11, <2>1, <2>2, <2>3, Covers
<1>15. CASE Seen' = Seen + 1 /\ Seen = 14
  <2>1. /\ LifePc = "header" /\ LifePc' = "idle" /\ Position' = 0
        /\ Command' = Life!NoCmd
    BY <1>1, <1>6, <1>9, <1>10, <1>15
       DEF LifePc, Position, Command, Life!NoCmd, Life!NoPass
  <2>2. Reported' = [name |-> "formatted", pass |-> Password]
    BY <1>9, <1>15 DEF Reported, NrWrites
  <2>3. View' = [View EXCEPT !["header"] = Heading]
    BY <1>6, <1>8, <1>15, TheHeader
  <2> QED
    BY <1>6, <1>7, <1>8, <2>1, <2>2, <2>3, Heads
<1> QED
  BY <1>9, <1>12, <1>13, <1>14, <1>15

(* The fsync of write_structures. *)
LEMMA SyncIsPhase ==
  ASSUME CInv, [CoverNext]_allVars, Sync
  PROVE  Life!Next
<1>1. /\ pc = "patched" /\ pc' = "patched" /\ ~failed /\ ~failed'
      /\ made = 14 /\ made' = 14 /\ part' = part /\ ~synced /\ synced'
  BY DEF Sync, vars, NrStructures
<1>2. made # NrWrites /\ made' # NrWrites
  BY <1>1 DEF NrWrites
<1>3. Seen = 14 /\ Seen' = 14
  BY <1>1 DEF Seen, NrZeroes
<1>4. /\ ~Unbegun /\ ~Ended /\ ~CutOff /\ View = Target(14)
      /\ LifePc = "cover" /\ Position = StepOf[14]
  BY <1>1, <1>2, <1>3, GoesOn
<1>5. ~Unbegun' /\ ~CutOff' /\ ~Unfinished' /\ ~Ended' /\ CutOff' = CutOff
  BY <1>1, <1>2, <1>4 DEF Unbegun, CutOff, Unfinished, Ended
<1>6. View' = View /\ Durable' = View
  BY <1>1, <1>3, <1>4, <1>5, StateNext
<1>7. LifePc' = "header" /\ Command' = Command /\ Reported' = Reported
  BY <1>1, <1>2, <1>4, <1>5 DEF LifePc, Command, Reported
<1>8. Position = 6 /\ Position' = 6
  BY <1>3, <1>4, <1>5 DEF Position, StepOf
<1> QED
  BY <1>4, <1>5, <1>6, <1>7, <1>8, Syncs

(* A failing call ends the command.  What it has left is seen already, but *)
(* for the boot sector.                                                    *)
LEMMA FailingIsAbort ==
  ASSUME CInv, [CoverNext]_allVars, WriteFails
  PROVE  Life!Next
<1>1. /\ pc = "patched" /\ pc' = "patched" /\ ~failed /\ failed' /\ synced' = synced
      /\ made # NrWrites /\ made' = made /\ part' = part
  BY DEF WriteFails, vars, CInv, NrWrites
<1>2. /\ ~Unbegun /\ ~Ended /\ ~CutOff /\ View = Target(Seen)
      /\ LifePc = IF synced THEN "header" ELSE "cover"
      /\ Position = IF Seen = 0 THEN 0 ELSE StepOf[Seen]
  BY <1>1, GoesOn
<1>3. ~Unbegun' /\ CutOff' /\ Ended' /\ Seen' = Seen
  BY <1>1, <1>2 DEF Unbegun, CutOff, Ended, Seen
<1>4. Durable' = Durable
  BY <1>1, <1>2, <1>3, StateIs, StateNext
<1>5. Reported' = Reported
  BY <1>1 DEF Reported
<1>6. LifePc # "idle" /\ LifePc' = "idle" /\ Position' = 0
  BY <1>2, <1>3 DEF LifePc, Position
<1>7. Command' = Life!NoCmd
  BY <1>3 DEF Command, Life!NoCmd, Life!NoPass
<1>8. \/ View' = View
      \/ /\ LifePc = "cover" /\ Position = 3
         /\ View' = [View EXCEPT !["boot"] = Covering]
  <2>1. CASE ~Unfinished'
    BY <1>2, <1>3, <2>1, StateNext
  <2>2. CASE Unfinished'
    <3>1. made = 8 /\ ~synced /\ Seen = 8
      BY <1>1, <2>2 DEF Unfinished, CInv, NrStructures, Seen, NrZeroes
    <3>2. View' = [View EXCEPT !["boot"] = Covering]
      BY <1>2, <1>3, <2>2, StateNext
    <3>3. LifePc = "cover" /\ Position = 3
      BY <1>2, <3>1 DEF StepOf
    <3> QED
      BY <3>2, <3>3
  <2> QED
    BY <2>1, <2>2
<1> QED
  BY <1>2, <1>3, <1>4, <1>5, <1>6, <1>7, <1>8, Aborts

(* Users of the cover filesystem, and an open that looks for the header,   *)
(* come after format; nothing else changes nothing.                        *)
LEMMA UseIsHidden ==
  ASSUME CInv, [CoverNext]_allVars, made' = made, part' = part, failed' = failed,
         synced' = synced, pc # "format",
         pc' = pc \/ (Formatted /\ pc' \in {"opened", "lost"}),
         guess' = guess, disk' = disk
  PROVE  UNCHANGED Life!vars
<1>1. Seen' = Seen /\ Unfinished' = Unfinished /\ Unbegun' = Unbegun
  BY DEF Seen, Unfinished, Unbegun, Formatted
<1>2. Ended' = Ended /\ CutOff' = CutOff
  BY DEF Ended, CutOff, Formatted
<1>3. View' = View /\ Durable' = Durable
  <2>1. CASE Unbegun
    <3>1. part = 0 /\ part' = 0
      BY <2>1 DEF Unbegun, CInv
    <3>2. ~BootSectorOnly /\ ~BootSectorOnly'
      BY <3>1 DEF BootSectorOnly
    <3> QED
      BY <1>1, <2>1, <3>2 DEF View, Durable, Before
  <2>2. CASE ~Unbegun
    BY <1>1, <2>2, StateIs, StateNext
  <2> QED
    BY <2>1, <2>2
<1>4. /\ LifePc' = LifePc /\ Command' = Command /\ Reported' = Reported
      /\ Position' = Position
  BY <1>1, <1>2 DEF LifePc, Command, Reported, Position
<1> QED
  BY <1>2, <1>3, <1>4, Stutters

(* Once the target is filled, what format does to it, call by call, is     *)
(* what the phases `cover` and `header` of HazmatLifecycle do, for every   *)
(* size and layout, and what a failing call leaves is what an abort may    *)
(* leave there (write_structures, msfat32.rs:641-677; write_all_at,        *)
(* io.rs:366; inserting_hazmat_structures, format.rs:17).                  *)
THEOREM FormatIsPhases == CoverSpec => FormatPhases
<1>1. ASSUME CInv, [CoverNext]_allVars
      PROVE  [pc # "format" => Life!Next]_(Life!vars)
  <2> SUFFICES ASSUME pc # "format" PROVE Life!Next \/ UNCHANGED Life!vars
    OBVIOUS
  <2>1. CASE Plan
    BY <1>1, <2>1, PlanningIsHidden
  <2>2. CASE WriteNext
    BY <1>1, <2>2, WritingIsPhases
  <2>3. CASE Sync
    BY <1>1, <2>3, SyncIsPhase
  <2>4. CASE WriteFails
    BY <1>1, <2>4, FailingIsAbort
  <2>5. CASE \E search \in Searches, n \in FileClusters : WriteFile(search, n)
    <3>1. /\ made' = made /\ part' = part /\ failed' = failed /\ synced' = synced
          /\ pc' = pc /\ guess' = guess /\ disk' = disk
      BY <2>5 DEF WriteFile, vars
    <3> QED
      BY <1>1, <3>1, UseIsHidden
  <2>6. CASE OpenCover
    <3>1. /\ made' = made /\ part' = part /\ failed' = failed /\ synced' = synced
          /\ Formatted /\ pc' \in {"opened", "lost"} /\ guess' = guess /\ disk' = disk
      BY <2>6 DEF OpenCover, Open, coverVars
    <3> QED
      BY <1>1, <3>1, UseIsHidden
  <2>7. CASE UNCHANGED allVars
    <3>1. /\ made' = made /\ part' = part /\ failed' = failed /\ synced' = synced
          /\ pc' = pc /\ guess' = guess /\ disk' = disk
      BY <2>7 DEF allVars, vars, coverVars
    <3> QED
      BY <1>1, <3>1, UseIsHidden
  <2> QED
    BY <1>1, <2>1, <2>2, <2>3, <2>4, <2>5, <2>6, <2>7 DEF CoverNext
<1> QED
  BY <1>1, CoverInductive, PTL DEF CoverSpec, FormatPhases
=============================================================================
