# Verification of hazmat

hazmat hides an encrypted block device in the free clusters of a FAT32 cover
filesystem on a USB stick. This directory holds TLA+ specifications of its
parts, TLC configurations that check them on small instances, and proofs checked
by TLAPS.

    tlc -workers 2 -config ublk_power.cfg MCUblk     # a run
    tlapm UblkProofs.tla                             # proofs

## 1. Inventory

| part | source | state | operations |
|---|---|---|---|
| open: request handler | `cmd/open.rs`, `io.rs` | backing target, page cache, one task and one buffer per tag, one run queue per queue thread | io_task, handle_io, read/write/flush_result, queue_handler |
| sector cipher | `cipher.rs` | none (key, counter and xor seed are fixed) | encrypt_sector, decrypt_sector, xor_walk |
| cover geometry | `msfat32.rs` | the guess of a loop, the boot sector | fat32_geometry, patched_reserved_sectors, read_fat32_disk_layout, first_unused_cluster_lba |
| writing of the cover structures | `msfat32.rs`, `cmd/format.rs`, `hazmat.rs` | the sequence of writes to the target | write_structures, inserting_hazmat_structures, create_header |
| random fill | `io.rs`, `cmd/sanitize.rs` | descriptor position | sanitize_disk, block_walk |
| commands | `cmd/format.rs`, `cmd/sanitize.rs`, `cmd/open.rs` | the target, across commands | format, sanitize, open |
| I/O device layer | `io.rs` | the file descriptor and sizes | seek, sync, write(_all)(_at), read(_exact)(_at), write_zeroes_at |
| header | `hazmat.rs` | none | create_header, verify_header |
| command line and exit handler | `main.rs` | none | confirm_danger, start_exit_handler |
| bytes of GPT, FAT, FSInfo | `msfat32.rs`, `msfat32-blobs/` | none | patched_*, crc32, GUIDs, timestamps |
| key derivation | `cipher.rs` | none | derive_key |
| prompts, progress, reports | `cmd/mod.rs`, `utils.rs`, `ll.rs`, `constants.rs` | none | |

**How they interact.** `format` fills the target with random data
(sanitize_disk), writes the cover structures at places computed by
fat32_geometry, syncs, and writes the encrypted header in the first sector of
cluster 1003. `open` reads the boot sector, computes the address of the header
from it, decrypts it with the password, and serves the payload range named in
it through ublk: four queue threads with 64 tags each call the request handler,
which works on the one file descriptor with pread(2), pwrite(2) and fsync(2).
A thread of its own turns SIGINT and SIGTERM into `exit(0)` at any moment.
Nothing locks the target, so an open command may run, and go on serving its
device, while another command overwrites the target; and any system may mount
the cover filesystem and write files to it.

**What is hard.** The queue threads work on the target at the same time; the
system may split every transfer and fail every call; a command of io_uring, or
the event loop of one queue, may fail while the others go on; the page cache is
written back in any order and lost with the power; commands are cut short
anywhere and started again; the geometry is found by a loop whose guess moves
what it depends on; fifteen writes to ranges that touch must leave each other
alone, and may stop in the middle; the fill ignores how much its calls moved; and
`open` has only the boot sector to find the header by.
`PROJECT.json` lists each of these hazards at its line, with the properties that
cover it.

**What makes each part correct.**

* The request handler is a plain block device (ImplementsShadow) whose reads
  return what was there (ReadsAreRegular), that never touches what is around
  the payload (OutsideUntouched), loses no tag (NoTagLost), handles each request
  once (HandlingProceeds) and in its turn (NoOvertaking), never loses what was
  flushed (FlushedSurvives), answers every request (EveryRequestAnswered) and ends
  when it is removed (RemovalEnds).
* The cipher is invertible at the same address only.
* The geometry is found for every size that has one (NoGeometryMissed), its
  regions do not overlap, and open finds the header again.
* The structures stay as they were written (StructuresIntact), the copies agree
  (FatsAgree, GptAgrees), the payload keeps its random fill (PayloadKeepsFill), and
  other systems that use the cover reach the header before the payload, so that no
  damaged payload is opened (HeaderGoesFirst). That they have room before the header
  (GapIsRoom) is not so. The areas are complete one after the other, as the life of a
  target assumes, and a call that fails leaves no more than that assumes
  (FormatPhases).
* The fill never passes the end of the target (NeverGrows), and leaves at its end
  exactly what its short writes did not move (LeftIsMissed). That it leaves nothing
  (DoneIsFilled) is not so.
* Whatever interrupts the commands or runs beside them, older content is left under
  a cover only where short writes of the fill have missed it, and not under a
  structure once format is done (NothingOldUnderCover); a header is there only with
  its cover (HeaderNeedsCover); while the power lasts, a formatted target opens as
  said (PoweredOpens) and no half-destroyed payload is opened (OpenedIsWhole); and what
  sanitize has filled stays so (SanitizedSurvives).

## 2. Modules

| module | models | extends |
|---|---|---|
| `SectorCipher` | the sector transform, as operators | |
| `SectorRoundTrip` | one sector encrypted, then decrypted | SectorCipher |
| `UblkTarget` | queues, tags, request handler, target, faults | SectorCipher |
| `ShadowDevice` | the abstract block device | |
| `UblkRefinement` | refinement mapping of UblkTarget to ShadowDevice | UblkTarget |
| `FlushHistory` | UblkTarget with a history of what was flushed | UblkRefinement |
| `Fat32Geometry` | planning of the cover, boot sector, search for the header | |
| `CoverImage` | the writes of format, and a system that uses the cover | Fat32Geometry |
| `CoverRefinement` | refinement mapping of CoverImage to the phases of HazmatLifecycle | CoverImage |
| `Sanitize` | the random fill, write by write | |
| `HazmatLifecycle` | format, sanitize and open on one target | |
| `MCSector`, `MCUblk`, `MCFlush`, `MCFat32`, `MCCover`, `MCSanitize`, `MCLifecycle` | constants for TLC | |
| `SectorLemmas`, `SectorProofs`, `UblkProofs`, `UblkRefinementProofs`, `Fat32Proofs`, `CoverProofs`, `SanitizeProofs`, `LifecycleProofs` | theorems | |

**UblkTarget.** A task of a tag goes through `start` (io_task before
submit_io_prep_cmd), `idle` (the driver owns the tag), `queued` (the command is
complete, the task woken), `io` (inside read_result, write_result or
flush_result), `commit` (result known, before submit_io_commit_cmd), and on
removal `aborted` and `finished`. `runq` is the run queue of the local executor
of each queue thread: `Poll` takes its first task only when no other task of
the queue is between `io` and `commit`, because handle_io does not await. One
`ReadChunk` or `WriteChunk` is one pread(2) or pwrite(2) that moves any number
of words; so chunks of different queues interleave. `backing` is the target as
every call sees it, `durable` what survives a power loss; `WriteBack` copies one
word at any time and fsync all of them. `Submit`, `Remove` and `Abort` are the
ublk driver, `Exit` the signal, `Reopen` the next `hazmat open`. A request is
[op, start, nr, data] in sectors; sizes are in words of 8 bytes. `seen` is a
history variable for ReadsAreRegular and the refinement; it does not influence
any step.

`Faults` says what may go wrong. "error": a call on the target fails or moves
nothing. "signal" and "power": the process ends, in the second case with what
was not durable. "uring": the command a task awaits ends with another error
than QueueIsDown, and the task ends (`CommandFails`); the result of a request
cannot be delivered (`CommitFails`, then `failed`); the event loop of a queue
returns an error and its tasks are gone (`LoopFails`), with requests they were
to handle (`dropped`). open returns when every task has `Ended`, in whichever
way.

**ShadowDevice** says what the block layer may rely on: a write takes effect
word by word until it is answered, a read returns for each word a value held
while it was in flight, a flush makes stable what was there at some instant of
its flight, a failing request may have had part of its effect, a power loss
returns to the stable copy, and the end of the server changes nothing.
`UblkRefinement` maps `data` and `stable` to the decrypted payload of `backing`
and `durable`; a slot is pending from `queued` to the result (`States`), a write
has applied the words its task has moved (`Applied`), and the answer is the one
the task carries (`Replies`). A dropped request stays pending for ever, which the
abstract device allows: it promises nothing about time.

**FlushHistory** adds one variable to UblkTarget, `kept`: per word of the device the
values it has held since the last flush that was answered with success. `HistSpec`
takes the steps of `Next` unchanged and records beside them, so every behaviour of
UblkTarget is one of HistSpec. ImplementsShadow already says that a power loss
returns to what some flush or write-back made stable; FlushedSurvives says how old
that may be, in the terms of the one target and not of the abstract device.

**SectorCipher.** AES-CTR is a constant sequence of words (`Keystream`), which is
faithful because the code builds the cipher anew for each sector from the same
key and counter. `WordXor` is an operator constant with the laws of exclusive-or
(`XorAssumption`), which TLC checks on the instance.

**Fat32Geometry.** `pc` follows format from the check of the minimum size to the
boot sector (`patched`), and open from there. The constants have the names of the
source, and its values in the runs. `guess` is `sectors_per_fat`. `boot` holds the
five fields of the boot sector that open uses. write_u16 panics instead of
truncating, hence `panic`. The constant `MaxU32` is 2^31 - 1 in the runs because
TLC's integers have 32 bits; the largest size in them, 1 TB, is below it.

**CoverImage** continues Fat32Geometry. The target is the list of the fifteen
writes of write_structures and inserting_hazmat_structures, each with its place
and length, so what a sector holds is said by the last write over it. `made` of them
are complete, and `part` sectors of the next one are on the target. `WriteNext` is one
call of write(2): it asks for the rest of the buffer, or for zeroes the rest of a chunk
of `ZeroChunk` sectors (`Asked`), and moves all of that or stops short, which the
loops of write_all_at and write_zeroes_at make up for. `Stops` bounds where in a write
it may stop short; counts of less than a sector are not told apart, because a sector
that is torn and one that is not written both have the next call to come or are under a
write that failed. `Sync` is the fsync between structures and header, `failed` a call
that ended the command, and leaves `part` as it is. The GPT headers and partitions, the
free clusters of the new FATs and the fields of FSInfo are records. `taken` are the
clusters that a mounting system has given to files: it looks for the first free run
of clusters from the beginning ("lowest"), or from the hint of FSInfo on ("hint", as
Linux does). This allocator is the only part that is not in the repository; it is
marked external.

**CoverRefinement** puts the six areas of HazmatLifecycle on the sectors of a target
of a given size (`Place`) and says what each of them holds after the calls made so
far: nothing of the format yet (`Untouched`), a part (`Torn`), all its structures
(`Covering`, when every sector is written, `Covered`), or the header (`Heading`).
Several writes are one step of the list `CoverWrites` there (`StepOf`): the two FATs
are zeroed by two calls and are one area, which has the root cluster too; MBR, GPT,
entries, MSR partition and reserved sectors lie in `boot`, the backup entries and
header in `tail`. Zeroes never are all of their area and show as soon as they are begun,
the structures when they complete it (`Seen`). When the write of the reserved sectors is
given up after its first sector, the boot sector is there and the rest is not
(`BootSectorOnly`), and HazmatLifecycle must allow for that. The durable copy is that of
the last fsync, without write-back, which the mapped steps never include. With it
FormatPhases compares the two models of `format`, so what HazmatLifecycle assumes about
the order of the areas, and about what a failing call leaves, is a consequence of the
writes of the source.

**Sanitize.** The position of the descriptor, the iterations of block_walk, the
set of bytes filled; `missed` is a history variable that adds up what short
writes did not move. A write that returns 0 stands for every failure.

**HazmatLifecycle.** The target has six areas in their order on the disk: `boot`
(MBR, primary GPT and reserved sectors), `fats` with the root cluster, `gap`,
`header`, `payload`, `tail` (the trailing gap with the backup GPT). One step goes
through one area, in the order of the code; the zeroes come first. What an area holds
carries the number of the format command that wrote it. A command stops between two
areas or in the middle of one (`FillStops`, `CoverStops`): what was there is then
neither a boot sector nor a header any more, and as old as it was (`Part`), or has
zeroes or structures of the new format beside it (`Over`). (A fill that stops in `boot`
but before the boot sector, which is all that open looks at, has not yet begun with the
area.)

The fill ends when block_walk has counted its blocks (`FillEnds`). It is at the end of
the target then, or, with the fault "short", anywhere before it: Sanitize shows that
every byte a short write(2) does not move is missed at the end (LeftIsMissed), so some
last areas keep what they held, the first of them in part. `left` remembers them, and
the command goes on to fsync, cover and "done" as the code does.

One destructive command (format or sanitize) runs at a time. Beside it, any number of
open commands look for the header in two steps (`FindHeader`, then `Open` or `GiveUp`),
and `serving` holds the headers whose devices are exposed: they go on writing to the
range and with the key of the header they read. What they write when that header is no
longer the one on the target is `stray`. Write-back and power losses keep or lose whole
areas. `MaxCuts` bounds the aborts, power losses and fills that fall short of a
behaviour.

## 3. Runs

| run | shows | bounds |
|---|---|---|
| `ublk_concurrent` | TypeOK, ReadsAreRegular, OutsideUntouched, HandlingProceeds | 2 queues of 1 tag, payload of 2 sectors of 2 words, one sector around it on each side, failing calls |
| `ublk_power` | NoTagLost, OutsideUntouched, FlushedSurvives, ImplementsShadow | 2 queues of 1 tag, 2 sectors of 1 word, every fault |
| `ublk_liveness` | NoTagLost, EveryRequestAnswered, RemovalEnds, NoOvertaking | 1 queue of 2 tags, 1 sector, failing calls, commands and event loops, signals and power losses |
| `cover_sizes` | CoverTypeOK, RegionsDisjoint, PayloadInsideData, OpenFindsHeader, PanicsOnlyWithLargeFats, NoGeometryMissed, StructuresIntact, FatsAgree, GptAgrees, PayloadKeepsFill, HeaderGoesFirst, PlanningEnds, FormatPhases | constants of the source but a lower minimum size; 84 sizes, below; calls that stop short after 1 or 2049 sectors of a write; files of 499, 500 and 501 clusters from the beginning or the hint on, at most 1000 clusters |
| `cover_mounted` | GapIsRoom is violated | 16 GiB, a system that starts at the hint |
| `fat32_odd_sizes` | PlanningEnds is violated | 2 GiB and up to 24 MiB more |
| `fat32_large_sizes` | NeverPanics is violated | whole GiB up to 48 |
| `sector_round_trip` | RoundTrip, WrongLbaRecoversNothing, EqualSectorsDiffer | words of 2 bits, sectors of 3 words, all of them |
| `sanitize_fill` | TypeOK, LeftIsMissed, NeverGrows | sizes to 10 bytes, blocks to 4 |
| `sanitize_tail_left` | DoneIsFilled is violated | as above |
| `lifecycle_faults` | TypeOK, NothingOldUnderCover, HeaderNeedsCover, PoweredOpens, OpenedIsWhole, SanitizedSurvives | 2 passwords (symmetric), 2 format commands, any number of the others, 2 faults: aborts, power losses, short fills |
| `lifecycle_unsynced` | DoneOpens is violated | 1 format command, 1 power loss |

**Why the bounds are enough.** Two tasks in different queues are what it takes for
calls to interleave, two tags in one queue for one to wait for another; that a queue
has one task at a time inside its handler, the second half of NoTagLost, is shown by
`ublk_liveness` only, whose queue has two. Requests
for one sector and for both write different data to the sector they share, so a
mixed read is told from a clean one; there are requests that end past the
device, are too long for the buffer, or have an unknown operation. Two words per
sector let a transfer be split inside a sector; two sectors show a wrong LBA.
With two format commands an old header can meet a new cover, and a device of the
first header the second command. Two faults are what it takes for a fill that falls
short to be followed by a power loss or an abort, or an abort by another one. A call
that stops after one sector leaves the boot sector without the rest; one that stops
after 2049 leaves the second chunk of zeroes one sector old.

`cover_sizes` has the powers of two from 1 to 512 GiB, the decimal sizes
1953125 * 2^k sectors (1, 2, 4 ... 512 GB), 500 GB and 1 TB, 3, 12, 17, 24, 33, 40, 48
and 96 GiB between two powers, every MiB from 2 GiB to 2 GiB + 12 MiB, and the
edges of each check of the layout: one sector below and at the minimum, a target with
no room for a partition or for a few offsets, and 16 sectors on either side of the
smallest allowed number of clusters. So that the checks behind the one of MINIMUM_SIZE
are reached, `MinimumSectors` is 30000 there instead of 4194304. With the 2 GiB of the
source they never are: every target that passes the first check has room for a
partition and enough clusters, so `TooSmall`, the errors of CheckLayout and what
NoGeometryMissed says of them concern the code as it is written, not the sizes it can
meet today. (The one error it can meet, a partition of more than 2^32 sectors, is a
disjunct of CheckLayout too, out of reach of TLC's integers.) The three lengths of files fill the gap of 1000 clusters exactly, or end
one cluster short or over. On some of the sizes format panics (256 GB and 40 GiB among
them): NeverPanics is false there, and the run asks for what remains of it, that the
reserved sectors fit their field whenever both FATs do (PanicsOnlyWithLargeFats).
PlanningEnds holds of the listed sizes only: the ones where the loop alternates begin at
2 GiB + 14 MiB, right behind them, and are those of `fat32_odd_sizes`. All other
properties of the run are proved for all sizes.

**Deadlock** is checked for the ublk and lifecycle runs. The others describe a
command that ends.

**Fairness.** `UblkTarget!Fairness` asks that the thread of a queue goes on
while its task can take a step, that calls return (both up to the operating
system's scheduler), that the driver aborts the commands it holds when the
device is removed, and that open returns when its threads did. It does not ask
for requests, faults or removal. `Fat32Geometry!FairSpec` and
`CoverImage!CoverFairSpec` ask only that the thread of the command keeps planning.

### What the violated properties say

* `fat32_odd_sizes`: fat32_geometry alternates between two guesses for targets of
  2 GiB and 14 to 17 MiB. The larger FAT moves the data area to the next power
  of two, and the fewer clusters that are left need the smaller FAT.
* `fat32_large_sizes`: the reserved region takes what the rounding of the data
  area leaves; between 33 and 48 GiB (and 65 to 112, 129 to 240, where 256 GB lies) that
  exceeds the 16-bit field and write_u16 panics, when the target is already random.
* `cover_mounted`: the hint that FSInfo gives to other systems is the cluster of
  the header (`msfat32.rs:271`), against the comment at `msfat32.rs:563`, which
  wants their writes in the gap before it. A system that follows the hint
  overwrites the header with its first file. What holds whatever the system follows is
  HeaderGoesFirst: it never damages the payload of a header that still opens it.
* `sanitize_tail_left`: block_walk and the write behind it ignore how much
  write(2) moved. What that leaves for the rest of the life of a target is in
  HazmatLifecycle: NothingOldUnderCover, HeaderNeedsCover and SanitizedSurvives except
  `left`, and without the exception each of them is violated by one short write.
  On the block devices of Linux short writes are rare; on regular files a full
  filesystem or a limit causes them.
* `lifecycle_unsynced`: nothing syncs the header, which is written after the
  only fsync of the cover.

## 4. Proofs

The assumptions are those of the modules (`WordAssumption`, `XorAssumption`,
`GeometryAssumption`, `RequestAssumption`, `LayoutAssumption`, `PowersAssumption`,
`RoomAssumption`, `TemplateAssumption`, `SizeAssumption`, `CommandAssumption`); TLC
evaluates each of them in the runs, those of the cover with the values of the source.
The theorems hold for every value of the constants that satisfies them.

* `SectorLemmas` and `SectorProofs`: **DecryptInvertsEncrypt**, and from it
  **SectorsRoundTrip**; **WrongAddress** and **EqualSectors** from
  WalkKeyInjective, that two addresses have different keys at every word in spite
  of the wrapping additions. They hold for every word size and for every
  operator with the laws of exclusive-or.
* `UblkProofs`: **Types**, **OutsideIsUntouched**, **TagsAreKept**, **TurnsAreKept** and
  **RequestsProceed**.
  OutsideUntouched is not inductive: a pwrite stays inside the payload because
  its task checked the range before it entered `io`, and has a buffer exactly as
  long as the request. `HandlerInv` says so; `IInv` is TypeOK, HandlerInv and
  OutsideUntouched. The arithmetic is in the lemma RangeInPayload, the steps in
  DriverStep, PollStep, TargetStep and ProcessStep. NoTagLost counts places in a
  sequence; its invariant `QueueInv` says instead that a run queue repeats
  nobody and holds exactly the woken tasks of its queue, which appending and
  taking the head keep. TurnsAreKept (NoOvertaking) needs the same invariant: in a
  queue that repeats nobody, appending puts nobody in front of a waiting task and
  taking the head removes one who was (WakeKeepsTurn, PollKeepsTurn). RequestsProceed
  (HandlingProceeds) goes through the steps of a tag (OwnStepProceeds) and of the
  others (OtherStepKeeps). Together the two are the part of EveryRequestAnswered that
  needs no fairness: at most every other tag of the queue goes first, and a tag that
  has its turn is answered after at most as many calls as its request has words, and
  two steps more.
* `UblkRefinementProofs`: **RegularReads** and **Implements**. The invariant
  `TransferInv` relates each task to the data: the history of a read in flight
  contains the present value of each of its words (`Noted`), every word fetched
  so far decrypts to a member of the history (`Fetched`), a finished read has the
  decrypted words (`Read`), the buffer of a write is the encryption of its data
  (`Sealed`), and no words are moved before `io` (`Unmoved`). PlainWord and
  ClearCipher reduce the transform of sectors to one exclusive-or per word of the
  payload; WritePlain says that a chunk changes the plain device at exactly the
  words it writes, to the data of the request. With these, each step of
  UblkTarget is a step of the abstract device or a stutter: `Stutters`, `Hidden`
  and `HiddenProcess` for the stutters, `Submits`, `Applies`, `Answers`, `Flushes`,
  `Retires`, `Persists` and `Ends` for the others. **FlushSurvives** is about HistSpec:
  the present value of every word is in `kept`, and so is the durable one (`HistInv`);
  a flush may empty `kept` down to the present because its fsync has just made the
  whole target durable (FlushedBySync), and a power loss takes words back to values
  that are still in `kept`. HistIsSpec carries all other theorems over.
* `Fat32Proofs`: **Types**, **Regions**, **PayloadHasRoom**, **HeaderIsFound**. The
  invariant records what Accept checked and that the boot sector holds the
  accepted values; the rest is arithmetic of rounding (NextPower, Quotient,
  SizesFollow, BootAgrees). About the loop: a longer FAT leaves fewer clusters and so
  needs a shorter one (`Antitone`). Hence there is one solution at most
  (OneSolution), and when the loop gives up there is none (**SearchIsComplete**, for
  every length; **NothingMissed** for those a run enumerates): the longest guess is
  the answer to a FAT of one sector, and it fits wherever a partition has the smallest
  allowed number of clusters (LongestFits, from `RoomAssumption`). **SearchNarrows**:
  the next answer lies between this guess and the next one, so the loop either closes
  in on a length or ends between two, which is what `fat32_odd_sizes` shows to
  happen. **SmallTargetsFit** is NeverPanics under the hypothesis that the FATs of the
  largest target, with the smallest number of reserved sectors, fit below a power of
  two p with p - 1 <= MaxU16. With the layout of the source and p = 65536 that is so
  for every target up to 16 GiB, whose FATs have 32733 sectors; `fat32_large_sizes`
  has counterexamples beyond. **SmallFatsNeverPanic** is the same for one target instead
  of all of them, PanicsOnlyWithLargeFats, with the hypothesis that MaxU16 + 1 is a
  power of two: the data area then begins at or below it, whatever the size.
* `CoverProofs`: **CoverIsGeometry**, so that all of Fat32Proofs holds of
  CoverImage; **CoverTypes**, **NothingOverwritten**, **FatsEqual**,
  **GptHeadersAgree**, **PayloadKept**. `Places` puts the structures of an accepted
  layout in their order on the target, `Spans` gives each of the fifteen writes its
  place in that order, and `Apart` follows. **HeaderCanBeServed** says that the range
  in the header meets what `GeometryAssumption` asks of the range UblkTarget serves, so
  the theorems about the open device are about every device that format made.
  **FormatIsPhases** (FormatPhases): what each area holds is a function of how many
  writes show there (`Target`, with HeldIs from BootHolds, FatsHold, TailHolds and
  OthersHold, since each write lies in one area and touches no other). So a call that
  shows nothing new is a stutter (Repeats), the others are the next of `CoverWrites`
  (Advances), an error before or in a write is an Abort that leaves what `CoverStops`
  may leave (FailingIsAbort), the fsync is CoverSync (SyncIsPhase), and planning, whose
  guesses the target does not show, is a stutter (PlanningIsHidden).
  **HeaderIsLostFirst** (HeaderGoesFirst): as long as the header's cluster is free the
  taken ones are a run from cluster 3 on (`InOrder`). A file of a system that looks
  from the beginning goes right behind that run, and if it passes the header it takes
  its cluster; a system that follows the hint takes that cluster with its first file
  (BeginsThere). There is no hypothesis about the system beyond where it looks first.
* `SanitizeProofs`: **Types**, **FillStaysInside** and **LeftIsWhatWasMissed**. The
  invariant says that what was written and what was missed add up to what the
  calls made so far were for, and that the bytes behind the descriptor are
  filled.
* `LifecycleProofs`: **Types**, **NothingOld**, **HeaderHasCover**, **FormattedOpens**,
  **OpenedWhole**, **SanitizedIsFinal**. After a power loss each area holds either what
  was in `view` or what was in `durable`, and an area a command stopped in what is left
  of either, so a statement about one area and another must hold when they are taken
  from different copies: `Under` and `Complete` are the first two properties for such
  pairs, `Mixed` both, and the invariant has them for all four pairs of view and
  durable (`AllMixed`). To this it adds that a fill misses areas at the end only
  (`LeftTail`), what each phase has overwritten (`Filled`, `Covered`), that nothing else
  is there but what the fill missed (`New`, `Fresh`), what the syncs have made equal
  (`Synced`), what the last report promises (`Said`) and, without a power loss, that the
  payload is whole while the header is there (`Whole`). Mixtures shows that a mixture of
  mixed copies is mixed.

Only model-checked is liveness (EveryRequestAnswered, RemovalEnds, PlanningEnds),
which is beyond the prover, as ENABLED and induction over data are. PlanningEnds is
false for some sizes, so no theorem could state it; of NeverPanics, false for others,
the theorems cover the sizes up to 16 GiB and every target whose FATs are small
enough. That the
hypothesis of SmallTargetsFit holds up to 16 GiB is a calculation with the constants
of the source, given above, and not part of a module.

## 5. Not modelled

* The bytes of the templates, GUIDs, CRC and timestamps: no control, nothing in
  the repository reads them back, and nothing in the properties tells them
  apart. The fields that hold addresses are in CoverImage.
* Key derivation: a stateless call of a library.
* Prompts, progress bar, reports, parsing of the command line.
* The inside of libublk and of the driver beyond what io_task and queue_handler
  observe of them.
* A target that shrinks or is replaced while a command runs: the source reads the
  size once and never compares it again. Nor the time between the confirmation
  of a path and its opening, where the path is all the code knows.
* Two destructive commands on one target at once. Their fills and structures
  would interleave without any order, and no text of the repository promises
  anything about it.
* The order in which a power loss during the fill keeps its blocks, beyond what
  the lifecycle invariants state: OpenedIsWhole does not hold after one, and
  says so. Inside one area a power loss keeps all of the unsynced writes or none.
* Other systems that use the cover filesystem, beyond where their allocator
  puts new files.

## 6. Plan

The order was: request handler and its abstract device, geometry, cipher, fill,
life of a target; then the failures of io_uring, the writes of the cover
structures and the mounted cover, open commands beside the destructive ones;
and for each the proofs of its invariants, the refinements last; then the properties
that tie the parts together or stand behind liveness (FlushedSurvives, NoOvertaking,
HandlingProceeds, NoGeometryMissed, FormatPhases), with their proofs. What could
follow:

1. The same refinement for the fill: Sanitize, byte by byte, to the phase `fill` of
   HazmatLifecycle.
2. Two destructive commands at once in `HazmatLifecycle`, if the program comes
   to say what they should do to each other.
3. A corrected `fat32_geometry` and `write_u16`: PlanningEnds and NeverPanics
   for every size would be the properties to prove of it.
4. A model of the payload header byte by byte, if its layout gets a second
   version that must be told from the first.
