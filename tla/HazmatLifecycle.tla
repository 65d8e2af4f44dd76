--------------------------- MODULE HazmatLifecycle --------------------------
(***************************************************************************)
(* The life of one target under the commands of hazmat: format and         *)
(* sanitize one after the other, any number of open commands beside them   *)
(* (src/src/cmd; nothing locks the target), and every command ended at any *)
(* point by a failing call, a signal or a power loss.                      *)
(*                                                                         *)
(* The target is a sequence of areas in the order they have on it.  An     *)
(* area is written in one step, but for the area that a command stops in,  *)
(* when it is cut short or when its fill falls short of the end.  What an  *)
(* area holds carries the number of the format command that put it there.  *)
(***************************************************************************)
EXTENDS Integers, Sequences, FiniteSets

CONSTANTS
  Passwords,  \* what the user may type
  MaxFormats, \* bound on the format commands of a behaviour
  MaxCuts,    \* bound on the faults of a behaviour
  Faults      \* what the environment may do: "abort", "power", "short"

(* MBR and primary GPT with the reserved sectors; the FATs and the root    *)
(* cluster; the clusters that stay free; the header; what it names, and    *)
(* the sectors behind that up to the end of the partition; the trailing    *)
(* gap with the backup GPT.                                                *)
Areas == <<"boot", "fats", "gap", "header", "payload", "tail">>

Area == {"boot", "fats", "gap", "header", "payload", "tail"}

Payload == {"payload"}

(* What write_structures writes. *)
Structure == {"boot", "fats", "tail"}

(* write_structures: the zeroes first, which are not all of their area,    *)
(* then MBR, primary GPT and boot sector, prefixes of the FATs and root    *)
(* cluster, and backup GPT.                                                *)
CoverWrites == <<"boot", "fats", "tail", "boot", "fats", "tail">>

ZeroWrites == 3

ASSUME CommandAssumption ==
  /\ MaxFormats \in Nat
  /\ MaxCuts \in Nat
  /\ Faults \subseteq {"abort", "power", "short"}
  /\ "no password" \notin Passwords

(* What is on the target: [what, gen, pass]. *)
Content(what, gen, pass) == [what |-> what, gen |-> gen, pass |-> pass]
NoPass == "no password"
Alien  == Content("alien", 0, NoPass)
Random == Content("random", 0, NoPass)

(* What a device writes whose header is no longer where open found it. *)
Astray == Content("stray", 0, NoPass)

(* An area that held c and is written, but not all of it: the rest is as   *)
(* old as it was, and what open would read is gone.                        *)
Part(c) == IF c \in {Alien, Random, Astray} THEN c ELSE Content("part", c.gen, NoPass)

(* The same with the zeroes or the structures of format g. *)
Over(c, g) == IF c = Random THEN Content("part", g, NoPass) ELSE Part(c)

VARIABLES
  view,    \* the target as the commands read it
  durable, \* what of it survives a power loss
  pc,      \* the phase of the destructive command, "idle" when there is none
  cmd,     \* its name and its password
  k,       \* areas the phase has been through
  gen,     \* format commands so far
  said,    \* what the last destructive command reported when it was done
  found,   \* an open command has read a boot sector, and not yet the header
  serving, \* the headers that open commands are serving
  wrote,   \* history: payload areas written since the last format
  lost,    \* history: power was lost since the last format
  left,    \* history: areas that the last fill to end had not reached the end of
  cuts     \* history: faults so far

user == <<found, serving>>
history == <<wrote, lost, left, cuts>>
vars == <<view, durable, pc, cmd, k, gen, said, user, history>>

NoCmd   == [name |-> "none", pass |-> NoPass]
Nothing == [name |-> "nothing", pass |-> NoPass]

-----------------------------------------------------------------------------
Init ==
  /\ view = [a \in Area |-> Alien]
  /\ durable = view
  /\ pc = "idle"
  /\ cmd = NoCmd
  /\ k = 0
  /\ gen = 0
  /\ said = Nothing
  /\ found = FALSE
  /\ serving = {}
  /\ wrote = {}
  /\ lost = FALSE
  /\ left = {}
  /\ cuts = 0

(* One more fault of the environment. *)
Cut ==
  /\ cuts < MaxCuts
  /\ cuts' = cuts + 1

Idle ==
  /\ pc' = "idle"
  /\ cmd' = NoCmd

(* main: the action is confirmed; until then a command changes nothing.    *)
Begin(name, pass) ==
  /\ pc = "idle"
  /\ pc' = "fill"
  /\ cmd' = [name |-> name, pass |-> pass]
  /\ k' = 0
  /\ said' = Nothing
  /\ UNCHANGED <<view, durable, user, history>>

(* format: the password is read twice the same, the target is opened and   *)
(* is large enough (Fat32Geometry has those that are not).                 *)
Format(pass) ==
  /\ gen < MaxFormats
  /\ Begin("format", pass)
  /\ gen' = gen + 1

(* sanitize *)
Sanitize == Begin("sanitize", NoPass) /\ UNCHANGED gen

(* Mutant: the fill begins at the end of the target. *)
FillBackwards ==
  /\ pc = "fill"
  /\ k < Len(Areas)
  /\ view' = [view EXCEPT ![Areas[Len(Areas) - k]] = Random]
  /\ k' = k + 1
  /\ UNCHANGED <<durable, pc, cmd, gen, said, user, history>>

(* sanitize_disk goes over the target from its first byte to its last ...  *)
Fill ==
  /\ pc = "fill"
  /\ k < Len(Areas)
  /\ view' = [view EXCEPT ![Areas[k + 1]] = Random]
  /\ k' = k + 1
  /\ UNCHANGED <<durable, pc, cmd, gen, said, user, history>>

(* The fill stops in the area it is at, or right before it. *)
FillStops ==
  \/ view' = view
  \/ view' = [view EXCEPT ![Areas[k + 1]] = Part(@)]

(* The walk is over when as many blocks are read as the target has.  It is *)
(* at the end of the target then, unless a write(2) moved less than it was *)
(* given: what that one missed, the walk misses at the end.                *)
FillEnds ==
  /\ pc = "fill"
  /\ \/ k = Len(Areas) /\ view' = view /\ UNCHANGED cuts
     \/ "short" \in Faults /\ k < Len(Areas) /\ FillStops /\ Cut
  /\ left' = {Areas[j] : j \in k + 1 .. Len(Areas)}
  /\ IF cmd.name = "format"
     THEN pc' = "cover" /\ UNCHANGED <<cmd, said>>
     ELSE /\ Idle
          /\ said' = [name |-> "sanitized", pass |-> NoPass]
  /\ UNCHANGED <<gen, user, wrote, lost>>

(* Mutant: the position is not reset, and the next phase finds itself done. *)
FillSyncKeepsPosition == FillEnds /\ durable' = view' /\ UNCHANGED k

(* Mutant: no fsync after the fill. *)
FillSyncNothing == FillEnds /\ k' = 0 /\ UNCHANGED durable

(* ... and ends with fsync; this is all of `hazmat sanitize`.              *)
FillSync == FillEnds /\ durable' = view' /\ k' = 0

(* write_structures, one area after the other *)
Cover ==
  /\ pc = "cover"
  /\ k < Len(CoverWrites)
  /\ view' = [view EXCEPT ![CoverWrites[k + 1]] =
                IF k < ZeroWrites THEN Over(@, gen) ELSE Content("cover", gen, NoPass)]
  /\ k' = k + 1
  /\ UNCHANGED <<durable, pc, cmd, gen, said, user, history>>

(* It stops in the area it is at; the boot sector is written before the    *)
(* rest of the reserved sectors.                                           *)
CoverStops ==
  \/ view' = [view EXCEPT ![CoverWrites[k + 1]] = Over(@, gen)]
  \/ /\ k >= ZeroWrites /\ CoverWrites[k + 1] = "boot"
     /\ view' = [view EXCEPT !["boot"] = Content("cover", gen, NoPass)]

CoverEnds ==
  /\ pc = "cover"
  /\ k = Len(CoverWrites)
  /\ pc' = "header"
  /\ UNCHANGED <<view, cmd, k, gen, said, user, history>>

(* Mutant: no fsync after the structures. *)
CoverSyncNothing == CoverEnds /\ UNCHANGED durable

(* write_structures ends with fsync. *)
CoverSync == CoverEnds /\ durable' = view

HeaderDone ==
  /\ pc = "header"
  /\ view' = [view EXCEPT !["header"] = Content("header", gen, cmd.pass)]
  /\ Idle
  /\ said' = [name |-> "formatted", pass |-> cmd.pass]
  /\ wrote' = {}
  /\ lost' = FALSE
  /\ UNCHANGED <<durable, gen, user, left, cuts>>

(* Mutant: the position is moved on behind the header. *)
WriteHeaderMovesOn == HeaderDone /\ k' = k + 1

(* inserting_hazmat_structures, and "done": there is no fsync here.        *)
WriteHeader == HeaderDone /\ k' = 0

(* read_header finds the place by the boot sector ...                      *)
FindHeader ==
  /\ ~found
  /\ view["boot"].what = "cover"
  /\ found' = TRUE
  /\ UNCHANGED <<view, durable, pc, cmd, k, gen, said, serving, history>>

(* ... and reads what is there by then; it is a header with the password,  *)
Open(pass) ==
  /\ found
  /\ view["header"].what = "header"
  /\ view["header"].pass = pass
  /\ found' = FALSE
  /\ serving' = serving \cup {view["header"]}
  /\ UNCHANGED <<view, durable, pc, cmd, k, gen, said, history>>

(* or it is not. *)
GiveUp ==
  /\ found
  /\ found' = FALSE
  /\ UNCHANGED <<view, durable, pc, cmd, k, gen, said, serving, history>>

(* The header is still where open found it. *)
Current(header) == view["boot"].what = "cover" /\ view["header"] = header

(* write_result, for a user of an exposed device: its range and its key    *)
(* are those of the header that was read, whatever the target has become.  *)
Write(header, a) ==
  /\ header \in serving
  /\ view' = [view EXCEPT ![a] = IF Current(header)
                                 THEN Content("data", header.gen, header.pass)
                                 ELSE Astray]
  /\ wrote' = IF Current(header) THEN wrote \cup {a} ELSE wrote
  /\ UNCHANGED <<durable, pc, cmd, k, gen, said, user, lost, left, cuts>>

(* flush_result *)
Flush ==
  /\ serving # {}
  /\ durable' = view
  /\ UNCHANGED <<view, pc, cmd, k, gen, said, user, history>>

(* A device is removed and its open returns, or a signal ends it. *)
Close(header) ==
  /\ header \in serving
  /\ serving' = serving \ {header}
  /\ UNCHANGED <<view, durable, pc, cmd, k, gen, said, found, history>>

(* A call fails and its error ends the command, the geometry panics, or    *)
(* start_exit_handler ends the process, in the middle of a write or not.   *)
Abort ==
  /\ "abort" \in Faults
  /\ pc # "idle"
  /\ \/ view' = view
     \/ pc = "fill" /\ k < Len(Areas) /\ FillStops
     \/ pc = "cover" /\ k < Len(CoverWrites) /\ CoverStops
     \/ pc = "header" /\ view' = [view EXCEPT !["header"] = Over(@, gen)]
  /\ Idle
  /\ k' = 0
  /\ Cut
  /\ UNCHANGED <<durable, gen, said, user, wrote, lost, left>>

(* The page cache writes an area that is dirty back. *)
WriteBack(a) ==
  /\ "power" \in Faults
  /\ durable[a] # view[a]
  /\ durable' = [durable EXCEPT ![a] = view[a]]
  /\ UNCHANGED <<view, pc, cmd, k, gen, said, user, history>>

PowerLoss ==
  /\ "power" \in Faults
  /\ view' = durable
  /\ Idle
  /\ k' = 0
  /\ found' = FALSE
  /\ serving' = {}
  /\ lost' = TRUE
  /\ Cut
  /\ UNCHANGED <<durable, gen, said, wrote, left>>

Next ==
  \/ \E pass \in Passwords : Format(pass) \/ Open(pass)
  \/ Sanitize
  \/ Fill \/ FillSync \/ Cover \/ CoverSync \/ WriteHeader
  \/ FindHeader \/ GiveUp
  \/ \E header \in serving : Close(header) \/ \E a \in Payload : Write(header, a)
  \/ Flush \/ Abort
  \/ \E a \in Area : WriteBack(a)
  \/ PowerLoss

Spec == Init /\ [][Next]_vars

-----------------------------------------------------------------------------
Contents ==
  [what : {"alien", "random", "part", "cover", "header", "data", "stray"},
   gen : 0 .. MaxFormats, pass : Passwords \cup {NoPass}]

(* Every variable has the shape its declaration gives it. *)
TypeOK ==
  /\ view \in [Area -> Contents]
  /\ durable \in [Area -> Contents]
  /\ pc \in {"idle", "fill", "cover", "header"}
  /\ cmd \in [name : {"none", "format", "sanitize"}, pass : Passwords \cup {NoPass}]
  /\ k \in 0 .. Len(CoverWrites)
  /\ gen \in 0 .. MaxFormats
  /\ said \in [name : {"nothing", "sanitized", "formatted"},
               pass : Passwords \cup {NoPass}]
  /\ found \in BOOLEAN
  /\ serving \subseteq Contents
  /\ wrote \subseteq Payload
  /\ lost \in BOOLEAN
  /\ left \subseteq Area
  /\ cuts \in 0 .. MaxCuts

(* A device that is served while its header is overwritten goes on writing *)
(* to the target (open_file takes no lock, io.rs:19).                      *)
Stray(target) == {a \in Payload : target[a] = Astray}

(* What is in the area is older than the cover filesystem, and no device   *)
(* of an earlier header wrote it.                                          *)
Old(a) ==
  /\ view[a] # Random
  /\ view[a].gen < view["boot"].gen
  /\ a \notin Stray(view)

(* Under a cover filesystem there is nothing older than itself, neither    *)
(* what the target held before hazmat nor a header or data of an earlier   *)
(* format, whenever the commands were cut short and whatever the page      *)
(* cache had written back by then (the fsync of sanitize_disk, io.rs:523), *)
(* but for what short writes of the fill missed (io.rs:460, 514), which    *)
(* are the last areas of the target and, when format says "done", none of  *)
(* those that it writes itself.                                            *)
NothingOldUnderCover ==
  view["boot"].what = "cover" =>
    \A a \in Area : Old(a) => a \in left /\ (said.name = "formatted" => a \notin Structure)

(* A header is never found on a target whose cover filesystem is not       *)
(* complete, unless a later command has begun to destroy it (the fsync of  *)
(* write_structures, msfat32.rs:677): the areas are filled, in part or     *)
(* wholly, or the fill missed the header and the cover is the next one.    *)
HeaderNeedsCover ==
  view["header"].what = "header" =>
    \A a \in Structure :
      \/ view[a] = Random
      \/ view[a].what \in {"cover", "part"} /\ view[a].gen = view["header"].gen
      \/ /\ "header" \in left
         /\ view[a].what = "part" \/ view[a].gen > view["header"].gen

Opens(pass) ==
  /\ view["boot"].what = "cover"
  /\ view["header"].what = "header"
  /\ view["header"].pass = pass

(* A target that opens with the password of the last format, and with no   *)
(* other.                                                                  *)
OpensAsSaid == \A pass \in Passwords : Opens(pass) <=> pass = said.pass

(* A target on which format said "done" opens as it should (format.rs:90). *)
DoneOpens == said.name = "formatted" => OpensAsSaid

(* The same for as long as the machine keeps its power: whatever commands  *)
(* ran before and however they ended, whatever devices of earlier headers  *)
(* are still served (format.rs:61-93).                                     *)
PoweredOpens == said.name = "formatted" /\ ~lost => OpensAsSaid

(* What opens is whole while the machine keeps its power: a format or      *)
(* sanitize command cut short, or whose fill fell short, has either made   *)
(* the target unopenable or not touched the payload, because the fill      *)
(* reaches boot sector and header first (sanitize_disk, io.rs:485).        *)
OpenedIsWhole ==
  (\E pass \in Passwords : Opens(pass)) /\ ~lost =>
    \A a \in wrote : \/ view[a].what = "data" /\ view[a].gen = view["header"].gen
                    \/ a \in Stray(view)

(* What sanitize reported is final, in the areas it reached the end of: no *)
(* power loss brings anything back (sanitize.rs:11, io.rs:523); only a     *)
(* device that is still served may write to the target.                    *)
SanitizedSurvives ==
  said.name = "sanitized" =>
    /\ \A a \in Area \ (left \cup Stray(view)) : view[a] = Random
    /\ \A a \in Area \ (left \cup Stray(durable)) : durable[a] = Random
=============================================================================
