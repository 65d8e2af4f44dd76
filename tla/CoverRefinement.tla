--------------------------- MODULE CoverRefinement --------------------------
(***************************************************************************)
(* The fifteen writes of CoverImage, each at its sectors and call by call, *)
(* are the phases `cover` and `header` of HazmatLifecycle, which knows     *)
(* areas only: where the areas begin and end on a target of a given size,  *)
(* and what each of them holds after the calls made so far.                *)
(***************************************************************************)
EXTENDS CoverImage

Password == "password"

Lbas(first, behind) == [first |-> first, behind |-> behind]

RootEnd == DataStartLba(guess) + SectorsPerCluster

(* The areas of HazmatLifecycle in sectors, one behind the other. *)
Place ==
  [boot    |-> Lbas(0, FirstFatLba(guess)),
   fats    |-> Lbas(FirstFatLba(guess), RootEnd),
   gap     |-> Lbas(RootEnd, FirstUnusedSectorLba(guess)),
   header  |-> Lbas(FirstUnusedSectorLba(guess), Header.starting),
   payload |-> Lbas(Header.starting, PartitionEndLba + 1),
   tail    |-> Lbas(PartitionEndLba + 1, disk)]

LifeArea == {"boot", "fats", "gap", "header", "payload", "tail"}

(* What is on the target of the writes of w: m of them, and p sectors of   *)
(* the next one.                                                           *)
Done(w, m, p) ==
  [i \in 1 .. (IF p = 0 THEN m ELSE m + 1) |->
     W(w[i].what, w[i].at, IF i <= m THEN w[i].len ELSE p)]

Touching(done, place) ==
  {i \in DOMAIN done : Meets(done[i], place.first, place.behind - 1)}

(* Every sector of the place is written, because its first and its last    *)
(* one are, and every one behind a write.                                  *)
Covered(done, place) ==
  LET writes == Touching(done, place)
  IN \A s \in {place.first, place.behind - 1}
                \cup {done[i].at + done[i].len : i \in writes} :
       s < place.behind =>
         \E j \in writes : done[j].at <= s /\ s < done[j].at + done[j].len

LifeContent(what, gen, pass) == [what |-> what, gen |-> gen, pass |-> pass]

Untouched == LifeContent("random", 0, "no password")
Torn      == LifeContent("part", 1, "no password")
Covering  == LifeContent("cover", 1, "no password")
Heading   == LifeContent("header", 1, Password)

Held(done, place) ==
  IF Touching(done, place) = {} THEN Untouched
  ELSE IF \E i \in Touching(done, place) : done[i].what = "header" THEN Heading
  ELSE IF Covered(done, place) THEN Covering ELSE Torn

(* The target after the fill, m writes and p sectors of the next one.      *)
(* (Taking list and places from a set makes TLC compute them once.)        *)
After(m, p) ==
  CHOOSE target \in {[a \in LifeArea |-> Held(done, places[a])] :
                       done \in {Done(Writes, m, p)}, places \in {Place}} : TRUE

Before == [a \in LifeArea |-> LifeContent("alien", 0, "no password")]

Filled == [a \in LifeArea |-> Untouched]

(* format has not begun to write, or has ended, or was cut short. *)
Unbegun == pc \in {"format", "refused"}
Ended   == failed \/ made = NrWrites \/ pc \notin {"structures", "loop", "planned", "patched"}
CutOff  == failed \/ pc \in {"error", "panic"}

(* The first of the reserved sectors, which open looks for, is written and *)
(* nothing will follow it.                                                 *)
BootSectorOnly == failed /\ part # 0 /\ Writes[made + 1].what = "reserved"

View ==
  CASE Unbegun        -> Before
    [] BootSectorOnly -> [After(made, part) EXCEPT !["boot"] = Covering]
    [] OTHER          -> After(made, part)

Durable ==
  CASE Unbegun -> Before
    [] synced  -> After(NrStructures, 0)
    [] OTHER   -> Filled

(* The steps of the list CoverWrites that the writes belong to: those of   *)
(* one area in a row are one step.  Zeroes are not all of their area and   *)
(* show as soon as they are begun, the structures when they complete it.   *)
StepOf == <<1, 2, 2, 3, 3, 3, 3, 3, 4, 4, 4, 5, 5, 6>>

NrZeroes == 4

Seen == IF made < NrZeroes /\ part # 0 THEN made + 1 ELSE made

Position == IF Ended \/ Seen = 0 THEN 0 ELSE StepOf[Seen]

LifePc == IF Ended THEN "idle" ELSE IF synced THEN "header" ELSE "cover"

Command == IF Ended THEN [name |-> "none", pass |-> "no password"]
           ELSE [name |-> "format", pass |-> Password]

Reported == IF made = NrWrites THEN [name |-> "formatted", pass |-> Password]
            ELSE [name |-> "nothing", pass |-> "no password"]

Life == INSTANCE HazmatLifecycle WITH
  Passwords  <- {Password},
  MaxFormats <- 1,
  MaxCuts    <- 1,
  Faults     <- {"abort"},
  view       <- View,
  durable    <- Durable,
  pc         <- LifePc,
  cmd        <- Command,
  k          <- Position,
  gen        <- 1,
  said       <- Reported,
  found      <- FALSE,
  serving    <- {},
  wrote      <- {},
  lost       <- FALSE,
  left       <- {},
  cuts       <- IF CutOff THEN 1 ELSE 0

(* Once the target is filled, every call of write(2), the fsync between    *)
(* structures and header, every error - with what the write in progress    *)
(* has left - and every panic is a step of HazmatLifecycle or changes      *)
(* nothing there: each write lies in one area, the areas are complete in   *)
(* the order of CoverWrites, and no write of a later one reaches an        *)
(* earlier one (write_structures, msfat32.rs:641-677; write_zeroes_at,     *)
(* io.rs:380; inserting_hazmat_structures, format.rs:17).                  *)
FormatPhases == [][pc # "format" => Life!Next]_(Life!vars)
=============================================================================
