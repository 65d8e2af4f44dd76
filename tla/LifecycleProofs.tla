--------------------------- MODULE LifecycleProofs ---------------------------
(***************************************************************************)
(* Proofs about HazmatLifecycle for any passwords and any number of format *)
(* commands, faults and devices in use.                                    *)
(***************************************************************************)
EXTENDS HazmatLifecycle, TLAPS

(* The order of the areas, and which of them the writes of format reach.   *)
LEMMA Order ==
  /\ Len(Areas) = 6 /\ Len(CoverWrites) = 6 /\ ZeroWrites = 3
  /\ \A j \in 1 .. 6 : Areas[j] \in Area
  /\ Areas[1] = "boot" /\ Areas[4] = "header" /\ Areas[5] = "payload"
  /\ \A a \in Area : \E j \in 1 .. 6 : a = Areas[j]
  /\ \A j \in 1 .. 6 : Areas[j] = "payload" => j = 5
  /\ \A j \in 1 .. 6 : CoverWrites[j] \in Structure
  /\ \A a \in Structure : \E j \in 4 .. 6 : a = CoverWrites[j]
<1>1. Len(Areas) = 6 /\ Len(CoverWrites) = 6 /\ ZeroWrites = 3
  BY DEF Areas, CoverWrites, ZeroWrites
<1>2. \A j \in 1 .. 6 : Areas[j] \in Area /\ (Areas[j] = "payload" => j = 5)
  <2> SUFFICES ASSUME NEW j \in 1 .. 6
               PROVE  Areas[j] \in Area /\ (Areas[j] = "payload" => j = 5)
    OBVIOUS
  <2>1. j = 1 \/ j = 2 \/ j = 3 \/ j = 4 \/ j = 5 \/ j = 6
    OBVIOUS
  <2> QED
    BY <2>1 DEF Areas, Area
<1>3. Areas[1] = "boot" /\ Areas[4] = "header" /\ Areas[5] = "payload"
  BY DEF Areas
<1>4. \A a \in Area : \E j \in 1 .. 6 : a = Areas[j]
  <2>1. /\ Areas[1] = "boot" /\ Areas[2] = "fats" /\ Areas[3] = "gap"
        /\ Areas[4] = "header" /\ Areas[5] = "payload" /\ Areas[6] = "tail"
    BY DEF Areas
  <2> QED
    BY <2>1 DEF Area
<1>5. \A j \in 1 .. 6 : CoverWrites[j] \in Structure
  <2> SUFFICES ASSUME NEW j \in 1 .. 6 PROVE CoverWrites[j] \in Structure
    OBVIOUS
  <2>1. j = 1 \/ j = 2 \/ j = 3 \/ j = 4 \/ j = 5 \/ j = 6
    OBVIOUS
  <2> QED
    BY <2>1 DEF CoverWrites, Structure
<1>6. \A a \in Structure : \E j \in 4 .. 6 : a = CoverWrites[j]
  <2>1. CoverWrites[4] = "boot" /\ CoverWrites[5] = "fats" /\ CoverWrites[6] = "tail"
    BY DEF CoverWrites
  <2> QED
    BY <2>1 DEF Structure
<1> QED
  BY <1>1, <1>2, <1>3, <1>4, <1>5, <1>6

-----------------------------------------------------------------------------
(* The safety properties, for what any mixture of the areas of the two     *)
(* targets t and u may hold, when the last fill missed the areas l: a      *)
(* power loss keeps such a mixture of view and durable.                    *)
Under(t, u, l) ==
  t["boot"].what = "cover" =>
    \A a \in Area : \/ u[a] = Random
                   \/ u[a].gen >= t["boot"].gen
                   \/ a \in Stray(u) \cup l

Complete(t, u, l) ==
  t["header"].what = "header" =>
    \A a \in Structure :
      \/ u[a] = Random
      \/ u[a].what \in {"cover", "part"} /\ u[a].gen = t["header"].gen
      \/ "header" \in l /\ (u[a].what = "part" \/ u[a].gen > t["header"].gen)

Mixed(t, u, l) == Under(t, u, l) /\ Complete(t, u, l)

AllMixed ==
  /\ Mixed(view, view, left) /\ Mixed(view, durable, left)
  /\ Mixed(durable, view, left) /\ Mixed(durable, durable, left)
  /\ view["boot"].gen <= gen /\ durable["boot"].gen <= gen
  /\ view["header"].gen <= gen /\ durable["header"].gen <= gen

(* What the fill misses, it misses at the end. *)
LeftTail == "boot" \in left \/ "header" \in left => "payload" \in left

(* How far the command in progress has come. *)
Clean(t, a) == t[a] = Random \/ a \in Stray(t)

Filled ==
  pc = "fill" => k <= Len(Areas) /\ \A j \in 1 .. k : Clean(view, Areas[j])

Covered ==
  pc = "cover" =>
    \A j \in ZeroWrites + 1 .. k : view[CoverWrites[j]] = Content("cover", gen, NoPass)

(* No header is one of the format in progress. *)
Fresh ==
  pc = "fill" /\ cmd.name = "format" =>
    view["header"].gen < gen /\ durable["header"].gen < gen

(* There is nothing on t but what format g has put there, or what its fill *)
(* has missed, an older header for one.                                    *)
NewOf(t, g, l) ==
  \A a \in Area : t[a] = Random \/ t[a].gen = g \/ a \in Stray(t) \cup l

NoHeader(t, g, l) == t["header"] = Random \/ ("header" \in l /\ t["header"].gen < g)

New ==
  pc \in {"cover", "header"} =>
    /\ NewOf(view, gen, left) /\ NoHeader(view, gen, left)
    /\ NewOf(durable, gen, left) /\ NoHeader(durable, gen, left)

Standing(t, g) == \A a \in Structure : t[a] = Content("cover", g, NoPass)

Synced == pc = "header" => Standing(view, gen) /\ Standing(durable, gen)

(* What was said stays true. *)
Said ==
  /\ said.name # "nothing" => pc = "idle"
  /\ said.name = "formatted" => Standing(view, gen) /\ Standing(durable, gen)
  /\ said.name = "formatted" /\ ~lost =>
       view["header"].what = "header" /\ view["header"].pass = said.pass

Whole ==
  view["header"].what = "header" /\ ~lost =>
    \A a \in wrote : \/ view[a].what = "data" /\ view[a].gen = view["header"].gen
                     \/ a \in Stray(view)

Served == \A header \in serving : header.what = "header"

IInv ==
  /\ TypeOK /\ AllMixed /\ LeftTail /\ Served
  /\ Filled /\ Covered /\ Fresh /\ New /\ Synced
  /\ Said /\ SanitizedSurvives /\ Whole

-----------------------------------------------------------------------------
Whats == {"alien", "random", "part", "cover", "header", "data", "stray"}

(* What is put on a target is something a target may hold. *)
LEMMA ContentsTyped ==
  ASSUME NEW what \in Whats, NEW g \in 0 .. MaxFormats, NEW pass \in Passwords \cup {NoPass}
  PROVE  /\ Content(what, g, pass) \in Contents
         /\ Content(what, g, pass).what = what /\ Content(what, g, pass).gen = g
         /\ Content(what, g, pass).pass = pass
BY DEF Content, Contents, Whats

(* So are the random fill, what was there before hazmat and stray data.    *)
LEMMA RandomTyped == Random \in Contents /\ Alien \in Contents /\ Astray \in Contents
<1>1. MaxFormats \in Nat
  BY CommandAssumption
<1>2. 0 \in 0 .. MaxFormats
  BY <1>1
<1> QED
  BY <1>2, ContentsTyped DEF Random, Alien, Astray, Whats

(* The fields of what a target holds.                                      *)
LEMMA ContentsFields ==
  ASSUME NEW c \in Contents
  PROVE  /\ c.what \in Whats /\ c.gen \in Nat /\ c.gen <= MaxFormats
         /\ c.pass \in Passwords \cup {NoPass}
<1>1. c.gen \in 0 .. MaxFormats
  BY DEF Contents
<1>2. MaxFormats \in Nat
  BY CommandAssumption
<1>3. c.gen \in Nat /\ c.gen <= MaxFormats
  BY <1>1, <1>2
<1> QED
  BY <1>3 DEF Contents, Whats

(* The boot sector, the header and the payload are areas of their own.     *)
LEMMA Kinds ==
  /\ "boot" \in Area /\ "header" \in Area
  /\ Structure \subseteq Area /\ "boot" \in Structure /\ "header" \notin Structure
  /\ Payload \subseteq Area /\ "boot" \notin Payload /\ "header" \notin Payload
  /\ Payload \cap Structure = {} /\ \A a \in Payload : a = "payload"
  /\ Random.what = "random" /\ Random.gen = 0
BY DEF Area, Structure, Payload, Random, Content

(* What is left of an area keeps its age, and is no boot sector or header. *)
LEMMA Parts ==
  ASSUME NEW c \in Contents
  PROVE  /\ Part(c) \in Contents /\ Part(c).gen = c.gen
         /\ Part(c).what \notin {"cover", "header"}
         /\ c = Random => Part(c) = Random
         /\ c = Astray => Part(c) = Astray
         /\ c.what \in {"cover", "part"} => Part(c).what = "part"
         /\ c.gen > 0 => Part(c).what = "part"
<1>1. c.gen \in 0 .. MaxFormats
  BY DEF Contents
<1>2. /\ Content("part", c.gen, NoPass) \in Contents
      /\ Content("part", c.gen, NoPass).what = "part"
      /\ Content("part", c.gen, NoPass).gen = c.gen
  BY <1>1, ContentsTyped DEF Whats
<1>3. /\ Alien.what = "alien" /\ Random.what = "random" /\ Astray.what = "stray"
      /\ Alien.gen = 0 /\ Random.gen = 0 /\ Astray.gen = 0
  BY DEF Alien, Random, Astray, Content
<1> QED
  BY <1>1, <1>2, <1>3 DEF Part

Target == [Area -> Contents]

(* Every area of w is that of a target in S, or what is left of it. *)
Drawn(w, S) == \A b \in Area : \E u \in S : w[b] = u[b] \/ w[b] = Part(u[b])

(* What holds between targets holds between mixtures of them. *)
LEMMA Mixtures ==
  ASSUME NEW S \in SUBSET Target, NEW l \in SUBSET Area, \A t, u \in S : Mixed(t, u, l),
         NEW w \in Target, NEW x \in Target, Drawn(w, S), Drawn(x, S)
  PROVE  Mixed(w, x, l)
<1>1. \A b \in Area, u \in S : u[b] \in Contents
  BY DEF Target
<1>2. Under(w, x, l)
  <2> SUFFICES ASSUME w["boot"].what = "cover", NEW b \in Area
               PROVE  x[b] = Random \/ x[b].gen >= w["boot"].gen \/ b \in Stray(x) \cup l
    BY DEF Under
  <2>1. PICK t \in S : w["boot"] = t["boot"]
    BY <1>1, Kinds, Parts DEF Drawn
  <2>2. PICK u \in S : x[b] = u[b] \/ x[b] = Part(u[b])
    BY DEF Drawn
  <2>3. u[b] = Random \/ u[b].gen >= t["boot"].gen \/ b \in Stray(u) \cup l
    BY <2>1 DEF Mixed, Under
  <2>4. /\ x[b].gen = u[b].gen
        /\ u[b] = Random => x[b] = Random
        /\ u[b] = Astray => x[b] = Astray
    BY <1>1, <2>2, Parts
  <2> QED
    BY <2>1, <2>3, <2>4 DEF Stray
<1>3. Complete(w, x, l)
  <2> SUFFICES ASSUME w["header"].what = "header", NEW b \in Structure
               PROVE  \/ x[b] = Random
                      \/ x[b].what \in {"cover", "part"} /\ x[b].gen = w["header"].gen
                      \/ /\ "header" \in l
                         /\ x[b].what = "part" \/ x[b].gen > w["header"].gen
    BY DEF Complete
  <2>1. PICK t \in S : w["header"] = t["header"]
    BY <1>1, Kinds, Parts DEF Drawn
  <2>2. PICK u \in S : x[b] = u[b] \/ x[b] = Part(u[b])
    BY Kinds DEF Drawn
  <2>3. \/ u[b] = Random
        \/ u[b].what \in {"cover", "part"} /\ u[b].gen = t["header"].gen
        \/ "header" \in l /\ (u[b].what = "part" \/ u[b].gen > t["header"].gen)
    BY <2>1 DEF Mixed, Complete
  <2>4. u[b] \in Contents /\ b \in Area
    BY <1>1, Kinds
  <2>5. CASE x[b] = u[b]
    BY <2>1, <2>3, <2>5
  <2>6. CASE x[b] = Part(u[b])
    <3>1. /\ x[b].gen = u[b].gen
          /\ u[b] = Random => x[b] = Random
          /\ u[b].what \in {"cover", "part"} => x[b].what = "part"
      BY <2>4, <2>6, Parts
    <3> QED
      BY <2>1, <2>3, <3>1
  <2> QED
    BY <2>2, <2>5, <2>6
<1> QED
  BY <1>2, <1>3 DEF Mixed

Overwritten == [a \in Area |-> Random]

(* Random areas may be mixed with those of any target.                     *)
LEMMA RandomMixed ==
  /\ Overwritten \in Target
  /\ \A t \in Target \cup {Overwritten}, l \in SUBSET Area :
       Mixed(t, Overwritten, l) /\ Mixed(Overwritten, t, l)
<1>1. Random \in Contents
  BY RandomTyped
<1>2. Overwritten \in Target
  BY <1>1 DEF Overwritten, Target
<1>3. \A b \in Area : Overwritten[b] = Random
  BY DEF Overwritten
<1>4. \A t \in Target, l \in SUBSET Area : Under(t, Overwritten, l) /\ Complete(t, Overwritten, l)
  BY <1>3, Kinds DEF Under, Complete
<1>5. \A t \in Target, l \in SUBSET Area : Under(Overwritten, t, l) /\ Complete(Overwritten, t, l)
  BY <1>3, Kinds DEF Under, Complete
<1> QED
  BY <1>2, <1>4, <1>5 DEF Mixed

(* A step that copies areas between view and durable, fills one or leaves  *)
(* a part of one keeps the mixtures sound.                                 *)
LEMMA CopiesMixed ==
  ASSUME view \in Target, durable \in Target, view' \in Target, durable' \in Target,
         AllMixed, left \in SUBSET Area, left' = left, gen \in Nat, gen' \in Nat, gen' >= gen,
         \A b \in Area : view'[b] \in {view[b], durable[b], Part(view[b]), Random},
         \A b \in Area : durable'[b] \in {view[b], durable[b], Part(view[b]), Random}
  PROVE  AllMixed'
<1> DEFINE S == {view, durable, Overwritten}
<1>1. S \in SUBSET Target
  BY RandomMixed
<1>2. \A t, u \in S : Mixed(t, u, left)
  BY <1>1, RandomMixed DEF AllMixed
<1>3. \A b \in Area : Overwritten[b] = Random
  BY DEF Overwritten
<1>4. Drawn(view', S) /\ Drawn(durable', S)
  BY <1>3 DEF Drawn
<1>5. /\ Mixed(view', view', left) /\ Mixed(view', durable', left)
      /\ Mixed(durable', view', left) /\ Mixed(durable', durable', left)
  <2> HIDE DEF S
  <2> QED
    BY <1>1, <1>2, <1>4, Mixtures
<1>6. ASSUME NEW b \in {"boot", "header"}
      PROVE  view'[b].gen <= gen' /\ durable'[b].gen <= gen'
  <2>1. /\ b \in Area /\ view[b] \in Contents /\ durable[b] \in Contents
    BY Kinds DEF Target
  <2>2. view[b].gen \in Nat /\ durable[b].gen \in Nat /\ Part(view[b]).gen = view[b].gen
    BY <2>1, ContentsFields, Parts
  <2>3. view[b].gen <= gen' /\ durable[b].gen <= gen'
    BY <2>2 DEF AllMixed
  <2> QED
    BY <2>1, <2>2, <2>3, Kinds
<1> QED
  BY <1>5, <1>6 DEF AllMixed

(* So does a step of format that puts something of its own somewhere,      *)
(* unless it is a boot sector or some structure: all areas have to be its  *)
(* own before the first, and no header may be found before the second that *)
(* is not an older one which the fill has missed.                          *)
LEMMA PutMixed ==
  ASSUME view \in Target, durable \in Target, view' \in Target, durable' = durable,
         AllMixed, left \in SUBSET Area, left' = left, gen \in Nat, gen' = gen,
         NEW s \in Area, view'[s].gen = gen, view'[s].what # "header",
         \A b \in Area : b # s => view'[b] = view[b],
         NewOf(view, gen, left), NewOf(durable, gen, left),
         NoHeader(view, gen, left), NoHeader(durable, gen, left)
  PROVE  AllMixed'
<1>1. ASSUME NEW t \in {view', durable}, NEW u \in {view', durable}
      PROVE  Mixed(t, u, left)
  <2>1. PICK v \in {view, durable} : \A b \in Area : u[b] = v[b] \/ (b = s /\ u[b].gen = gen)
    OBVIOUS
  <2>2. PICK w \in {view, durable} :
          \A b \in Area : t[b] = w[b] \/ (b = s /\ t[b].gen = gen /\ t[b].what # "header")
    OBVIOUS
  <2>3. Mixed(w, v, left) /\ NewOf(v, gen, left) /\ NoHeader(w, gen, left)
    BY DEF AllMixed
  <2>4. /\ t["boot"].gen <= gen /\ w["boot"].gen <= gen
    BY <2>2, Kinds DEF AllMixed
  <2>5. \A b \in Area : b # s /\ b \in Stray(v) => b \in Stray(u)
    BY <2>1, Kinds DEF Stray
  <2>6. Under(t, u, left)
    <3> SUFFICES ASSUME t["boot"].what = "cover", NEW b \in Area
                 PROVE  u[b] = Random \/ u[b].gen >= t["boot"].gen \/ b \in Stray(u) \cup left
      BY DEF Under
    <3>1. u \in Target /\ t \in Target /\ v \in Target
      OBVIOUS
    <3>2. u[b].gen \in Nat /\ t["boot"].gen \in Nat
      BY <3>1, Kinds, ContentsFields DEF Target
    <3>3. CASE u[b] = v[b]
      <4>1. b \in Stray(v) => b \in Stray(u)
        BY <3>3 DEF Stray
      <4>2. v[b] = Random \/ v[b].gen = gen \/ b \in Stray(v) \cup left
        BY <2>3 DEF NewOf
      <4> QED
        BY <2>4, <3>2, <3>3, <4>1, <4>2
    <3>4. CASE u[b].gen = gen
      BY <2>4, <3>2, <3>4
    <3> QED
      BY <2>1, <3>3, <3>4
  <2>7. Complete(t, u, left)
    <3> SUFFICES ASSUME t["header"].what = "header", NEW b \in Structure
                 PROVE  \/ u[b] = Random
                        \/ u[b].what \in {"cover", "part"} /\ u[b].gen = t["header"].gen
                        \/ /\ "header" \in left
                           /\ u[b].what = "part" \/ u[b].gen > t["header"].gen
      BY DEF Complete
    <3>1. t["header"] = w["header"] /\ b \in Area
      BY <2>2, Kinds
    <3>2. "header" \in left /\ t["header"].gen < gen
      BY <2>3, <3>1, Kinds DEF NoHeader
    <3>3. CASE u[b] = v[b]
      BY <2>3, <3>1, <3>3 DEF Mixed, Complete
    <3>4. CASE u[b].gen = gen
      BY <3>2, <3>4
    <3> QED
      BY <2>1, <3>1, <3>3, <3>4
  <2> QED
    BY <2>6, <2>7 DEF Mixed
<1>2. view'["boot"].gen <= gen /\ view'["header"].gen <= gen
  BY Kinds DEF AllMixed
<1> QED
  BY <1>1, <1>2 DEF AllMixed

-----------------------------------------------------------------------------
(* Every step keeps the types. *)
LEMMA TypeStep == TypeOK /\ [Next]_vars => TypeOK'
<1> SUFFICES ASSUME TypeOK, [Next]_vars PROVE TypeOK'
  OBVIOUS
<1> DEFINE Pass == Passwords \cup {NoPass}
<1>0. /\ MaxFormats \in Nat /\ MaxCuts \in Nat
      /\ Len(Areas) = 6 /\ Len(CoverWrites) = 6
      /\ NoPass \in Pass /\ Passwords \subseteq Pass
  BY CommandAssumption, Order
<1>1. /\ view \in [Area -> Contents] /\ durable \in [Area -> Contents]
      /\ pc \in {"idle", "fill", "cover", "header"}
      /\ cmd \in [name : {"none", "format", "sanitize"}, pass : Pass]
      /\ k \in 0 .. 6 /\ gen \in 0 .. MaxFormats
      /\ said \in [name : {"nothing", "sanitized", "formatted"}, pass : Pass]
      /\ serving \subseteq Contents /\ wrote \subseteq Payload
  BY <1>0 DEF TypeOK
<1>2. found \in BOOLEAN /\ lost \in BOOLEAN
  BY DEF TypeOK
<1>3. NoCmd \in [name : {"none", "format", "sanitize"}, pass : Pass]
  BY <1>0 DEF NoCmd
<1>4. Nothing \in [name : {"nothing", "sanitized", "formatted"}, pass : Pass]
  BY <1>0 DEF Nothing
<1> HIDE DEF Pass
<1>5. found' \in BOOLEAN /\ lost' \in BOOLEAN
  BY <1>2 DEF Next, vars, user, history, Format, Sanitize, Begin, Fill,
     FillSync, FillEnds, Cover, CoverSync, CoverEnds, WriteHeader, HeaderDone, FindHeader,
     Open, GiveUp, Close, Write, Flush, Abort, WriteBack, PowerLoss
<1>6. ASSUME view' \in [Area -> Contents]
      PROVE  durable' \in [Area -> Contents]
  BY <1>1, <1>6 DEF Next, vars, user, history, Format, Sanitize, Begin, Fill,
     FillSync, FillEnds, Cover, CoverSync, CoverEnds, WriteHeader, HeaderDone, FindHeader,
     Open, GiveUp, Close, Write, Flush, Abort, WriteBack, PowerLoss
<1>7. pc' \in {"idle", "fill", "cover", "header"}
  BY <1>1 DEF Next, vars, user, history, Format, Sanitize, Begin, Fill,
     FillSync, FillEnds, Cover, CoverSync, CoverEnds, WriteHeader, HeaderDone, FindHeader,
     Open, GiveUp, Close, Write, Flush, Abort, WriteBack, PowerLoss, Idle
<1>8. gen' \in 0 .. MaxFormats
  BY <1>0, <1>1 DEF Next, vars, user, history, Format, Sanitize, Begin, Fill,
     FillSync, FillEnds, Cover, CoverSync, CoverEnds, WriteHeader, HeaderDone, FindHeader,
     Open, GiveUp, Close, Write, Flush, Abort, WriteBack, PowerLoss
<1>9. k' \in 0 .. 6
  BY <1>0, <1>1 DEF Next, vars, user, history, Format, Sanitize, Begin, Fill,
     FillSync, FillEnds, Cover, CoverSync, CoverEnds, WriteHeader, HeaderDone, FindHeader,
     Open, GiveUp, Close, Write, Flush, Abort, WriteBack, PowerLoss
<1>10. cmd' \in [name : {"none", "format", "sanitize"}, pass : Pass]
  <2>1. CASE \E pass \in Passwords : Format(pass)
    BY <1>0, <2>1 DEF Format, Begin
  <2>2. CASE Sanitize
    BY <1>0, <2>2 DEF Sanitize, Begin
  <2>3. CASE cmd' = cmd \/ cmd' = NoCmd
    BY <1>1, <1>3, <2>3
  <2> QED
    BY <2>1, <2>2, <2>3 DEF Next, vars, user, history, Format, Sanitize, Begin, Fill,
     FillSync, FillEnds, Cover, CoverSync, CoverEnds, WriteHeader, HeaderDone, FindHeader,
     Open, GiveUp, Close, Write, Flush, Abort, WriteBack, PowerLoss, Idle
<1>11. said' \in [name : {"nothing", "sanitized", "formatted"}, pass : Pass]
  <2>1. CASE said' = [name |-> "sanitized", pass |-> NoPass]
    BY <1>0, <2>1
  <2>2. CASE said' = [name |-> "formatted", pass |-> cmd.pass]
    BY <1>1, <2>2
  <2>3. CASE said' = said \/ said' = Nothing
    BY <1>1, <1>4, <2>3
  <2> QED
    BY <2>1, <2>2, <2>3 DEF Next, vars, user, history, Format, Sanitize, Begin, Fill,
     FillSync, FillEnds, Cover, CoverSync, CoverEnds, WriteHeader, HeaderDone, FindHeader,
     Open, GiveUp, Close, Write, Flush, Abort, WriteBack, PowerLoss
<1>12. serving' \subseteq Contents
  <2>1. view["header"] \in Contents
    BY <1>1, Kinds
  <2> QED
    BY <1>1, <2>1 DEF Next, vars, user, history, Format, Sanitize, Begin, Fill,
     FillSync, FillEnds, Cover, CoverSync, CoverEnds, WriteHeader, HeaderDone, FindHeader,
     Open, GiveUp, Close, Write, Flush, Abort, WriteBack, PowerLoss
<1>13. wrote' \subseteq Payload
  BY <1>1 DEF Next, vars, user, history, Format, Sanitize, Begin, Fill,
     FillSync, FillEnds, Cover, CoverSync, CoverEnds, WriteHeader, HeaderDone, FindHeader,
     Open, GiveUp, Close, Write, Flush, Abort, WriteBack, PowerLoss
<1>14. left' \subseteq Area
  <2>1. left \subseteq Area
    BY DEF TypeOK
  <2>2. {Areas[j] : j \in k + 1 .. 6} \subseteq Area
    BY <1>1, Order
  <2> QED
    BY <1>0, <2>1, <2>2 DEF Next, vars, user, history, Format, Sanitize, Begin, Fill,
     FillSync, FillEnds, Cover, CoverSync, CoverEnds, WriteHeader, HeaderDone, FindHeader,
     Open, GiveUp, Close, Write, Flush, Abort, WriteBack, PowerLoss
<1>15. cuts' \in 0 .. MaxCuts
  <2>1. cuts \in 0 .. MaxCuts
    BY DEF TypeOK
  <2>2. Cut => cuts' \in 0 .. MaxCuts
    BY <1>0, <2>1 DEF Cut
  <2> QED
    BY <2>1, <2>2 DEF Next, vars, user, history, Format, Sanitize, Begin, Fill,
     FillSync, FillEnds, Cover, CoverSync, CoverEnds, WriteHeader, HeaderDone, FindHeader,
     Open, GiveUp, Close, Write, Flush, Abort, WriteBack, PowerLoss
<1>16. \A c \in Contents : Part(c) \in Contents
  BY Parts
<1>17. ASSUME NEW c \in Contents PROVE Over(c, gen) \in Contents
  <2>1. Content("part", gen, NoPass) \in Contents
    BY <1>0, <1>1, ContentsTyped DEF Whats, Pass
  <2> QED
    BY <1>16, <2>1 DEF Over
<1>18. Content("cover", gen, NoPass) \in Contents
  BY <1>0, <1>1, ContentsTyped DEF Whats, Pass
<1>19. view' \in [Area -> Contents]
  <2>1. CASE Fill
    <3>1. Random \in Contents
      BY RandomTyped
    <3> QED
      BY <1>1, <2>1, <3>1 DEF Fill
  <2>2. CASE FillStops
    BY <1>1, <1>16, <2>2 DEF FillStops
  <2>3. CASE Cover
    BY <1>1, <1>17, <1>18, <2>3 DEF Cover
  <2>4. CASE CoverStops
    BY <1>1, <1>17, <1>18, <2>4 DEF CoverStops
  <2>5. CASE WriteHeader
    <3>1. Content("header", gen, cmd.pass) \in Contents
      BY <1>0, <1>1, ContentsTyped DEF Whats, Pass
    <3> QED
      BY <1>1, <2>5, <3>1 DEF WriteHeader, HeaderDone
  <2>6. ASSUME NEW header \in serving, NEW a \in Payload, Write(header, a)
        PROVE  view' \in [Area -> Contents]
    <3>1. header.gen \in 0 .. MaxFormats /\ header.pass \in Pass
      BY <1>1 DEF Contents, Pass
    <3>2. Content("data", header.gen, header.pass) \in Contents /\ Astray \in Contents
      BY <3>1, ContentsTyped, RandomTyped DEF Whats, Pass
    <3> QED
      BY <1>1, <2>6, <3>2 DEF Write
  <2>7. CASE view' = [view EXCEPT !["header"] = Over(@, gen)]
    BY <1>1, <1>17, <2>7
  <2>8. CASE view' = view \/ view' = durable
    BY <1>1, <2>8
  <2> QED
    BY <2>1, <2>2, <2>3, <2>4, <2>5, <2>6, <2>7, <2>8
    DEF Next, vars, user, history, Format, Sanitize, Begin, FillSync, FillEnds,
     CoverSync, CoverEnds, FindHeader, Open, GiveUp, Close, Flush, Abort,
     WriteBack, PowerLoss
<1> QED
  BY <1>0, <1>5, <1>6, <1>7, <1>8, <1>9, <1>10, <1>11, <1>12, <1>13, <1>14, <1>15, <1>19
  DEF TypeOK, Pass

(* Every run begins with a target that hazmat has not touched. *)
LEMMA InitIInv == Init => IInv
<1> SUFFICES ASSUME Init PROVE IInv
  OBVIOUS
<1>0. Alien.what = "alien" /\ Alien.gen = 0 /\ Alien \in Contents
  BY RandomTyped DEF Alien, Content
<1>1. /\ \A a \in Area : view[a] = Alien
      /\ view = [a \in Area |-> Alien] /\ durable = view
      /\ pc = "idle" /\ k = 0 /\ gen = 0 /\ said = Nothing /\ serving = {} /\ wrote = {}
      /\ cmd = NoCmd /\ left = {} /\ cuts = 0
  BY DEF Init
<1>2. found \in BOOLEAN /\ lost \in BOOLEAN
  BY DEF Init
<1>3. gen \in 0 .. MaxFormats /\ k \in 0 .. Len(CoverWrites) /\ cuts \in 0 .. MaxCuts
  <2>1. MaxFormats \in Nat /\ MaxCuts \in Nat
    BY CommandAssumption
  <2> QED
    BY <1>1, <2>1, Order
<1>4. TypeOK
  <2>1. cmd \in [name : {"none", "format", "sanitize"}, pass : Passwords \cup {NoPass}]
    BY <1>1 DEF NoCmd
  <2>2. said \in [name : {"nothing", "sanitized", "formatted"}, pass : Passwords \cup {NoPass}]
    BY <1>1 DEF Nothing
  <2>3. view \in [Area -> Contents] /\ durable \in [Area -> Contents]
    BY <1>0, <1>1
  <2> QED
    BY <1>1, <1>2, <1>3, <2>1, <2>2, <2>3 DEF TypeOK
<1>5. AllMixed
  BY <1>0, <1>1, Kinds DEF AllMixed, Mixed, Under, Complete
<1>6. said.name = "nothing"
  BY <1>1 DEF Nothing
<1> QED
  BY <1>1, <1>4, <1>5, <1>6
  DEF IInv, LeftTail, Served, Filled, Covered, Fresh, New, Synced, Said, SanitizedSurvives,
      Whole

-----------------------------------------------------------------------------
(* What the invariant says about the phases. *)
LEMMA Phases ==
  ASSUME IInv
  PROVE  /\ view \in Target /\ durable \in Target /\ gen \in Nat /\ k \in Nat
         /\ left \in SUBSET Area
         /\ pc = "fill" /\ k >= 1 => view["boot"] = Random
         /\ pc = "fill" /\ k >= 4 => view["header"] = Random
         /\ \A b \in Area \ Payload : b \notin Stray(view) /\ b \notin Stray(durable)
<1>1. view \in Target /\ durable \in Target /\ left \in SUBSET Area
  BY DEF IInv, TypeOK, Target
<1>2. gen \in 0 .. MaxFormats /\ k \in 0 .. Len(CoverWrites) /\ Len(CoverWrites) = 6
  BY Order DEF IInv, TypeOK
<1>3. MaxFormats \in Nat
  BY CommandAssumption
<1>4. gen \in Nat /\ k \in Nat
  BY <1>2, <1>3
<1>5. \A b \in Area \ Payload : b \notin Stray(view) /\ b \notin Stray(durable)
  BY DEF Stray
<1>6. ASSUME pc = "fill", k >= 1
      PROVE  view["boot"] = Random
  <2>1. Clean(view, Areas[1])
    BY <1>4, <1>6 DEF IInv, Filled
  <2> QED
    BY <2>1, Order, Kinds DEF Clean, Stray
<1>7. ASSUME pc = "fill", k >= 4
      PROVE  view["header"] = Random
  <2>1. Clean(view, Areas[4])
    BY <1>4, <1>7 DEF IInv, Filled
  <2> QED
    BY <2>1, Order, Kinds DEF Clean, Stray
<1> QED
  BY <1>1, <1>4, <1>5, <1>6, <1>7

(* A command begins. *)
LEMMA BeginStep ==
  ASSUME IInv, TypeOK', NEW name, NEW pass, Begin(name, pass),
         gen' = gen + 1 \/ (gen' = gen /\ name = "sanitize")
  PROVE  IInv'
<1>1. /\ view' = view /\ durable' = durable /\ pc' = "fill" /\ k' = 0
      /\ said' = Nothing /\ serving' = serving /\ wrote' = wrote /\ lost' = lost
      /\ left' = left /\ cmd'.name = name
  BY DEF Begin, user, history
<1>2. AllMixed' /\ Fresh'
  <2>1. /\ gen \in Nat /\ gen' \in Nat /\ gen' >= gen /\ view \in Target /\ durable \in Target
        /\ left \in SUBSET Area
    BY Phases
  <2>2. AllMixed'
    BY <1>1, <2>1, CopiesMixed DEF IInv
  <2>3. view["header"].gen \in Nat /\ durable["header"].gen \in Nat
    BY <2>1, Kinds, ContentsFields DEF Target
  <2>4. view["header"].gen <= gen /\ durable["header"].gen <= gen
    BY DEF IInv, AllMixed
  <2>5. Fresh'
    BY <1>1, <2>1, <2>3, <2>4 DEF Fresh
  <2> QED
    BY <2>2, <2>5
<1>3. Served' /\ LeftTail'
  BY <1>1 DEF IInv, Served, LeftTail
<1>4. Filled' /\ Covered' /\ New' /\ Synced'
  BY <1>1, Order DEF Filled, Covered, New, Synced
<1>5. Said' /\ SanitizedSurvives'
  BY <1>1 DEF Nothing, Said, SanitizedSurvives
<1>6. Whole'
  BY <1>1 DEF IInv, Whole, Stray
<1> QED
  BY <1>2, <1>3, <1>4, <1>5, <1>6 DEF IInv

(* A step that leaves the target alone and goes nowhere, or back to idle.  *)
LEMMA QuietStep ==
  ASSUME IInv, TypeOK', Served', view' = view, durable' = durable, gen' = gen,
         said' = said, wrote' = wrote, lost' = lost, left' = left,
         \/ pc' = pc /\ k' = k /\ cmd' = cmd
         \/ pc' = "idle"
  PROVE  IInv'
<1>1. AllMixed' /\ LeftTail'
  BY DEF IInv, AllMixed, LeftTail
<1>2. Filled' /\ Covered' /\ Fresh' /\ New' /\ Synced'
  BY DEF IInv, Filled, Covered, Fresh, New, Synced, Clean, Stray
<1>3. Said' /\ SanitizedSurvives' /\ Whole'
  BY DEF IInv, Said, SanitizedSurvives, Whole, Stray
<1> QED
  BY <1>1, <1>2, <1>3 DEF IInv

(* What opens stays whole while the fill is at the area f or stops in it:  *)
(* before the payload it has overwritten the header.                       *)
LEMMA FillWhole ==
  ASSUME IInv, pc = "fill", k < 6, view' \in Target,
         wrote' = wrote, lost' = lost, view'[Areas[k + 1]].what # "header",
         \A b \in Area : b # Areas[k + 1] => view'[b] = view[b]
  PROVE  Whole'
<1> DEFINE f == Areas[k + 1]
<1> SUFFICES ASSUME view'["header"].what = "header", ~lost, NEW a \in wrote
             PROVE  \/ view'[a].what = "data" /\ view'[a].gen = view'["header"].gen
                    \/ a \in Stray(view')
  BY DEF Whole
<1>1. f # "header" /\ view'["header"] = view["header"]
  BY Kinds
<1>2. ~(k >= 4)
  BY <1>1, Phases, Kinds
<1>3. f # "payload"
  <2>1. k + 1 \in 1 .. 6 /\ k + 1 # 5
    BY <1>2, Phases
  <2> QED
    BY <2>1, Order
<1>4. a \in Payload /\ a \in Area /\ a = "payload"
  BY Kinds DEF IInv, TypeOK
<1>5. view'[a] = view[a]
  BY <1>3, <1>4
<1> QED
  BY <1>1, <1>4, <1>5 DEF IInv, Whole, Stray

(* One write of the random fill. *)
LEMMA FillStep ==
  ASSUME IInv, TypeOK', Fill
  PROVE  IInv'
<1> DEFINE f == Areas[k + 1]
<1>0. /\ view \in Target /\ durable \in Target /\ gen \in Nat /\ k \in Nat
      /\ view' \in Target /\ durable' \in Target /\ left \in SUBSET Area
  BY Phases DEF TypeOK, Target
<1>1. /\ pc = "fill" /\ k < 6 /\ f \in Area /\ pc' = "fill" /\ k' = k + 1 /\ cmd' = cmd
      /\ durable' = durable /\ gen' = gen /\ said' = said /\ left' = left
      /\ serving' = serving /\ wrote' = wrote /\ lost' = lost
  BY <1>0, Order DEF Fill, user, history
<1>2. /\ view'[f] = Random
      /\ \A b \in Area : b # f => view'[b] = view[b]
  BY <1>0, <1>1 DEF Fill, Target
<1>3. AllMixed' /\ LeftTail'
  BY <1>0, <1>1, <1>2, CopiesMixed DEF IInv, LeftTail
<1>4. Filled'
  <2> SUFFICES ASSUME NEW j \in 1 .. k + 1 PROVE Clean(view', Areas[j])
    BY <1>0, <1>1, Order DEF Filled
  <2>1. CASE Areas[j] = f
    BY <1>2, <2>1 DEF Clean
  <2>2. CASE Areas[j] # f
    <3>1. j \in 1 .. k /\ Areas[j] \in Area
      BY <1>0, <1>1, <2>2, Order
    <3>2. Clean(view, Areas[j]) /\ view'[Areas[j]] = view[Areas[j]]
      BY <1>1, <1>2, <2>2, <3>1 DEF IInv, Filled
    <3> QED
      BY <3>2 DEF Clean, Stray
  <2> QED
    BY <2>1, <2>2
<1>5. Served' /\ Covered' /\ New' /\ Synced'
  BY <1>1 DEF IInv, Served, Covered, New, Synced
<1>6. Fresh'
  <2> SUFFICES ASSUME cmd.name = "format"
               PROVE  view'["header"].gen < gen /\ durable["header"].gen < gen
    BY <1>1 DEF Fresh
  <2>1. view["header"].gen < gen /\ durable["header"].gen < gen
    BY <1>1 DEF IInv, Fresh
  <2>2. view["header"].gen \in Nat
    BY <1>0, Kinds, ContentsFields DEF Target
  <2> QED
    BY <1>0, <1>2, <2>1, <2>2, Kinds
<1>7. said.name = "nothing"
  BY <1>1 DEF IInv, Said
<1>8. Said' /\ SanitizedSurvives'
  BY <1>1, <1>7 DEF Said, SanitizedSurvives
<1>9. Whole'
  BY <1>0, <1>1, <1>2, Kinds, FillWhole
<1> QED
  BY <1>3, <1>4, <1>5, <1>6, <1>8, <1>9 DEF IInv

(* The area that a fill stops in is left as it was, or a part of it is.    *)
LEMMA Stops ==
  ASSUME IInv, view' \in Target, k < 6, FillStops
  PROVE  /\ Areas[k + 1] \in Area
         /\ \/ view' = view
            \/ view'[Areas[k + 1]] = Part(view[Areas[k + 1]])
         /\ \A b \in Area : b # Areas[k + 1] => view'[b] = view[b]
         /\ \A b \in Area : view'[b] \in {view[b], Part(view[b])}
         /\ pc = "fill" /\ wrote' = wrote /\ lost' = lost => Whole'
<1> DEFINE f == Areas[k + 1]
<1>0. view \in Target /\ k \in Nat
  BY Phases
<1>1. f \in Area
  BY <1>0, Order
<1>2. view' = view \/ view' = [view EXCEPT ![f] = Part(@)]
  BY DEF FillStops
<1>3. /\ view' = view \/ view'[f] = Part(view[f])
      /\ \A b \in Area : b # f => view'[b] = view[b]
  BY <1>0, <1>1, <1>2 DEF Target
<1>4. view[f] \in Contents
  BY <1>0, <1>1 DEF Target
<1>5. ASSUME pc = "fill", wrote' = wrote, lost' = lost
      PROVE  Whole'
  <2>1. CASE view' = view
    BY <1>5, <2>1 DEF IInv, Whole, Stray
  <2>2. CASE view'[f] = Part(view[f])
    <3>1. view'[f].what # "header"
      BY <1>4, <2>2, Parts
    <3> QED
      BY <1>3, <1>5, <3>1, FillWhole
  <2> QED
    BY <1>3, <2>1, <2>2
<1>6. \A b \in Area : view'[b] \in {view[b], Part(view[b])}
  BY <1>3
<1> QED
  BY <1>1, <1>3, <1>5, <1>6

(* The fsync at the end of the fill, wherever that is. *)
LEMMA FillSyncStep ==
  ASSUME IInv, TypeOK', FillSync
  PROVE  IInv'
<1>0. /\ view \in Target /\ durable \in Target /\ gen \in Nat /\ k \in Nat
      /\ view' \in Target /\ durable' \in Target /\ left \in SUBSET Area
  BY Phases DEF TypeOK, Target
<1>1. /\ pc = "fill" /\ k <= 6 /\ k' = 0 /\ durable' = view' /\ gen' = gen
      /\ \/ pc' = "cover" /\ said' = said /\ cmd.name = "format"
         \/ pc' = "idle" /\ said'.name = "sanitized"
      /\ serving' = serving /\ wrote' = wrote /\ lost' = lost
      /\ left' = {Areas[j] : j \in k + 1 .. 6}
      /\ view' = view \/ (k < 6 /\ FillStops)
  BY <1>0, Order DEF FillSync, FillEnds, Idle, user, history
<1>2. \A j \in 1 .. k : view'[Areas[j]] = view[Areas[j]]
  <2> SUFFICES ASSUME NEW j \in 1 .. k, k < 6, FillStops PROVE view'[Areas[j]] = view[Areas[j]]
    BY <1>1
  <2>1. j \in 1 .. 6 /\ k + 1 \in 1 .. 6 /\ j # k + 1
    BY <1>0
  <2>2. Areas[j] # Areas[k + 1]
    BY <2>1 DEF Areas
  <2> QED
    BY <1>0, <2>1, <2>2, Order, Stops
<1>3. ASSUME NEW a \in Area, a \notin left'
      PROVE  Clean(view', a)
  <2>1. PICK j \in 1 .. 6 : a = Areas[j]
    BY Order
  <2>2. j \in 1 .. k
    BY <1>0, <1>1, <1>3, <2>1
  <2>3. Clean(view, a)
    BY <1>1, <2>1, <2>2 DEF IInv, Filled
  <2> QED
    BY <1>2, <2>1, <2>2, <2>3 DEF Clean, Stray
<1>4. \A b \in Area : view'[b] \in {view[b], Part(view[b])}
  BY <1>0, <1>1, Stops
<1>5. "header" \notin left' => view'["header"] = Random
  BY <1>3, Kinds DEF Clean, Stray
<1>6. AllMixed'
  <2>1. Drawn(view', {view}) /\ {view} \in SUBSET Target
    BY <1>0, <1>4 DEF Drawn
  <2>2. Mixed(view, view, left)
    BY DEF IInv, AllMixed
  <2>3. \A t, u \in {view} : Mixed(t, u, left)
    BY <2>2
  <2>4. Mixed(view', view', left)
    BY <1>0, <2>1, <2>3, Mixtures
  <2>5. Under(view', view', left')
    BY <1>3 DEF Under, Clean
  <2>6. Complete(view', view', left')
    BY <1>5, <2>4, Kinds DEF Mixed, Complete
  <2>7. ASSUME NEW b \in {"boot", "header"}
        PROVE  view'[b].gen <= gen
    <3>1. b \in Area /\ view[b] \in Contents
      BY <1>0, Kinds DEF Target
    <3> QED
      BY <1>4, <3>1, Parts DEF IInv, AllMixed
  <2> QED
    BY <1>1, <2>5, <2>6, <2>7 DEF AllMixed, Mixed
<1>7. LeftTail'
  <2> SUFFICES ASSUME NEW j \in k + 1 .. 6, Areas[j] \in {"boot", "header"}
               PROVE  "payload" \in left'
    BY <1>1 DEF LeftTail
  <2>1. j \in 1 .. 6 /\ j # 6
    BY <1>0 DEF Areas
  <2>2. 5 \in k + 1 .. 6
    BY <1>0, <2>1
  <2> QED
    BY <1>1, <2>2, Order
<1>8. Served' /\ Filled' /\ Synced' /\ Fresh'
  BY <1>1 DEF IInv, Served, Filled, Synced, Fresh
<1>9. Covered'
  BY <1>1, Order DEF Covered
<1>10. New'
  <2> SUFFICES ASSUME pc' = "cover"
               PROVE  NewOf(view', gen, left') /\ NoHeader(view', gen, left')
    BY <1>1 DEF New
  <2>1. NewOf(view', gen, left')
    BY <1>3 DEF NewOf, Clean
  <2>2. view["header"].gen < gen
    BY <1>1 DEF IInv, Fresh
  <2>3. view'["header"].gen < gen
    <3>1. "header" \in Area /\ view["header"] \in Contents
      BY <1>0, Kinds DEF Target
    <3> QED
      BY <1>4, <2>2, <3>1, Parts
  <2> QED
    BY <1>5, <2>1, <2>3 DEF NoHeader
<1>11. said.name = "nothing"
  BY <1>1 DEF IInv, Said
<1>12. Said'
  BY <1>1, <1>11 DEF Said
<1>13. SanitizedSurvives'
  BY <1>1, <1>3 DEF SanitizedSurvives, Clean, Stray
<1>14. Whole'
  <2>1. CASE view' = view
    BY <1>1, <2>1 DEF IInv, Whole, Stray
  <2>2. CASE k < 6 /\ FillStops
    BY <1>0, <1>1, <2>2, Stops
  <2> QED
    BY <1>1, <2>1, <2>2
<1> QED
  BY <1>6, <1>7, <1>8, <1>9, <1>10, <1>12, <1>13, <1>14 DEF IInv

(* What write_structures leaves in an area is its own, or older than that  *)
(* and a part of what was there.                                           *)
LEMMA Overs ==
  ASSUME NEW c \in Contents, NEW g \in Nat
  PROVE  \/ Over(c, g) = Part(c)
         \/ Over(c, g).gen = g /\ Over(c, g).what = "part"
BY DEF Over, Content

(* A write to a structure while format is at its cover, wholly or not.     *)
LEMMA CoverPut ==
  ASSUME IInv, pc = "cover", view' \in Target, durable' = durable, gen' = gen, left' = left,
         wrote' = wrote, lost' = lost, NEW a \in Structure,
         \/ view'[a] = Part(view[a])
         \/ view'[a].gen = gen /\ view'[a].what \in {"part", "cover"},
         \A b \in Area : b # a => view'[b] = view[b]
  PROVE  /\ AllMixed' /\ Whole'
         /\ NewOf(view', gen, left) /\ NoHeader(view', gen, left)
<1>0. /\ view \in Target /\ durable \in Target /\ gen \in Nat /\ left \in SUBSET Area
      /\ a \in Area /\ a # "header" /\ a \notin Payload
  BY Phases, Kinds
<1>1. /\ NewOf(view, gen, left) /\ NoHeader(view, gen, left)
      /\ NewOf(durable, gen, left) /\ NoHeader(durable, gen, left)
  BY DEF IInv, New
<1>2. view[a] \in Contents
  BY <1>0 DEF Target
<1>3. AllMixed'
  <2>1. CASE view'[a] = Part(view[a])
    <3>1. \A b \in Area : view'[b] \in {view[b], durable[b], Part(view[b]), Random}
      BY <2>1
    <3> QED
      BY <1>0, <3>1, CopiesMixed DEF IInv
  <2>2. CASE view'[a].gen = gen /\ view'[a].what \in {"part", "cover"}
    BY <1>0, <1>1, <2>2, PutMixed DEF IInv
  <2> QED
    BY <2>1, <2>2
<1>4. view'["header"] = view["header"]
  BY <1>0, Kinds
<1>5. Whole'
  <2> SUFFICES ASSUME view["header"].what = "header", ~lost, NEW b \in wrote
               PROVE  \/ view'[b].what = "data" /\ view'[b].gen = view["header"].gen
                      \/ b \in Stray(view')
    BY <1>4 DEF Whole
  <2>1. b \in Payload /\ b \in Area
    BY Kinds DEF IInv, TypeOK
  <2>2. view'[b] = view[b]
    BY <1>0, <2>1
  <2> QED
    BY <2>1, <2>2 DEF IInv, Whole, Stray
<1>6. NewOf(view', gen, left)
  <2> SUFFICES ASSUME NEW b \in Area
               PROVE  view'[b] = Random \/ view'[b].gen = gen \/ b \in Stray(view') \cup left
    BY DEF NewOf
  <2>1. view[b] = Random \/ view[b].gen = gen \/ b \in Stray(view) \cup left
    BY <1>1 DEF NewOf
  <2>2. CASE b # a
    BY <2>1, <2>2 DEF Stray
  <2>3. CASE b = a /\ view'[a] = Part(view[a])
    BY <1>0, <1>2, <2>1, <2>3, Parts DEF Stray
  <2>4. CASE b = a /\ view'[a].gen = gen
    BY <2>4
  <2> QED
    BY <2>2, <2>3, <2>4
<1> QED
  BY <1>1, <1>3, <1>4, <1>5, <1>6 DEF NoHeader

(* One write of write_structures. *)
LEMMA CoverStep ==
  ASSUME IInv, TypeOK', Cover
  PROVE  IInv'
<1> DEFINE a == CoverWrites[k + 1]
           c == IF k < ZeroWrites THEN Over(view[a], gen) ELSE Content("cover", gen, NoPass)
<1>0. /\ view \in Target /\ durable \in Target /\ gen \in Nat /\ k \in Nat
      /\ view' \in Target /\ durable' \in Target
  BY Phases DEF TypeOK, Target
<1>1. /\ pc = "cover" /\ k < 6 /\ a \in Structure /\ pc' = "cover" /\ k' = k + 1
      /\ durable' = durable /\ gen' = gen /\ said' = said /\ left' = left
      /\ serving' = serving /\ wrote' = wrote /\ lost' = lost
  BY <1>0, Order DEF Cover, user, history
<1>2. /\ view'[a] = c
      /\ \A b \in Area : b # a => view'[b] = view[b]
  BY <1>0, <1>1, Kinds DEF Cover, Target
<1>3. \/ view'[a] = Part(view[a])
      \/ view'[a].gen = gen /\ view'[a].what \in {"part", "cover"}
  <2>1. view[a] \in Contents
    BY <1>0, <1>1, Kinds DEF Target
  <2>2. CASE k < ZeroWrites
    BY <1>0, <1>2, <2>1, <2>2, Overs
  <2>3. CASE ~(k < ZeroWrites)
    BY <1>2, <2>3 DEF Content
  <2> QED
    BY <2>2, <2>3
<1>4. /\ AllMixed' /\ Whole'
      /\ NewOf(view', gen, left) /\ NoHeader(view', gen, left)
  BY <1>0, <1>1, <1>2, <1>3, CoverPut
<1>5. New' /\ LeftTail'
  BY <1>1, <1>4 DEF IInv, New, LeftTail
<1>6. Served' /\ Filled' /\ Synced' /\ Fresh'
  BY <1>1 DEF IInv, Served, Filled, Synced, Fresh
<1>7. Covered'
  <2> SUFFICES ASSUME NEW j \in 4 .. k + 1
               PROVE  view'[CoverWrites[j]] = Content("cover", gen, NoPass)
    BY <1>1, Order DEF Covered
  <2>1. c = Content("cover", gen, NoPass)
    BY <1>0, Order
  <2>2. CASE CoverWrites[j] = a
    BY <1>2, <2>1, <2>2
  <2>3. CASE CoverWrites[j] # a
    <3>1. j \in 4 .. k /\ CoverWrites[j] \in Area
      BY <1>0, <1>1, <2>3, Order, Kinds
    <3> QED
      BY <1>1, <1>2, <2>3, <3>1, Order DEF IInv, Covered
  <2> QED
    BY <2>2, <2>3
<1>8. said.name = "nothing"
  BY <1>1 DEF IInv, Said
<1>9. Said' /\ SanitizedSurvives'
  BY <1>1, <1>8 DEF Said, SanitizedSurvives
<1> QED
  BY <1>4, <1>5, <1>6, <1>7, <1>9 DEF IInv

(* A command is cut short, in the middle of a write or not. *)
LEMMA AbortStep ==
  ASSUME IInv, TypeOK', Abort
  PROVE  IInv'
<1>0. /\ view \in Target /\ durable \in Target /\ gen \in Nat /\ k \in Nat
      /\ view' \in Target /\ durable' \in Target /\ left \in SUBSET Area
  BY Phases DEF TypeOK, Target
<1>1. /\ pc # "idle" /\ pc' = "idle" /\ durable' = durable /\ gen' = gen /\ said' = said
      /\ serving' = serving /\ wrote' = wrote /\ lost' = lost /\ left' = left
  BY DEF Abort, Idle, user
<1>2. AllMixed' /\ Whole'
  <2>1. CASE view' = view
    BY <1>1, <2>1 DEF IInv, AllMixed, Whole, Stray
  <2>2. CASE pc = "fill" /\ k < 6 /\ FillStops
    <3>1. \A b \in Area : view'[b] \in {view[b], durable[b], Part(view[b]), Random}
      BY <1>0, <2>2, Stops
    <3>2. AllMixed'
      BY <1>0, <1>1, <3>1, CopiesMixed DEF IInv
    <3> QED
      BY <1>0, <1>1, <2>2, <3>2, Stops
  <2>3. CASE pc = "cover" /\ k < 6 /\ CoverStops
    <3> DEFINE a == CoverWrites[k + 1]
    <3>1. a \in Structure /\ a \in Area /\ view[a] \in Contents
      BY <1>0, <2>3, Order, Kinds DEF Target
    <3>2. /\ \/ view'[a] = Over(view[a], gen)
             \/ view'[a] = Content("cover", gen, NoPass)
          /\ \A b \in Area : b # a => view'[b] = view[b]
      BY <1>0, <2>3, <3>1 DEF CoverStops, Target
    <3>3. \/ view'[a] = Part(view[a])
          \/ view'[a].gen = gen /\ view'[a].what \in {"part", "cover"}
      BY <1>0, <3>1, <3>2, Overs DEF Content
    <3> QED
      BY <1>0, <1>1, <2>3, <3>1, <3>2, <3>3, CoverPut
  <2>4. CASE pc = "header" /\ view' = [view EXCEPT !["header"] = Over(@, gen)]
    <3>1. /\ "header" \in Area /\ view["header"] \in Contents
      BY <1>0, Kinds DEF Target
    <3>2. /\ view'["header"] = Over(view["header"], gen)
          /\ \A b \in Area : b # "header" => view'[b] = view[b]
      BY <1>0, <2>4, <3>1 DEF Target
    <3>3. \/ view'["header"] = Part(view["header"])
          \/ view'["header"].gen = gen /\ view'["header"].what = "part"
      BY <1>0, <3>1, <3>2, Overs
    <3>4. view'["header"].what # "header"
      BY <3>1, <3>3, Parts
    <3>5. AllMixed'
      <4>1. CASE view'["header"] = Part(view["header"])
        <5>1. \A b \in Area : view'[b] \in {view[b], durable[b], Part(view[b]), Random}
          BY <3>2, <4>1
        <5> QED
          BY <1>0, <1>1, <5>1, CopiesMixed DEF IInv
      <4>2. CASE view'["header"].gen = gen
        <5>1. /\ NewOf(view, gen, left) /\ NoHeader(view, gen, left)
              /\ NewOf(durable, gen, left) /\ NoHeader(durable, gen, left)
          BY <2>4 DEF IInv, New
        <5> QED
          BY <1>0, <1>1, <3>1, <3>2, <3>4, <4>2, <5>1, PutMixed DEF IInv
      <4> QED
        BY <3>3, <4>1, <4>2
    <3> QED
      BY <3>4, <3>5 DEF Whole
  <2> QED
    BY <2>1, <2>2, <2>3, <2>4, Order DEF Abort
<1>3. Served' /\ LeftTail' /\ Filled' /\ Covered' /\ Fresh' /\ New' /\ Synced'
  BY <1>1 DEF IInv, Served, LeftTail, Filled, Covered, Fresh, New, Synced
<1>4. said.name = "nothing"
  BY <1>1 DEF IInv, Said
<1>5. Said' /\ SanitizedSurvives'
  BY <1>1, <1>4 DEF Said, SanitizedSurvives
<1> QED
  BY <1>2, <1>3, <1>5 DEF IInv

(* The fsync of write_structures. *)
LEMMA CoverSyncStep ==
  ASSUME IInv, TypeOK', CoverSync
  PROVE  IInv'
<1>0. /\ view \in Target /\ durable \in Target /\ gen \in Nat /\ left \in SUBSET Area
      /\ view' \in Target /\ durable' \in Target
  BY Phases DEF TypeOK, Target
<1>1. /\ pc = "cover" /\ k = 6 /\ pc' = "header" /\ view' = view /\ durable' = view
      /\ gen' = gen /\ said' = said /\ left' = left
      /\ serving' = serving /\ wrote' = wrote /\ lost' = lost
  BY Order DEF CoverSync, CoverEnds, user, history
<1>2. AllMixed'
  BY <1>0, <1>1, CopiesMixed DEF IInv
<1>3. Served' /\ LeftTail' /\ Filled' /\ Covered' /\ Fresh'
  BY <1>1 DEF IInv, Served, LeftTail, Filled, Covered, Fresh
<1>4. New'
  BY <1>1 DEF IInv, New
<1>5. Synced'
  <2> SUFFICES ASSUME NEW a \in Structure PROVE view[a] = Content("cover", gen, NoPass)
    BY <1>1 DEF Synced, Standing
  <2>1. PICK j \in 4 .. 6 : a = CoverWrites[j]
    BY Order
  <2> QED
    BY <1>1, <2>1, Order DEF IInv, Covered
<1>6. said.name = "nothing"
  BY <1>1 DEF IInv, Said
<1>7. Said' /\ SanitizedSurvives'
  BY <1>1, <1>6 DEF Said, SanitizedSurvives
<1>8. Whole'
  BY <1>1 DEF IInv, Whole, Stray
<1> QED
  BY <1>2, <1>3, <1>4, <1>5, <1>7, <1>8 DEF IInv

(* The header is written, and format is done. *)
LEMMA HeaderStep ==
  ASSUME IInv, TypeOK', WriteHeader
  PROVE  IInv'
<1> DEFINE h == Content("header", gen, cmd.pass)
<1>0. /\ view \in Target /\ durable \in Target /\ gen \in Nat
      /\ view' \in Target /\ durable' \in Target
  BY Phases DEF TypeOK, Target
<1>1. /\ pc = "header" /\ pc' = "idle" /\ durable' = durable /\ gen' = gen /\ left' = left
      /\ said'.name = "formatted" /\ said'.pass = cmd.pass
      /\ serving' = serving /\ wrote' = {} /\ lost' = FALSE
  BY DEF WriteHeader, HeaderDone, Idle, user
<1>2. /\ view'["header"] = h
      /\ \A b \in Area : b # "header" => view'[b] = view[b]
  BY <1>0, Kinds DEF WriteHeader, HeaderDone, Target
<1>3. h.what = "header" /\ h.gen = gen /\ h.pass = cmd.pass
  BY DEF Content
<1>4. /\ NewOf(view, gen, left) /\ NewOf(durable, gen, left) /\ NoHeader(durable, gen, left)
      /\ Standing(view, gen) /\ Standing(durable, gen)
  BY <1>1 DEF IInv, New, Synced
<1>5. Standing(view', gen) /\ Standing(durable', gen)
  BY <1>1, <1>2, <1>4, Kinds DEF Standing
<1>6. NewOf(view', gen, left) /\ NewOf(durable', gen, left)
  BY <1>1, <1>2, <1>3, <1>4 DEF NewOf, Stray
<1>7. view'["boot"].gen = gen /\ durable'["boot"].gen = gen
  BY <1>5, Kinds DEF Standing, Content
<1>8. AllMixed'
  <2>1. ASSUME NEW t \in {view', durable'}, NEW u \in {view', durable'}
        PROVE  Mixed(t, u, left)
    <3>1. Under(t, u, left)
      BY <1>0, <1>6, <1>7 DEF Under, NewOf
    <3>2. Complete(t, u, left)
      <4>1. ASSUME NEW a \in Structure
            PROVE  u[a].what = "cover" /\ u[a].gen = gen
        BY <1>5, <4>1 DEF Standing, Content
      <4>2. CASE t["header"].what = "header" /\ t["header"].gen = gen
        BY <4>1, <4>2 DEF Complete
      <4>3. CASE "header" \in left /\ t["header"].gen < gen
        <5>1. t["header"].gen \in Nat
          BY <1>0, Kinds, ContentsFields DEF Target
        <5> QED
          BY <1>0, <4>1, <4>3, <5>1 DEF Complete
      <4>4. CASE t["header"] = Random
        BY <4>4, Kinds DEF Complete
      <4> QED
        BY <1>1, <1>2, <1>3, <1>4, <4>2, <4>3, <4>4 DEF NoHeader
    <3> QED
      BY <3>1, <3>2 DEF Mixed
  <2>2. durable["header"].gen <= gen
    BY DEF IInv, AllMixed
  <2> QED
    BY <1>0, <1>1, <1>2, <1>3, <1>7, <2>1, <2>2 DEF AllMixed
<1>9. Served' /\ LeftTail' /\ Filled' /\ Covered' /\ Fresh' /\ New' /\ Synced'
  BY <1>1 DEF IInv, Served, LeftTail, Filled, Covered, Fresh, New, Synced
<1>10. Said' /\ SanitizedSurvives' /\ Whole'
  BY <1>1, <1>2, <1>3, <1>5 DEF Said, SanitizedSurvives, Whole
<1> QED
  BY <1>8, <1>9, <1>10 DEF IInv

(* A user of a device writes to the payload.  Either the header it was     *)
(* opened with is still there, and the data is as old as the cover, or it  *)
(* is not, and the data is stray.                                          *)
LEMMA WriteStep ==
  ASSUME IInv, TypeOK', NEW header \in serving, NEW a \in Payload, Write(header, a)
  PROVE  IInv'
<1> DEFINE c == IF Current(header) THEN Content("data", header.gen, header.pass) ELSE Astray
<1>0. /\ view \in Target /\ durable \in Target /\ gen \in Nat /\ k \in Nat
      /\ view' \in Target /\ durable' \in Target /\ a \in Area
      /\ a # "header" /\ a # "boot" /\ a \notin Structure /\ a = "payload"
  BY Phases, Kinds DEF TypeOK, Target
<1>1. /\ durable' = durable /\ gen' = gen /\ said' = said /\ pc' = pc /\ k' = k
      /\ serving' = serving /\ lost' = lost /\ left' = left /\ cmd' = cmd
  BY DEF Write, user
<1>2. /\ view'[a] = c
      /\ \A b \in Area : b # a => view'[b] = view[b]
  BY <1>0 DEF Write, Target
<1>3. Current(header) => c.gen = header.gen /\ c.what = "data"
  BY DEF Content
<1>4. header.what = "header"
  BY DEF IInv, Served
<1>5. view'["boot"] = view["boot"] /\ view'["header"] = view["header"]
  BY <1>0, <1>2, Kinds
<1>6. Current(header) => /\ view["boot"].what = "cover" /\ view["header"] = header
                         /\ view["header"].what = "header"
  BY <1>4 DEF Current
<1>7. ~Current(header) => a \in Stray(view')
  BY <1>2, <1>3 DEF Stray
<1>8. \A b \in Area : b # a /\ b \in Stray(view) => b \in Stray(view')
  BY <1>2 DEF Stray
<1>9. \A b \in Structure : view'[b] = view[b]
  BY <1>0, <1>2, Kinds
<1>10. AllMixed' /\ LeftTail'
  <2>1. ASSUME NEW t \in {view', durable}
        PROVE  Mixed(t, view', left) /\ Mixed(t, durable, left)
    <3>1. PICK u \in {view, durable} : /\ u["boot"] = t["boot"] /\ u["header"] = t["header"]
      BY <1>5
    <3>2. Mixed(u, view, left) /\ Mixed(u, durable, left)
      BY DEF IInv, AllMixed
    <3>3. Mixed(t, durable, left)
      BY <3>1, <3>2 DEF Mixed, Under, Complete
    <3>4. Complete(t, view', left)
      BY <1>9, <3>1, <3>2 DEF Mixed, Complete
    <3>5. Under(t, view', left)
      <4> SUFFICES ASSUME t["boot"].what = "cover", NEW b \in Area
                   PROVE  \/ view'[b] = Random
                          \/ view'[b].gen >= t["boot"].gen
                          \/ b \in Stray(view') \cup left
        BY DEF Under
      <4>1. CASE b # a
        BY <1>2, <1>8, <3>1, <3>2, <4>1 DEF Mixed, Under
      <4>2. CASE b = a /\ ~Current(header)
        BY <1>7, <4>2
      <4>3. CASE b = a /\ Current(header)
        <5>1. view["header"] # Random /\ "header" \notin Stray(view) /\ "header" \in Area
          BY <1>6, <4>3, Kinds, Phases
        <5>2. view["header"].gen >= t["boot"].gen \/ "header" \in left
          BY <3>1, <3>2, <5>1 DEF Mixed, Under
        <5>3. "header" \in left => a \in left
          BY <1>0 DEF IInv, LeftTail
        <5> QED
          BY <1>2, <1>3, <1>6, <4>3, <5>2, <5>3
      <4> QED
        BY <4>1, <4>2, <4>3
    <3> QED
      BY <3>3, <3>4, <3>5 DEF Mixed
  <2>2. /\ view["boot"].gen <= gen /\ durable["boot"].gen <= gen
        /\ view["header"].gen <= gen /\ durable["header"].gen <= gen
    BY DEF IInv, AllMixed
  <2> QED
    BY <1>1, <1>5, <2>1, <2>2 DEF IInv, AllMixed, LeftTail
<1>11. Served'
  BY <1>1 DEF IInv, Served
<1>12. Filled'
  <2> SUFFICES ASSUME pc = "fill", NEW j \in 1 .. k PROVE Clean(view', Areas[j])
    BY <1>1 DEF IInv, Filled
  <2>1. Clean(view, Areas[j]) /\ Areas[j] \in Area
    <3>1. k <= 6 /\ Clean(view, Areas[j])
      BY Order DEF IInv, Filled
    <3>2. j \in 1 .. 6
      BY <1>0, <3>1
    <3> QED
      BY <3>1, <3>2, Order
  <2>2. CASE Areas[j] # a
    BY <1>2, <1>8, <2>1, <2>2 DEF Clean
  <2>3. CASE Areas[j] = a
    <3>1. view["boot"] = Random
      BY <1>0, Phases
    <3>2. ~Current(header)
      BY <1>6, <3>1, Kinds
    <3> QED
      BY <1>7, <2>3, <3>2 DEF Clean
  <2> QED
    BY <2>2, <2>3
<1>13. Covered'
  <2> SUFFICES ASSUME pc = "cover", NEW j \in ZeroWrites + 1 .. k
               PROVE  view'[CoverWrites[j]] = Content("cover", gen, NoPass)
    BY <1>1 DEF Covered
  <2>1. CoverWrites[j] \in Structure
    BY Order DEF IInv, TypeOK
  <2> QED
    BY <1>9, <2>1 DEF IInv, Covered
<1>14. New' /\ Synced' /\ Fresh'
  <2>1. Synced' /\ Fresh'
    BY <1>1, <1>5, <1>9 DEF IInv, Synced, Standing, Fresh
  <2>2. ASSUME pc \in {"cover", "header"}
        PROVE  NewOf(view', gen, left) /\ NoHeader(view', gen, left)
    <3>1. NoHeader(view, gen, left) /\ NewOf(view, gen, left)
      BY <2>2 DEF IInv, New
    <3>2. a \in Stray(view') \cup left
      <4>1. Current(header) => "header" \in left
        BY <1>6, <3>1, Kinds DEF NoHeader
      <4> QED
        BY <1>0, <1>7, <4>1 DEF IInv, LeftTail
    <3> QED
      BY <1>2, <1>5, <1>8, <3>1, <3>2 DEF NewOf, NoHeader
  <2>3. New'
    BY <1>1, <2>2 DEF IInv, New
  <2> QED
    BY <2>1, <2>3
<1>15. Said'
  BY <1>1, <1>5, <1>9 DEF IInv, Said, Standing
<1>16. SanitizedSurvives'
  <2> SUFFICES ASSUME said.name = "sanitized"
               PROVE  /\ \A b \in Area \ (left \cup Stray(view')) : view'[b] = Random
                      /\ \A b \in Area \ (left \cup Stray(durable)) : durable[b] = Random
    BY <1>1 DEF SanitizedSurvives, Stray
  <2>1. /\ \A b \in Area \ (left \cup Stray(view)) : view[b] = Random
        /\ \A b \in Area \ (left \cup Stray(durable)) : durable[b] = Random
    BY DEF IInv, SanitizedSurvives
  <2>2. view["boot"] = Random \/ "boot" \in left
    BY <2>1, Phases, Kinds
  <2>3. a \in Stray(view') \cup left
    BY <1>0, <1>6, <1>7, <2>2, Kinds DEF IInv, LeftTail
  <2> QED
    BY <1>2, <1>8, <2>1, <2>3
<1>17. Whole'
  <2> SUFFICES ASSUME view["header"].what = "header", ~lost, NEW b \in wrote'
               PROVE  \/ view'[b].what = "data" /\ view'[b].gen = view["header"].gen
                      \/ b \in Stray(view')
    BY <1>1, <1>5 DEF Whole
  <2>1. CASE b = a
    BY <1>2, <1>3, <1>6, <1>7, <2>1
  <2>2. CASE b # a
    <3>1. b \in wrote /\ b \in Area
      BY <2>2, Kinds DEF Write, IInv, TypeOK
    <3>2. (view[b].what = "data" /\ view[b].gen = view["header"].gen) \/ b \in Stray(view)
      BY <3>1 DEF IInv, Whole
    <3> QED
      BY <1>2, <1>8, <2>2, <3>1, <3>2
  <2> QED
    BY <2>1, <2>2
<1> QED
  BY <1>10, <1>11, <1>12, <1>13, <1>14, <1>15, <1>16, <1>17 DEF IInv

(* The page cache is written back, by an fsync or on its own. *)
LEMMA WriteBackStep ==
  ASSUME IInv, TypeOK', view' = view, gen' = gen, said' = said, pc' = pc, k' = k, cmd' = cmd,
         serving' = serving, wrote' = wrote, lost' = lost, left' = left,
         \A b \in Area : durable'[b] = view[b] \/ durable'[b] = durable[b]
  PROVE  IInv'
<1>0. /\ view \in Target /\ durable \in Target /\ gen \in Nat /\ left \in SUBSET Area
      /\ view' \in Target /\ durable' \in Target
  BY Phases DEF TypeOK, Target
<1>1. AllMixed'
  BY <1>0, CopiesMixed DEF IInv
<1>2. Served' /\ LeftTail' /\ Filled' /\ Covered'
  BY DEF IInv, Served, LeftTail, Filled, Covered, Clean, Stray
<1>3. Synced' /\ Fresh'
  BY Kinds DEF IInv, Synced, Standing, Fresh
<1>4. New'
  <2> SUFFICES ASSUME pc \in {"cover", "header"}
               PROVE  NewOf(durable', gen, left) /\ NoHeader(durable', gen, left)
    BY DEF IInv, New
  <2>1. /\ NewOf(view, gen, left) /\ NoHeader(view, gen, left)
        /\ NewOf(durable, gen, left) /\ NoHeader(durable, gen, left)
    BY DEF IInv, New
  <2> QED
    BY <2>1, Kinds DEF NewOf, NoHeader, Stray
<1>5. Said' /\ Whole'
  BY Kinds DEF IInv, Said, Standing, Whole, Stray
<1>6. SanitizedSurvives'
  BY DEF IInv, SanitizedSurvives, Stray
<1> QED
  BY <1>1, <1>2, <1>3, <1>4, <1>5, <1>6 DEF IInv

(* The power is lost. *)
LEMMA PowerStep ==
  ASSUME IInv, TypeOK', PowerLoss
  PROVE  IInv'
<1>0. /\ view \in Target /\ durable \in Target /\ gen \in Nat /\ left \in SUBSET Area
      /\ view' \in Target /\ durable' \in Target
  BY Phases DEF TypeOK, Target
<1>1. /\ view' = durable /\ durable' = durable /\ gen' = gen /\ said' = said /\ left' = left
      /\ pc' = "idle" /\ serving' = {} /\ lost' = TRUE
  BY DEF PowerLoss, Idle
<1>2. AllMixed'
  BY <1>0, <1>1, CopiesMixed DEF IInv
<1>3. Served' /\ Filled' /\ Covered' /\ Fresh' /\ New' /\ Synced'
  BY <1>1 DEF Served, Filled, Covered, Fresh, New, Synced
<1>4. Said' /\ Whole' /\ LeftTail'
  BY <1>1 DEF IInv, Said, Whole, LeftTail
<1>5. SanitizedSurvives'
  BY <1>1 DEF IInv, SanitizedSurvives, Stray
<1> QED
  BY <1>2, <1>3, <1>4, <1>5 DEF IInv

(* Every step preserves the invariant. *)
LEMMA NextIInv == IInv /\ [Next]_vars => IInv'
<1> SUFFICES ASSUME IInv, [Next]_vars PROVE IInv'
  OBVIOUS
<1>0. TypeOK'
  BY TypeStep DEF IInv
<1>1. ASSUME NEW pass \in Passwords, Format(pass)
      PROVE  IInv'
  BY <1>0, <1>1, BeginStep DEF Format
<1>2. CASE Sanitize
  BY <1>0, <1>2, BeginStep DEF Sanitize
<1>3. CASE Fill
  BY <1>0, <1>3, FillStep
<1>4. CASE FillSync
  BY <1>0, <1>4, FillSyncStep
<1>5. CASE Cover
  BY <1>0, <1>5, CoverStep
<1>6. CASE CoverSync
  BY <1>0, <1>6, CoverSyncStep
<1>7. CASE WriteHeader
  BY <1>0, <1>7, HeaderStep
<1>8. CASE FindHeader \/ GiveUp \/ UNCHANGED vars
  <2>1. serving' = serving
    BY <1>8 DEF FindHeader, GiveUp, vars, user
  <2>2. Served'
    BY <2>1 DEF IInv, Served
  <2> QED
    BY <1>0, <1>8, <2>2, QuietStep DEF FindHeader, GiveUp, vars, user, history
<1>9. ASSUME NEW pass \in Passwords, Open(pass)
      PROVE  IInv'
  <2>1. Served'
    BY <1>9 DEF IInv, Served, Open
  <2> QED
    BY <1>0, <1>9, <2>1, QuietStep DEF Open, history
<1>10. ASSUME NEW header \in serving, Close(header)
       PROVE  IInv'
  <2>1. Served'
    BY <1>10 DEF IInv, Served, Close
  <2> QED
    BY <1>0, <1>10, <2>1, QuietStep DEF Close, history
<1>11. ASSUME NEW header \in serving, NEW a \in Payload, Write(header, a)
       PROVE  IInv'
  BY <1>0, <1>11, WriteStep
<1>12. CASE Flush
  BY <1>0, <1>12, WriteBackStep DEF Flush, user, history
<1>13. ASSUME NEW a \in Area, WriteBack(a)
       PROVE  IInv'
  <2>1. durable \in Target
    BY Phases
  <2>2. \A b \in Area : durable'[b] = view[b] \/ durable'[b] = durable[b]
    BY <1>13, <2>1 DEF WriteBack, Target
  <2> QED
    BY <1>0, <1>13, <2>2, WriteBackStep DEF WriteBack, user, history
<1>14. CASE PowerLoss
  BY <1>0, <1>14, PowerStep
<1>15. CASE Abort
  BY <1>0, <1>15, AbortStep
<1> QED
  BY <1>1, <1>2, <1>3, <1>4, <1>5, <1>6, <1>7, <1>8, <1>9, <1>10, <1>11, <1>12, <1>13,
     <1>14, <1>15 DEF Next

(* The invariant holds in every reachable state. *)
THEOREM Inductive == Spec => []IInv
  BY InitIInv, NextIInv, PTL DEF Spec

-----------------------------------------------------------------------------
(* The variables of the life of a target keep their types. *)
THEOREM Types == Spec => []TypeOK
<1>1. IInv => TypeOK
  BY DEF IInv
<1> QED
  BY <1>1, Inductive, PTL

(* Under a cover filesystem there is nothing older than itself but what    *)
(* short writes of the fill missed, none of the structures among that once *)
(* format is done, and what devices of earlier headers still write to the  *)
(* payload, however many commands were cut short (sanitize_disk,           *)
(* io.rs:460, 523).                                                        *)
THEOREM NothingOld == Spec => []NothingOldUnderCover
<1>1. ASSUME IInv
      PROVE  NothingOldUnderCover
  <2> SUFFICES ASSUME view["boot"].what = "cover", NEW a \in Area, Old(a)
               PROVE  a \in left /\ (said.name = "formatted" => a \notin Structure)
    BY DEF NothingOldUnderCover
  <2>1. view[a].gen \in Nat /\ view["boot"].gen \in Nat
    BY <1>1, Phases, Kinds, ContentsFields DEF Target
  <2>2. a \in left
    BY <1>1, <2>1 DEF IInv, AllMixed, Mixed, Under, Old
  <2>3. said.name = "formatted" /\ a \in Structure => view[a].gen = view["boot"].gen
    BY <1>1, Kinds DEF IInv, Said, Standing, Content
  <2> QED
    BY <2>1, <2>2, <2>3 DEF Old
<1>2. IInv => NothingOldUnderCover
  BY <1>1
<1> QED
  BY <1>2, Inductive, PTL

(* A header is never found on a target whose cover filesystem is not       *)
(* complete, unless a later fill has begun to destroy that, or has missed  *)
(* the header (write_structures, msfat32.rs:677).                          *)
THEOREM HeaderHasCover == Spec => []HeaderNeedsCover
<1>1. IInv => HeaderNeedsCover
  BY DEF IInv, AllMixed, Mixed, Complete, HeaderNeedsCover
<1> QED
  BY <1>1, Inductive, PTL

(* What format said is so while the power lasts: the target opens with its *)
(* password and with no other (format, format.rs:61).                      *)
THEOREM FormattedOpens == Spec => []PoweredOpens
<1>1. ASSUME IInv
      PROVE  PoweredOpens
  <2>1. said.name = "formatted" => view["boot"].what = "cover"
    BY <1>1, Kinds DEF IInv, Said, Standing, Content
  <2> QED
    BY <1>1, <2>1 DEF IInv, Said, PoweredOpens, OpensAsSaid, Opens
<1>2. IInv => PoweredOpens
  BY <1>1
<1> QED
  BY <1>2, Inductive, PTL

(* What opens is whole while the machine keeps its power, whatever         *)
(* commands were cut short and whatever a fill missed (sanitize_disk,      *)
(* io.rs:485).                                                             *)
THEOREM OpenedWhole == Spec => []OpenedIsWhole
<1>1. IInv => OpenedIsWhole
  BY DEF IInv, Whole, OpenedIsWhole, Opens
<1> QED
  BY <1>1, Inductive, PTL

(* What sanitize said is so for ever, in the areas that its fill reached   *)
(* the end of (sanitize, sanitize.rs:5; io.rs:460).                        *)
THEOREM SanitizedIsFinal == Spec => []SanitizedSurvives
<1>1. IInv => SanitizedSurvives
  BY DEF IInv
<1> QED
  BY <1>1, Inductive, PTL
=============================================================================
