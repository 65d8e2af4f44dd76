---------------------------- MODULE FlushHistory ----------------------------
(***************************************************************************)
(* What a flush is worth: UblkTarget with a history of the values that     *)
(* every word of the device has held since the last flush that was         *)
(* answered with success.  The history reads the steps of UblkTarget and   *)
(* decides none of them.                                                   *)
(***************************************************************************)
EXTENDS UblkRefinement

VARIABLE kept  \* per word of the device, its values since the last flush

histVars == <<vars, kept>>

(* A task gives the driver the answer of a flush that succeeded. *)
Flushed ==
  \E t \in Task : /\ pc[t] = "io" /\ iod[t].op = "FLUSH"
                  /\ pc'[t] = "commit" /\ res'[t] = 0

Present(b) == [a \in ShadowAddr |-> {Plain(b)[a]}]

Record ==
  kept' = IF Flushed THEN Present(backing')
          ELSE [a \in ShadowAddr |-> kept[a] \cup Present(backing')[a]]

HistInit == Init /\ kept = Present(backing)

HistNext == Next /\ Record

HistSpec == HistInit /\ [][HistNext]_histVars

(* What was flushed survives: at any instant the stable copy of the        *)
(* target, which is all that a power loss leaves, has for every word a     *)
(* value that the word held when the last flush was answered or later,     *)
(* whatever was written by other tags, cut short, failed, killed or lost   *)
(* in between (flush_result, open.rs:104; IoDevice::sync, io.rs:237).      *)
FlushedSurvives ==
  \A a \in ShadowAddr : Plain(durable)[a] \in kept[a]
=============================================================================
