--------------------------- MODULE UblkRefinement ---------------------------
(***************************************************************************)
(* The queues, the cipher and the chunked transfers of UblkTarget          *)
(* implement the block device of ShadowDevice.  The data of the device is  *)
(* the payload area of the target, decrypted; its stable copy is the       *)
(* durable content of that area, decrypted.                                *)
(***************************************************************************)
EXTENDS UblkTarget

Unanswered == [res |-> 0, val |-> <<>>]

(* A request is pending until the task has its result; the slot is free    *)
(* again when the driver has it.                                           *)
SlotState(t) ==
  IF pc[t] \in {"queued", "io", "dropped"} THEN "pending"
  ELSE IF pc[t] \in {"commit", "failed"} THEN "answered"
  ELSE "none"

Moved(t) ==
  IF iod[t].op = "WRITE" THEN Offset(iod[t]) .. Offset(iod[t]) + done[t] - 1 ELSE {}

Reply(t) ==
  IF pc[t] \in {"commit", "failed"}
  THEN [res |-> res[t], val |-> IF iod[t].op = "READ" THEN buf[t] ELSE <<>>]
  ELSE Unanswered

States  == [t \in Task |-> SlotState(t)]
Applied == [t \in Task |-> Moved(t)]
Replies == [t \in Task |-> Reply(t)]

Shadow == INSTANCE ShadowDevice WITH
  Request     <- Requests,
  Size        <- ShadowSize,
  SectorWords <- WordsPerSector,
  MaxLength   <- IoBufLen,
  NoAnswer    <- Unanswered,
  data        <- Plain(backing),
  stable      <- Plain(durable),
  st          <- States,
  rq          <- iod,
  applied     <- Applied,
  seen        <- seen,
  ans         <- Replies

(* What the block layer sees of `hazmat open` is a behaviour of the plain  *)
(* block device of ShadowDevice: encryption by LBA, concurrency of tags    *)
(* and queues, short transfers, failing calls, write-back, a signal and a  *)
(* power loss included (open.rs:83-148).                                   *)
ImplementsShadow == Shadow!Spec
=============================================================================
