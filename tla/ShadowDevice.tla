---------------------------- MODULE ShadowDevice ----------------------------
(***************************************************************************)
(* What the block device exposed by `hazmat open` promises to the kernel's *)
(* block layer, with no cipher, no queues and no backing file: an array of *)
(* words, requests in flight, and a stable copy that survives a power      *)
(* loss.                                                                   *)
(*                                                                         *)
(*   - a write takes effect word by word, in any order, between its        *)
(*     submission and its answer, and only a write in flight changes data; *)
(*   - a successful write has taken effect in full;                        *)
(*   - a successful read returns for each word a value the word held while *)
(*     the read was in flight;                                             *)
(*   - a successful flush makes stable everything written before some      *)
(*     instant of its flight;                                              *)
(*   - a request that fails may have had any part of its effect;           *)
(*   - a power loss puts the stable copy back, the end of the server does  *)
(*     not change the data.                                                *)
(***************************************************************************)
EXTENDS Integers

CONSTANTS Task,        \* slots for requests in flight
          Request,     \* requests the driver may submit
          Word,        \* values of a word
          Size,        \* words of the device
          SectorWords, \* words of a sector
          MaxLength,   \* words of the largest request
          NoRequest, NoAnswer \* what an unused slot holds

VARIABLES data,    \* the device as every reader sees it
          stable,  \* the copy that survives a power loss
          st,      \* "none", "pending" or "answered"
          rq,      \* the request of a slot
          applied, \* words a pending write has already changed
          seen,    \* values each word of a pending read has held
          ans      \* result and data of an answered request

vars == <<data, stable, st, rq, applied, seen, ans>>

Addr == 0 .. Size - 1

First(r) == r.start * SectorWords
Length(r) == r.nr * SectorWords
Extent(r) == First(r) .. First(r) + Length(r) - 1

Valid(r) == Length(r) <= MaxLength /\ First(r) + Length(r) <= Size

Writes(r) == r.op = "WRITE" /\ Valid(r)
Reads(r)  == r.op = "READ" /\ Valid(r)

Pending(t) == st[t] = "pending"

(* Every read in flight takes note of the values of newData. *)
Witness(newData) ==
  seen' = [t \in Task |->
             IF Pending(t) /\ Reads(rq[t])
             THEN [a \in Extent(rq[t]) |-> seen[t][a] \cup {newData[a]}]
             ELSE seen[t]]

Init ==
  /\ data \in [Addr -> Word]
  /\ stable = data
  /\ st = [t \in Task |-> "none"]
  /\ rq = [t \in Task |-> NoRequest]
  /\ applied = [t \in Task |-> {}]
  /\ seen = [t \in Task |-> <<>>]
  /\ ans = [t \in Task |-> NoAnswer]

Submit(t, r) ==
  /\ st[t] = "none"
  /\ st' = [st EXCEPT ![t] = "pending"]
  /\ rq' = [rq EXCEPT ![t] = r]
  /\ applied' = [applied EXCEPT ![t] = {}]
  /\ seen' = [seen EXCEPT ![t] =
                IF Reads(r) THEN [a \in Extent(r) |-> {data[a]}] ELSE <<>>]
  /\ UNCHANGED <<data, stable, ans>>

Apply(t, W) ==
  /\ Pending(t)
  /\ Writes(rq[t])
  /\ data' = [a \in Addr |->
                IF a \in W THEN rq[t].data[a - First(rq[t])] ELSE data[a]]
  /\ applied' = [applied EXCEPT ![t] = @ \cup W]
  /\ Witness(data')
  /\ UNCHANGED <<stable, st, rq, ans>>

(* A flush takes effect and is answered. *)
Flush(t) ==
  /\ Pending(t)
  /\ rq[t].op = "FLUSH"
  /\ stable' = data
  /\ st' = [st EXCEPT ![t] = "answered"]
  /\ ans' = [ans EXCEPT ![t] = [res |-> 0, val |-> <<>>]]
  /\ UNCHANGED <<data, rq, applied, seen>>

Answer(t, a) ==
  /\ Pending(t)
  /\ a.res >= 0 =>
       \/ /\ Writes(rq[t])
          /\ applied[t] = Extent(rq[t])
          /\ a.res = Length(rq[t])
       \/ /\ Reads(rq[t])
          /\ a.res = Length(rq[t])
          /\ \A k \in 0 .. a.res - 1 : a.val[k] \in seen[t][First(rq[t]) + k]
  /\ st' = [st EXCEPT ![t] = "answered"]
  /\ ans' = [ans EXCEPT ![t] = a]
  /\ UNCHANGED <<data, stable, rq, applied, seen>>

Retire(t) ==
  /\ st[t] = "answered"
  /\ st' = [st EXCEPT ![t] = "none"]
  /\ rq' = [rq EXCEPT ![t] = NoRequest]
  /\ applied' = [applied EXCEPT ![t] = {}]
  /\ seen' = [seen EXCEPT ![t] = <<>>]
  /\ ans' = [ans EXCEPT ![t] = NoAnswer]
  /\ UNCHANGED <<data, stable>>

Persist(W) ==
  /\ stable' = [a \in Addr |-> IF a \in W THEN data[a] ELSE stable[a]]
  /\ UNCHANGED <<data, st, rq, applied, seen, ans>>

(* The server ends, with the data or with what was stable of it. *)
End(survivor) ==
  /\ data' = survivor
  /\ st' = [t \in Task |-> "none"]
  /\ rq' = [t \in Task |-> NoRequest]
  /\ applied' = [t \in Task |-> {}]
  /\ seen' = [t \in Task |-> <<>>]
  /\ ans' = [t \in Task |-> NoAnswer]
  /\ UNCHANGED stable

Next ==
  \/ \E t \in Task, r \in Request : Submit(t, r)
  \/ \E t \in Task : \E W \in SUBSET Extent(rq[t]) : Apply(t, W)
  \/ \E t \in Task : Flush(t) \/ Retire(t) \/ Answer(t, ans'[t])
  \/ \E W \in SUBSET Addr : Persist(W)
  \/ End(data) \/ End(stable)

Spec == Init /\ [][Next]_vars
=============================================================================
