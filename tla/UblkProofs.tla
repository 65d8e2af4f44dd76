------------------------------ MODULE UblkProofs ----------------------------
(***************************************************************************)
(* Proofs about UblkTarget for every number of queues and tags, geometry,  *)
(* buffer length, key and set of requests: its variables keep their types, *)
(* and no sequence of requests, short transfers, failing calls, signals    *)
(* and power losses changes the target around the payload.                 *)
(***************************************************************************)
EXTENDS UblkTarget, SectorLemmas, FiniteSetTheorems

(* Positions of a buffer of n sectors: the sector of a word, its index in  *)
(* the sector, and every word of that sector are inside the buffer.        *)
LEMMA SectorIndex ==
  ASSUME NEW n \in Nat, NEW j \in 0 .. n * WordsPerSector - 1
  PROVE  /\ j \div WordsPerSector \in 0 .. n - 1
         /\ j % WordsPerSector \in WordIdx
         /\ \A i \in WordIdx : (j \div WordsPerSector) * WordsPerSector + i
                                 \in 0 .. n * WordsPerSector - 1
<1> DEFINE W == WordsPerSector
           q == j \div W
           r == j % W
<1>1. W \in Nat \ {0}
  BY WordAssumption
<1>2. j \in Nat /\ q \in Nat /\ r \in 0 .. W - 1 /\ j = q * W + r
  BY <1>1
<1> HIDE DEF W, q, r
<1>3. q < n
  <2> SUFFICES ASSUME q >= n PROVE FALSE
    BY <1>2
  <2>1. q * W >= n * W
    BY <1>1, <1>2
  <2> QED
    BY <1>1, <1>2, <2>1 DEF W
<1>4. ASSUME NEW i \in 0 .. W - 1
      PROVE  q * W + i \in 0 .. n * W - 1
  <2>1. (q + 1) * W <= n * W
    BY <1>1, <1>2, <1>3
  <2>2. (q + 1) * W = q * W + W /\ q * W \in Nat /\ n * W \in Nat
    BY <1>1, <1>2
  <2> QED
    BY <1>1, <1>2, <2>1, <2>2
<1> QED
  BY <1>2, <1>3, <1>4 DEF W, q, r, WordIdx

(* transform_sectors keeps the length of a buffer of whole sectors, and    *)
(* every word of the result is a word (open.rs:55).                        *)
LEMMA EncryptedType ==
  ASSUME NEW n \in Nat, NEW s \in Nat,
         NEW data \in [0 .. n * WordsPerSector - 1 -> Word]
  PROVE  Encrypted(s * WordsPerSector, data) \in [0 .. n * WordsPerSector - 1 -> Word]
<1> DEFINE l == StartingLba + (s * WordsPerSector) \div WordsPerSector
           D == 0 .. n * WordsPerSector - 1
           e(j) == EncryptSector(l + j \div WordsPerSector,
                                 Chunk(data, j \div WordsPerSector))[j % WordsPerSector]
<1>1. WordsPerSector \in Nat \ {0} /\ s * WordsPerSector \in Nat
  BY WordAssumption
<1>2. l \in Nat
  BY <1>1, GeometryAssumption
<1> HIDE DEF l
<1>3. ASSUME NEW j \in D
      PROVE  e(j) \in Word
  <2>1. /\ j \div WordsPerSector \in Nat
        /\ j % WordsPerSector \in WordIdx
        /\ \A i \in WordIdx : (j \div WordsPerSector) * WordsPerSector + i \in D
    BY SectorIndex
  <2>2. Chunk(data, j \div WordsPerSector) \in Sector
    BY <2>1 DEF Chunk, Sector
  <2>3. EncryptSector(l + j \div WordsPerSector, Chunk(data, j \div WordsPerSector))
          \in Sector
    BY <1>2, <2>1, <2>2, TransformType
  <2> QED
    BY <2>1, <2>3 DEF Sector
<1>4. Encrypted(s * WordsPerSector, data) = [j \in D |-> e(j)]
  BY DEF Encrypted, l
<1> QED
  BY <1>3, <1>4

(* A request that backing_offset accepts starts and ends inside the        *)
(* payload, so every word it moves is a word of a payload sector           *)
(* (open.rs:27).                                                           *)
LEMMA RangeInPayload ==
  ASSUME NEW r \in Requests, Valid(r), NEW j \in 0 .. Bytes(r) - 1
  PROVE  LET a == BackingOffset(Offset(r)) + j
         IN /\ a \in DiskAddr
            /\ a \div WordsPerSector \in StartingLba .. EndingLba
<1> DEFINE W == WordsPerSector
           a == BackingOffset(Offset(r)) + j
           b == a \div W
<1>1. /\ W \in Nat \ {0} /\ r.start \in Nat /\ r.nr \in Nat
      /\ StartingLba \in Nat /\ EndingLba \in Nat /\ DiskSectors \in Nat
      /\ StartingLba <= EndingLba /\ EndingLba < DiskSectors
  BY WordAssumption, GeometryAssumption, RequestAssumption
<1> HIDE DEF W
<1>2. (r.start * W) \div W = r.start
  BY <1>1
<1>3. BackingOffset(Offset(r)) = (StartingLba + r.start) * W
  BY <1>2 DEF BackingOffset, Offset, W
<1>4. r.start * W + r.nr * W <= (EndingLba - StartingLba + 1) * W
  BY DEF Valid, InRange, Offset, Bytes, ShadowSize, W
<1>5. j \in Nat /\ j < r.nr * W
  BY <1>1 DEF Bytes, W
<1>6. a < (EndingLba + 1) * W /\ StartingLba * W <= a /\ a \in Nat
  <2>1. (StartingLba + r.start) * W = StartingLba * W + r.start * W
    BY <1>1
  <2>2. (EndingLba - StartingLba + 1) * W = (EndingLba + 1) * W - StartingLba * W
    BY <1>1
  <2>3. /\ StartingLba * W \in Nat /\ r.start * W \in Nat
        /\ r.nr * W \in Nat /\ (EndingLba + 1) * W \in Nat
    BY <1>1
  <2> QED
    BY <1>3, <1>4, <1>5, <2>1, <2>2, <2>3
<1> HIDE DEF a
<1>7. (EndingLba + 1) * W <= DiskSectors * W /\ DiskSectors * W \in Nat
  BY <1>1
<1>8. b \in Nat /\ b * W <= a /\ a < (b + 1) * W
  BY <1>1, <1>6
<1> HIDE DEF b
<1>9. b <= EndingLba
  <2> SUFFICES ASSUME b >= EndingLba + 1 PROVE FALSE
    BY <1>1, <1>8
  <2>1. (EndingLba + 1) * W <= b * W
    BY <1>1, <1>8
  <2> QED
    BY <1>1, <1>6, <1>8, <2>1
<1>10. StartingLba <= b
  <2> SUFFICES ASSUME b + 1 <= StartingLba PROVE FALSE
    BY <1>1, <1>8
  <2>1. (b + 1) * W <= StartingLba * W
    BY <1>1, <1>8
  <2> QED
    BY <1>1, <1>6, <1>8, <2>1
<1> QED
  BY <1>1, <1>6, <1>7, <1>8, <1>9, <1>10 DEF a, b, W, DiskAddr

-----------------------------------------------------------------------------
(* What makes the safety properties inductive: a request in flight is one  *)
(* that was sent, its data is in the buffer until it is handled, and a     *)
(* write that touches the target has passed the checks of backing_offset   *)
(* and carries a buffer of whole encrypted sectors.                        *)
WriteOK(t) ==
  /\ pc[t] = "queued" /\ iod[t].op = "WRITE" => buf[t] = iod[t].data
  /\ pc[t] = "io" /\ iod[t].op = "WRITE" =>
       Valid(iod[t]) /\ buf[t] \in [0 .. Bytes(iod[t]) - 1 -> Word]

HandlerInv ==
  \A t \in Task :
    /\ pc[t] \in {"queued", "io", "commit"} => iod[t] \in Requests
    /\ WriteOK(t)

IInv == TypeOK /\ HandlerInv /\ OutsideUntouched

(* The first run queues name every task of the queue.                      *)
LEMMA SpawnedType == Spawned \in [Queue -> Seq(Task)]
<1>1. ASSUME NEW q \in Queue
      PROVE  [i \in 1 .. QueueDepth |-> <<q, i - 1>>] \in Seq(Task)
  <2>1. QueueDepth \in Nat
    BY GeometryAssumption
  <2>2. \A i \in 1 .. QueueDepth : <<q, i - 1>> \in Task
    BY <2>1 DEF Task, Queue
  <2> QED
    BY <2>1, <2>2
<1> QED
  BY <1>1 DEF Spawned

(* open starts with the target as it found it and every task spawned.      *)
LEMMA InitIInv == Init => IInv
<1> SUFFICES ASSUME Init PROVE IInv
  OBVIOUS
<1>1. TypeOK
  <2>1. backing \in [DiskAddr -> Word] /\ durable \in [DiskAddr -> Word]
    BY GeometryAssumption DEF Init
  <2>2. running \in BOOLEAN /\ down \in BOOLEAN
    BY DEF Init
  <2>3. pc \in [Task -> PC] /\ iod \in [Task -> Requests \cup {NoRequest}]
    BY DEF Init, AllTasks, PC
  <2>4. /\ done \in [Task -> Nat] /\ res \in [Task -> Int]
        /\ DOMAIN buf = Task /\ DOMAIN seen = Task
    BY DEF Init, AllTasks
  <2>5. runq \in [Queue -> Seq(Task)]
    BY SpawnedType DEF Init
  <2> QED
    BY <2>1, <2>2, <2>3, <2>4, <2>5 DEF TypeOK
<1>2. HandlerInv
  BY DEF Init, HandlerInv, WriteOK, AllTasks
<1>3. OutsideUntouched
  BY DEF Init, OutsideUntouched
<1> QED
  BY <1>1, <1>2, <1>3 DEF IInv

(* The end of the process keeps what is on the target.                     *)
LEMMA StoppedIInv ==
  ASSUME IInv, Stopped, backing' = backing \/ backing' = durable
  PROVE  IInv'
<1>1. TypeOK'
  <2>1. backing' \in [DiskAddr -> Word] /\ durable' \in [DiskAddr -> Word]
    BY DEF IInv, TypeOK, Stopped
  <2>2. running' \in BOOLEAN /\ down' \in BOOLEAN
    BY DEF Stopped
  <2>3. pc' \in [Task -> PC] /\ iod' \in [Task -> Requests \cup {NoRequest}]
    BY DEF Stopped, AllTasks, PC
  <2>4. /\ done' \in [Task -> Nat] /\ res' \in [Task -> Int]
        /\ DOMAIN buf' = Task /\ DOMAIN seen' = Task
    BY DEF Stopped, AllTasks
  <2>5. runq' \in [Queue -> Seq(Task)]
    BY SpawnedType DEF Stopped
  <2> QED
    BY <2>1, <2>2, <2>3, <2>4, <2>5 DEF TypeOK
<1>2. HandlerInv'
  BY DEF Stopped, HandlerInv, WriteOK, AllTasks
<1>3. OutsideUntouched'
  BY DEF IInv, Stopped, OutsideUntouched
<1> QED
  BY <1>1, <1>2, <1>3 DEF IInv

(* Polling a task shortens the run queue of its queue.                     *)
LEMMA PollType ==
  ASSUME TypeOK, NEW t \in Task, Poll(t)
  PROVE  runq' \in [Queue -> Seq(Task)]
<1>1. t[1] \in Queue
  BY DEF Task, Queue
<1>2. Tail(runq[t[1]]) \in Seq(Task)
  BY <1>1 DEF TypeOK, Poll
<1> QED
  BY <1>1, <1>2 DEF TypeOK, Poll

(* Waking a task lengthens the run queue of its queue.                     *)
LEMMA WakeType ==
  ASSUME TypeOK, NEW t \in Task, Wake(t)
  PROVE  runq' \in [Queue -> Seq(Task)]
<1>1. t[1] \in Queue
  BY DEF Task, Queue
<1>2. Append(runq[t[1]], t) \in Seq(Task)
  BY <1>1 DEF TypeOK
<1> QED
  BY <1>1, <1>2 DEF TypeOK, Wake

(* Every step preserves the invariant, one lemma for the actions of the    *)
(* driver, one for the polls, one for the calls on the target and one for  *)
(* what happens to the whole process.                                      *)
LEMMA DriverStep ==
  ASSUME IInv, NEW t \in Task
  PROVE  /\ \A r \in Requests : Submit(t, r) => IInv'
         /\ Abort(t) => IInv'
         /\ Commit(t) => IInv'
<1> USE DEF IInv
<1>1. ASSUME NEW r \in Requests, Submit(t, r) PROVE IInv'
  <2>1. runq' \in [Queue -> Seq(Task)]
    BY <1>1, WakeType DEF Submit
  <2>2. TypeOK'
    BY <1>1, <2>1 DEF TypeOK, Submit, PC
  <2>3. HandlerInv'
    BY <1>1 DEF TypeOK, HandlerInv, WriteOK, Submit
  <2>4. OutsideUntouched'
    BY <1>1 DEF OutsideUntouched, Submit
  <2> QED
    BY <2>2, <2>3, <2>4
<1>2. ASSUME Abort(t) PROVE IInv'
  <2>1. runq' \in [Queue -> Seq(Task)]
    BY <1>2, WakeType DEF Abort
  <2>2. TypeOK'
    BY <1>2, <2>1 DEF TypeOK, Abort, PC
  <2>3. HandlerInv'
    BY <1>2 DEF TypeOK, HandlerInv, WriteOK, Abort
  <2>4. OutsideUntouched'
    BY <1>2 DEF OutsideUntouched, Abort
  <2> QED
    BY <2>2, <2>3, <2>4
<1>3. ASSUME Commit(t) PROVE IInv'
  <2>1. TypeOK'
    <3>1. /\ iod' \in [Task -> Requests \cup {NoRequest}]
          /\ done' \in [Task -> Nat] /\ res' \in [Task -> Int]
          /\ DOMAIN buf' = Task /\ DOMAIN seen' = Task
      BY <1>3 DEF TypeOK, Commit
    <3> QED
      BY <1>3, <3>1 DEF TypeOK, Commit, PC
  <2>2. HandlerInv'
    BY <1>3 DEF TypeOK, HandlerInv, WriteOK, Commit
  <2>3. OutsideUntouched'
    BY <1>3 DEF OutsideUntouched, Commit
  <2> QED
    BY <2>1, <2>2, <2>3
<1> QED
  BY <1>1, <1>2, <1>3

(* The polls of a task: only Start reaches the target, with the buffer     *)
(* that transform_sectors has encrypted.                                   *)
LEMMA PollStep ==
  ASSUME IInv, NEW t \in Task
  PROVE  Prep(t) \/ Finish(t) \/ Reject(t) \/ Start(t) => IInv'
<1> USE DEF IInv
<1>1. ASSUME Poll(t) PROVE OutsideUntouched'
  BY <1>1 DEF OutsideUntouched, Poll
<1>2. ASSUME Prep(t) \/ Finish(t) PROVE IInv'
  <2>1. runq' \in [Queue -> Seq(Task)] /\ Poll(t)
    BY <1>2, PollType DEF Prep, Finish
  <2>2. TypeOK'
    BY <1>2, <2>1 DEF TypeOK, Prep, Finish, Poll, PC
  <2>3. HandlerInv'
    BY <1>2 DEF TypeOK, HandlerInv, WriteOK, Prep, Finish, Poll
  <2> QED
    BY <1>1, <2>1, <2>2, <2>3
<1>3. ASSUME Reject(t) PROVE IInv'
  <2>1. runq' \in [Queue -> Seq(Task)] /\ Poll(t)
    BY <1>3, PollType DEF Reject
  <2>2. res' \in [Task -> Int]
    BY <1>3 DEF TypeOK, Reject, EINVAL, EIO
  <2>3. TypeOK'
    BY <1>3, <2>1, <2>2 DEF TypeOK, Reject, Poll, PC
  <2>4. HandlerInv'
    BY <1>3 DEF TypeOK, HandlerInv, WriteOK, Reject, Poll
  <2> QED
    BY <1>1, <2>1, <2>3, <2>4
<1>4. ASSUME Start(t) PROVE IInv'
  <2>1. runq' \in [Queue -> Seq(Task)] /\ Poll(t)
    BY <1>4, PollType DEF Start
  <2>2. TypeOK'
    BY <1>4, <2>1 DEF TypeOK, Start, Poll, PC
  <2>3. ASSUME iod[t].op = "WRITE"
        PROVE  /\ Valid(iod[t])
               /\ buf'[t] \in [0 .. Bytes(iod[t]) - 1 -> Word]
    <3>1. pc[t] = "queued" /\ iod[t] \in Requests /\ Valid(iod[t])
      BY <1>4, <2>3 DEF HandlerInv, Start
    <3>2. /\ iod[t].start \in Nat /\ iod[t].nr \in Nat
          /\ buf[t] \in [0 .. iod[t].nr * WordsPerSector - 1 -> Word]
      BY <2>3, <3>1, RequestAssumption DEF HandlerInv, WriteOK
    <3>3. Encrypted(Offset(iod[t]), buf[t]) \in [0 .. Bytes(iod[t]) - 1 -> Word]
      BY <3>2, EncryptedType DEF Offset, Bytes
    <3> QED
      BY <1>4, <2>3, <3>1, <3>3 DEF TypeOK, Start
  <2>4. HandlerInv'
    BY <1>4, <2>1, <2>3 DEF TypeOK, HandlerInv, WriteOK, Start, Poll
  <2> QED
    BY <1>1, <2>1, <2>2, <2>4
<1> QED
  BY <1>2, <1>3, <1>4

(* The calls on the target: only WriteChunk changes it, at an address of   *)
(* the payload, to a word of the encrypted buffer.                         *)
LEMMA TargetStep ==
  ASSUME IInv, NEW t \in Task
  PROVE  /\ \A n \in 1 .. IoBufLen : ReadChunk(t, n) \/ WriteChunk(t, n) => IInv'
         /\ Return(t) \/ Sync(t) \/ IoError(t) => IInv'
<1> USE DEF IInv
<1>1. ASSUME NEW n \in 1 .. IoBufLen, ReadChunk(t, n) PROVE IInv'
  <2>1. n \in Nat /\ done[t] + n \in Nat
    BY GeometryAssumption DEF TypeOK
  <2>2. TypeOK'
    BY <1>1, <2>1 DEF TypeOK, ReadChunk
  <2>3. HandlerInv'
    BY <1>1 DEF TypeOK, HandlerInv, WriteOK, ReadChunk, InIo
  <2>4. OutsideUntouched'
    BY <1>1 DEF OutsideUntouched, ReadChunk
  <2> QED
    BY <2>2, <2>3, <2>4
<1>2. ASSUME NEW n \in 1 .. IoBufLen, WriteChunk(t, n) PROVE IInv'
  <2> DEFINE r == iod[t]
             at == BackingOffset(Offset(r))
             written == at + done[t] .. at + done[t] + n - 1
  <2>1. /\ r \in Requests /\ Valid(r)
        /\ buf[t] \in [0 .. Bytes(r) - 1 -> Word]
        /\ done[t] + n <= Bytes(r)
    BY <1>2 DEF HandlerInv, WriteOK, WriteChunk, InIo
  <2>2. n \in Nat \ {0} /\ done[t] \in Nat /\ Bytes(r) \in Nat
    <3>1. r.nr \in Nat /\ WordsPerSector \in Nat
      BY <2>1, RequestAssumption, WordAssumption
    <3> QED
      BY <3>1, GeometryAssumption DEF TypeOK, Bytes
  <2>3. at \in Nat
    <3>1. r.start \in Nat /\ StartingLba \in Nat /\ WordsPerSector \in Nat \ {0}
      BY <2>1, RequestAssumption, GeometryAssumption, WordAssumption
    <3>2. (r.start * WordsPerSector) \div WordsPerSector = r.start
      BY <3>1
    <3> QED
      BY <3>1, <3>2 DEF BackingOffset, Offset
  <2> HIDE DEF at
  <2>4. ASSUME NEW a \in written
        PROVE  /\ a \in DiskAddr
               /\ a \div WordsPerSector \in StartingLba .. EndingLba
               /\ buf[t][a - at] \in Word
    <3>1. a - at \in 0 .. Bytes(r) - 1 /\ a = at + (a - at)
      BY <2>1, <2>2, <2>3
    <3> QED
      BY <2>1, <3>1, RangeInPayload DEF at
  <2>5. backing' = [a \in DiskAddr |-> IF a \in written THEN buf[t][a - at] ELSE backing[a]]
    BY <1>2 DEF WriteChunk, at
  <2>6. backing' \in [DiskAddr -> Word]
    BY <2>4, <2>5 DEF TypeOK
  <2>7. done' \in [Task -> Nat] /\ DOMAIN seen' = Task
    BY <1>2, <2>2 DEF TypeOK, WriteChunk
  <2>8. TypeOK'
    BY <1>2, <2>6, <2>7 DEF TypeOK, WriteChunk
  <2>9. HandlerInv'
    BY <1>2 DEF HandlerInv, WriteOK, WriteChunk
  <2>10. OutsideUntouched'
    BY <1>2, <2>4, <2>5 DEF OutsideUntouched, WriteChunk
  <2> QED
    BY <2>8, <2>9, <2>10
<1>3. ASSUME Return(t) PROVE IInv'
  <2>1. Bytes(iod[t]) \in Int
    <3>1. iod[t] \in Requests /\ WordsPerSector \in Nat
      BY <1>3, WordAssumption DEF HandlerInv, Return
    <3> QED
      BY <3>1, RequestAssumption DEF Bytes
  <2>2. TypeOK'
    BY <1>3, <2>1 DEF TypeOK, Return, PC
  <2>3. HandlerInv'
    BY <1>3 DEF TypeOK, HandlerInv, WriteOK, Return
  <2>4. OutsideUntouched'
    BY <1>3 DEF OutsideUntouched, Return
  <2> QED
    BY <2>2, <2>3, <2>4
<1>4. ASSUME Sync(t) PROVE IInv'
  <2>1. TypeOK'
    BY <1>4 DEF TypeOK, Sync, PC
  <2>2. HandlerInv'
    BY <1>4 DEF TypeOK, HandlerInv, WriteOK, Sync, InIo
  <2>3. OutsideUntouched'
    BY <1>4 DEF OutsideUntouched, Sync
  <2> QED
    BY <2>1, <2>2, <2>3
<1>5. ASSUME IoError(t) PROVE IInv'
  <2>1. TypeOK'
    BY <1>5 DEF TypeOK, IoError, PC, EIO
  <2>2. HandlerInv'
    BY <1>5 DEF TypeOK, HandlerInv, WriteOK, IoError
  <2>3. OutsideUntouched'
    BY <1>5 DEF OutsideUntouched, IoError
  <2> QED
    BY <2>1, <2>2, <2>3
<1> QED
  BY <1>1, <1>2, <1>3, <1>4, <1>5

(* The failures of commands and queues end tasks and leave the target and  *)
(* the buffers alone.                                                      *)
LEMMA FailureStep ==
  ASSUME IInv
  PROVE  /\ \A t \in Task : CommandFails(t) \/ CommitFails(t) => IInv'
         /\ \A q \in Queue : LoopFails(q) => IInv'
<1> USE DEF IInv
<1>1. ASSUME NEW t \in Task, CommandFails(t) PROVE IInv'
  <2>1. runq' \in [Queue -> Seq(Task)]
    BY <1>1, WakeType DEF CommandFails
  <2>2. TypeOK'
    BY <1>1, <2>1 DEF TypeOK, CommandFails, PC
  <2>3. HandlerInv'
    BY <1>1 DEF TypeOK, HandlerInv, WriteOK, CommandFails
  <2>4. OutsideUntouched'
    BY <1>1 DEF OutsideUntouched, CommandFails
  <2> QED
    BY <2>2, <2>3, <2>4
<1>2. ASSUME NEW t \in Task, CommitFails(t) PROVE IInv'
  <2>1. TypeOK'
    BY <1>2 DEF TypeOK, CommitFails, PC
  <2>2. HandlerInv'
    BY <1>2 DEF TypeOK, HandlerInv, WriteOK, CommitFails
  <2>3. OutsideUntouched'
    BY <1>2 DEF OutsideUntouched, CommitFails
  <2> QED
    BY <2>1, <2>2, <2>3
<1>3. ASSUME NEW q \in Queue, LoopFails(q) PROVE IInv'
  <2>1. runq' \in [Queue -> Seq(Task)]
    <3>1. <<>> \in Seq(Task)
      OBVIOUS
    <3> QED
      BY <1>3, <3>1 DEF TypeOK, LoopFails
  <2>2. pc' \in [Task -> PC]
    BY <1>3 DEF TypeOK, LoopFails, PC
  <2>3. TypeOK'
    BY <1>3, <2>1, <2>2 DEF TypeOK, LoopFails
  <2>4. \A t \in Task : pc'[t] \in {"queued", "io", "commit"} => pc'[t] = pc[t]
    BY <1>3 DEF LoopFails
  <2>5. HandlerInv'
    BY <1>3, <2>4 DEF HandlerInv, WriteOK, LoopFails
  <2>6. OutsideUntouched'
    BY <1>3 DEF OutsideUntouched, LoopFails
  <2> QED
    BY <2>3, <2>5, <2>6
<1> QED
  BY <1>1, <1>2, <1>3

(* The removal of the device, write-back, the end of the process and its   *)
(* restart.                                                                *)
LEMMA ProcessStep ==
  ASSUME IInv
  PROVE  /\ Remove \/ Reopen \/ UNCHANGED vars => IInv'
         /\ \A a \in DiskAddr : WriteBack(a) => IInv'
         /\ Close \/ Exit \/ PowerLoss => IInv'
<1> USE DEF IInv
<1>1. ASSUME Remove \/ Reopen \/ UNCHANGED vars PROVE IInv'
  <2>1. TypeOK'
    BY <1>1 DEF TypeOK, Remove, Reopen, vars, taskVars
  <2>2. HandlerInv'
    BY <1>1 DEF HandlerInv, WriteOK, Remove, Reopen, vars, taskVars
  <2>3. OutsideUntouched'
    BY <1>1 DEF OutsideUntouched, Remove, Reopen, vars
  <2> QED
    BY <2>1, <2>2, <2>3
<1>2. ASSUME NEW a \in DiskAddr, WriteBack(a) PROVE IInv'
  <2>1. TypeOK'
    BY <1>2 DEF TypeOK, WriteBack, taskVars
  <2>2. HandlerInv'
    BY <1>2 DEF HandlerInv, WriteOK, WriteBack, taskVars
  <2>3. OutsideUntouched'
    BY <1>2 DEF TypeOK, OutsideUntouched, WriteBack
  <2> QED
    BY <2>1, <2>2, <2>3
<1>3. ASSUME Close \/ Exit \/ PowerLoss PROVE IInv'
  BY <1>3, StoppedIInv DEF Close, Exit, PowerLoss
<1> QED
  BY <1>1, <1>2, <1>3

(* IInv holds in every reachable state.                                    *)
THEOREM Inductive == Spec => []IInv
<1>1. IInv /\ [Next]_vars => IInv'
  <2> SUFFICES ASSUME IInv, [Next]_vars PROVE IInv'
    OBVIOUS
  <2>1. CASE \E t \in Task : Step(t)
    <3>1. PICK t \in Task : Step(t)
      BY <2>1
    <3> QED
      BY <3>1, DriverStep, PollStep, TargetStep DEF Step
  <2>2. CASE \E t \in Task : Abort(t) \/ \E r \in Requests : Submit(t, r)
    BY <2>2, DriverStep
  <2>3. CASE \/ \E a \in DiskAddr : WriteBack(a)
             \/ Remove \/ Close \/ Exit \/ PowerLoss \/ Reopen \/ UNCHANGED vars
    BY <2>3, ProcessStep
  <2>4. CASE \/ \E t \in Task : CommandFails(t) \/ CommitFails(t)
             \/ \E q \in Queue : LoopFails(q)
    BY <2>4, FailureStep
  <2> QED
    BY <2>1, <2>2, <2>3, <2>4 DEF Next
<1> QED
  BY <1>1, InitIInv, PTL DEF Spec

(* The variables of the open device keep their types (open.rs:148-198).    *)
THEOREM Types == Spec => []TypeOK
<1>1. IInv => TypeOK
  BY DEF IInv
<1> QED
  BY <1>1, Inductive, PTL

(* Nothing outside the payload range of the header is ever changed by the  *)
(* open device (backing_offset, open.rs:27).                               *)
THEOREM OutsideIsUntouched == Spec => []OutsideUntouched
<1>1. IInv => OutsideUntouched
  BY DEF IInv
<1> QED
  BY <1>1, Inductive, PTL

-----------------------------------------------------------------------------
(* NoTagLost without counting: every entry of a run queue is a woken task  *)
(* of that queue, no task is entered twice, no woken task is missing, and  *)
(* at most one task of a queue is in the middle of handle_io.              *)
Busy(t) == pc[t] \in {"io", "commit"}

EntriesWoken == \A q \in Queue : \A k \in DOMAIN runq[q] :
                  runq[q][k][1] = q /\ Woken(runq[q][k])

EnteredOnce == \A q \in Queue : \A k, l \in DOMAIN runq[q] :
                 runq[q][k] = runq[q][l] => k = l

WokenEntered == \A t \in Task : Woken(t) => \E k \in DOMAIN runq[t[1]] : runq[t[1]][k] = t

OneBusy == \A t, u \in Task : Busy(t) /\ Busy(u) /\ t[1] = u[1] => t = u

QueueInv == EntriesWoken /\ EnteredOnce /\ WokenEntered /\ OneBusy

(* A fresh executor has every task of its queue once.                      *)
LEMMA SpawnedQueues ==
  /\ \A q \in Queue : \A k \in DOMAIN Spawned[q] :
       Spawned[q][k] \in Task /\ Spawned[q][k][1] = q
  /\ \A q \in Queue : \A k, l \in DOMAIN Spawned[q] : Spawned[q][k] = Spawned[q][l] => k = l
  /\ \A t \in Task : \E k \in DOMAIN Spawned[t[1]] : Spawned[t[1]][k] = t
<1>1. QueueDepth \in Nat /\ NrQueues \in Nat
  BY GeometryAssumption
<1>2. ASSUME NEW q \in Queue
      PROVE  Spawned[q] = [i \in 1 .. QueueDepth |-> <<q, i - 1>>]
  BY DEF Spawned
<1>3. ASSUME NEW q \in Queue, NEW k \in DOMAIN Spawned[q]
      PROVE  /\ k \in 1 .. QueueDepth /\ Spawned[q][k] = <<q, k - 1>>
             /\ Spawned[q][k] \in Task
  <2>1. k \in 1 .. QueueDepth /\ Spawned[q][k] = <<q, k - 1>>
    BY <1>2
  <2>2. k - 1 \in 0 .. QueueDepth - 1
    BY <1>1, <2>1
  <2> QED
    BY <2>1, <2>2 DEF Task, Queue
<1>4. ASSUME NEW t \in Task
      PROVE  \E k \in DOMAIN Spawned[t[1]] : Spawned[t[1]][k] = t
  <2>1. t[1] \in Queue /\ t[2] \in 0 .. QueueDepth - 1 /\ t = <<t[1], t[2]>>
    BY DEF Task, Queue
  <2>2. t[2] + 1 \in 1 .. QueueDepth /\ (t[2] + 1) - 1 = t[2]
    BY <1>1, <2>1
  <2> DEFINE a == t[1]
             b == t[2]
  <2>3. Spawned[a] = [i \in 1 .. QueueDepth |-> <<a, i - 1>>]
    BY <1>2, <2>1
  <2> HIDE DEF a, b
  <2>4. b + 1 \in DOMAIN Spawned[a] /\ Spawned[a][b + 1] = <<a, (b + 1) - 1>>
    BY <2>2, <2>3 DEF a, b
  <2>5. Spawned[a][b + 1] = t
    BY <2>1, <2>2, <2>4 DEF a, b
  <2> QED
    BY <2>4, <2>5 DEF a
<1>5. ASSUME NEW q \in Queue, NEW k \in DOMAIN Spawned[q], NEW l \in DOMAIN Spawned[q],
             Spawned[q][k] = Spawned[q][l]
      PROVE  k = l
  <2>1. k \in 1 .. QueueDepth /\ l \in 1 .. QueueDepth
    BY <1>3
  <2>2. Spawned[q][k][2] = k - 1 /\ Spawned[q][l][2] = l - 1
    BY <1>3
  <2>3. k - 1 = l - 1
    BY <1>5, <2>2
  <2> QED
    BY <1>1, <2>1, <2>3
<1>6. ASSUME NEW q \in Queue, NEW k \in DOMAIN Spawned[q]
      PROVE  Spawned[q][k] \in Task /\ Spawned[q][k][1] = q
  BY <1>3
<1> QED
  BY <1>4, <1>5, <1>6

(* Waking an idle task enters it once.                                     *)
LEMMA WakeQueues ==
  ASSUME TypeOK, QueueInv, NEW t \in Task, ~Woken(t), ~Busy(t), Wake(t),
         NEW x \in {"queued", "aborted"}, pc' = [pc EXCEPT ![t] = x]
  PROVE  QueueInv'
<1> DEFINE q == t[1]
<1>1. q \in Queue /\ runq[q] \in Seq(Task) /\ Len(runq[q]) \in Nat
  BY DEF Task, Queue, TypeOK
<1>2. /\ DOMAIN runq[q] = 1 .. Len(runq[q])
      /\ runq'[q] = Append(runq[q], t)
      /\ DOMAIN runq'[q] = 1 .. Len(runq[q]) + 1
      /\ \A k \in 1 .. Len(runq[q]) : runq'[q][k] = runq[q][k]
      /\ runq'[q][Len(runq[q]) + 1] = t
      /\ \A p \in Queue \ {q} : runq'[p] = runq[p]
  BY <1>1 DEF Wake, TypeOK
<1>3. /\ pc'[t] = x
      /\ \A u \in Task \ {t} : pc'[u] = pc[u]
  BY DEF TypeOK
<1>4. \A p \in Queue : \A k \in DOMAIN runq[p] : runq[p][k] \in Task /\ runq[p][k] # t
  <2>1. \A p \in Queue : \A k \in DOMAIN runq[p] : Woken(runq[p][k])
    BY DEF QueueInv, EntriesWoken
  <2>2. \A p \in Queue : \A k \in DOMAIN runq[p] : runq[p][k] \in Task
    BY DEF TypeOK
  <2> QED
    BY <2>1, <2>2
<1> HIDE DEF q
<1>5. EntriesWoken'
  <2> SUFFICES ASSUME NEW p \in Queue, NEW k \in DOMAIN runq'[p]
               PROVE  runq'[p][k][1] = p /\ pc'[runq'[p][k]] \in {"start", "queued", "aborted"}
    BY DEF EntriesWoken, Woken
  <2>1. CASE p = q /\ k = Len(runq[q]) + 1
    BY <1>2, <1>3, <2>1 DEF Woken, q
  <2>2. CASE ~(p = q /\ k = Len(runq[q]) + 1)
    <3>1. k \in DOMAIN runq[p] /\ runq'[p][k] = runq[p][k]
      BY <1>1, <1>2, <2>2
    <3> QED
      BY <1>3, <1>4, <3>1 DEF QueueInv, EntriesWoken, Woken
  <2> QED
    BY <2>1, <2>2
<1>6. EnteredOnce'
  <2> SUFFICES ASSUME NEW p \in Queue, NEW k \in DOMAIN runq'[p], NEW l \in DOMAIN runq'[p],
                      runq'[p][k] = runq'[p][l]
               PROVE  k = l
    BY DEF EnteredOnce
  <2>1. CASE p # q
    BY <1>2, <2>1 DEF QueueInv, EnteredOnce
  <2>2. CASE p = q
    <3>1. k \in 1 .. Len(runq[q]) + 1 /\ l \in 1 .. Len(runq[q]) + 1
      BY <1>2, <2>2
    <3>2. \A m \in 1 .. Len(runq[q]) : m \in DOMAIN runq[q] /\ runq'[q][m] # t
      BY <1>1, <1>2, <1>4
    <3>3. CASE k = Len(runq[q]) + 1 \/ l = Len(runq[q]) + 1
      BY <1>1, <1>2, <2>2, <3>1, <3>2, <3>3
    <3>4. CASE k # Len(runq[q]) + 1 /\ l # Len(runq[q]) + 1
      <4>1. k \in 1 .. Len(runq[q]) /\ l \in 1 .. Len(runq[q])
        BY <1>1, <3>1, <3>4
      <4>2. runq[q][k] = runq[q][l] /\ k \in DOMAIN runq[q] /\ l \in DOMAIN runq[q]
        BY <1>2, <2>2, <4>1
      <4> QED
        BY <1>1, <4>2 DEF QueueInv, EnteredOnce
    <3> QED
      BY <3>3, <3>4
  <2> QED
    BY <2>1, <2>2
<1>7. WokenEntered'
  <2> SUFFICES ASSUME NEW u \in Task, Woken(u)'
               PROVE  \E k \in DOMAIN runq'[u[1]] : runq'[u[1]][k] = u
    BY DEF WokenEntered
  <2>1. CASE u = t
    <3>1. Len(runq[q]) + 1 \in DOMAIN runq'[q] /\ runq'[q][Len(runq[q]) + 1] = u
      BY <1>1, <1>2, <2>1
    <3> QED
      BY <2>1, <3>1 DEF q
  <2>2. CASE u # t
    <3>1. Woken(u)
      BY <1>3, <2>2 DEF Woken
    <3>2. PICK k \in DOMAIN runq[u[1]] : runq[u[1]][k] = u
      BY <3>1 DEF QueueInv, WokenEntered
    <3>3. u[1] \in Queue
      BY DEF Task, Queue
    <3>4. k \in DOMAIN runq'[u[1]] /\ runq'[u[1]][k] = u
      BY <1>1, <1>2, <3>2, <3>3
    <3> QED
      BY <3>4
  <2> QED
    BY <2>1, <2>2
<1>8. OneBusy'
  BY <1>3 DEF QueueInv, OneBusy, Busy
<1> QED
  BY <1>5, <1>6, <1>7, <1>8 DEF QueueInv

(* Polling the first task of a queue takes it out.                         *)
LEMMA PollQueues ==
  ASSUME TypeOK, QueueInv, NEW t \in Task, Poll(t),
         NEW x \in {"idle", "finished", "commit", "io"}, pc' = [pc EXCEPT ![t] = x]
  PROVE  QueueInv'
<1> DEFINE q == t[1]
<1>1. q \in Queue /\ runq[q] \in Seq(Task) /\ Len(runq[q]) \in Nat \ {0} /\ runq[q][1] = t
  BY DEF Task, Queue, TypeOK, Poll
<1>2. /\ DOMAIN runq[q] = 1 .. Len(runq[q])
      /\ runq'[q] = Tail(runq[q])
      /\ DOMAIN runq'[q] = 1 .. Len(runq[q]) - 1
      /\ \A k \in 1 .. Len(runq[q]) - 1 : runq'[q][k] = runq[q][k + 1]
      /\ \A p \in Queue \ {q} : runq'[p] = runq[p]
  BY <1>1 DEF Poll, TypeOK
<1>3. /\ pc'[t] = x
      /\ \A u \in Task \ {t} : pc'[u] = pc[u]
  BY DEF TypeOK
<1> HIDE DEF q
<1>4. \A k \in 1 .. Len(runq[q]) - 1 : k + 1 \in DOMAIN runq[q] /\ runq'[q][k] # t
  <2> SUFFICES ASSUME NEW k \in 1 .. Len(runq[q]) - 1
               PROVE  k + 1 \in DOMAIN runq[q] /\ runq'[q][k] # t
    OBVIOUS
  <2>1. k + 1 \in DOMAIN runq[q] /\ 1 \in DOMAIN runq[q] /\ k + 1 # 1
    BY <1>1, <1>2
  <2>2. runq[q][k + 1] # runq[q][1]
    BY <1>1, <2>1 DEF QueueInv, EnteredOnce
  <2> QED
    BY <1>1, <1>2, <2>1, <2>2
<1>5. EntriesWoken'
  <2> SUFFICES ASSUME NEW p \in Queue, NEW k \in DOMAIN runq'[p]
               PROVE  runq'[p][k][1] = p /\ pc'[runq'[p][k]] \in {"start", "queued", "aborted"}
    BY DEF EntriesWoken, Woken
  <2>1. PICK l \in DOMAIN runq[p] : runq'[p][k] = runq[p][l]
    BY <1>1, <1>2, <1>4
  <2>2. runq[p][l] \in Task /\ runq[p][l][1] = p /\ Woken(runq[p][l])
    BY DEF TypeOK, QueueInv, EntriesWoken
  <2>3. runq'[p][k] # t
    BY <1>2, <1>4, <2>1, <2>2 DEF q
  <2> QED
    BY <1>3, <2>1, <2>2, <2>3 DEF Woken
<1>6. EnteredOnce'
  <2> SUFFICES ASSUME NEW p \in Queue, NEW k \in DOMAIN runq'[p], NEW l \in DOMAIN runq'[p],
                      runq'[p][k] = runq'[p][l]
               PROVE  k = l
    BY DEF EnteredOnce
  <2>1. CASE p # q
    BY <1>2, <2>1 DEF QueueInv, EnteredOnce
  <2>2. CASE p = q
    <3>1. k \in 1 .. Len(runq[q]) - 1 /\ l \in 1 .. Len(runq[q]) - 1
      BY <1>2, <2>2
    <3>2. k \in Int /\ l \in Int
      BY <3>1
    <3>3. k + 1 \in DOMAIN runq[q] /\ l + 1 \in DOMAIN runq[q]
      BY <1>4, <3>1
    <3>4. runq[q][k + 1] = runq[q][l + 1]
      BY <1>2, <2>2, <3>1
    <3>5. k + 1 = l + 1
      BY <1>1, <3>3, <3>4 DEF QueueInv, EnteredOnce
    <3> QED
      BY <3>2, <3>5
  <2> QED
    BY <2>1, <2>2
<1>7. WokenEntered'
  <2> SUFFICES ASSUME NEW u \in Task, Woken(u)'
               PROVE  \E k \in DOMAIN runq'[u[1]] : runq'[u[1]][k] = u
    BY DEF WokenEntered
  <2>1. u # t /\ Woken(u)
    BY <1>3 DEF Woken
  <2>2. PICK k \in DOMAIN runq[u[1]] : runq[u[1]][k] = u
    BY <2>1 DEF QueueInv, WokenEntered
  <2>3. CASE u[1] = q
    <3>1. k \in 1 .. Len(runq[q]) /\ k # 1
      BY <1>1, <1>2, <2>1, <2>2, <2>3
    <3>2. k - 1 \in 1 .. Len(runq[q]) - 1 /\ (k - 1) + 1 = k
      BY <1>1, <3>1
    <3>3. k - 1 \in DOMAIN runq'[q] /\ runq'[q][k - 1] = u
      BY <1>2, <2>2, <2>3, <3>2
    <3> QED
      BY <2>3, <3>3
  <2>4. CASE u[1] # q
    <3>1. u[1] \in Queue
      BY DEF Task, Queue
    <3> QED
      BY <1>2, <2>2, <2>4, <3>1
  <2> QED
    BY <2>3, <2>4
<1>8. OneBusy'
  <2>1. \A u \in Task : u[1] = t[1] => ~Busy(u)
    BY DEF Poll, Free, Busy
  <2> QED
    BY <1>3, <2>1 DEF QueueInv, OneBusy, Busy
<1> QED
  BY <1>5, <1>6, <1>7, <1>8 DEF QueueInv

(* A step of a task that is being handled leaves the run queues alone.     *)
LEMMA HandledQueues ==
  ASSUME TypeOK, QueueInv, NEW t \in Task, Busy(t), runq' = runq,
         NEW x \in {"io", "commit", "idle", "failed"}, pc' = [pc EXCEPT ![t] = x]
  PROVE  QueueInv'
<1>1. /\ pc'[t] = x
      /\ \A u \in Task \ {t} : pc'[u] = pc[u]
  BY DEF TypeOK
<1>2. \A u \in Task : (Woken(u)' <=> Woken(u)) /\ (Busy(u)' => Busy(u))
  BY <1>1 DEF Woken, Busy
<1>3. \A q \in Queue : \A k \in DOMAIN runq[q] : runq[q][k] \in Task
  BY DEF TypeOK
<1>4. EntriesWoken'
  BY <1>2, <1>3 DEF QueueInv, EntriesWoken
<1>5. EnteredOnce' /\ WokenEntered' /\ OneBusy'
  BY <1>2 DEF QueueInv, EnteredOnce, WokenEntered, OneBusy
<1> QED
  BY <1>4, <1>5 DEF QueueInv

(* The failure of an event loop empties its queue and ends its tasks.      *)
LEMMA LoopFailsQueues ==
  ASSUME TypeOK, QueueInv, NEW q \in Queue, LoopFails(q)
  PROVE  QueueInv'
<1>1. /\ runq'[q] = <<>> /\ \A p \in Queue \ {q} : runq'[p] = runq[p]
      /\ DOMAIN runq'[q] = {}
  BY DEF TypeOK, LoopFails
<1>2. \A u \in Task : /\ u[1] # q => pc'[u] = pc[u]
                      /\ u[1] = q => pc'[u] \in {"finished", "failed", "dropped"}
  BY DEF LoopFails, Ended
<1>3. EntriesWoken'
  <2> SUFFICES ASSUME NEW p \in Queue, NEW k \in DOMAIN runq'[p]
               PROVE  runq'[p][k][1] = p /\ pc'[runq'[p][k]] \in {"start", "queued", "aborted"}
    BY DEF EntriesWoken, Woken
  <2>1. p # q /\ runq'[p] = runq[p]
    BY <1>1
  <2>2. runq[p][k] \in Task /\ runq[p][k][1] = p /\ Woken(runq[p][k])
    BY <2>1 DEF TypeOK, QueueInv, EntriesWoken
  <2> QED
    BY <1>2, <2>1, <2>2 DEF Woken
<1>4. EnteredOnce'
  BY <1>1 DEF QueueInv, EnteredOnce
<1>5. WokenEntered'
  <2> SUFFICES ASSUME NEW u \in Task, Woken(u)'
               PROVE  \E k \in DOMAIN runq'[u[1]] : runq'[u[1]][k] = u
    BY DEF WokenEntered
  <2>1. u[1] # q /\ Woken(u) /\ u[1] \in Queue
    BY <1>2 DEF Woken, Task, Queue
  <2> QED
    BY <1>1, <2>1 DEF QueueInv, WokenEntered
<1>6. OneBusy'
  BY <1>2 DEF QueueInv, OneBusy, Busy
<1> QED
  BY <1>3, <1>4, <1>5, <1>6 DEF QueueInv

(* Every step keeps the run queues in order.                               *)
LEMMA QueuesStep ==
  ASSUME TypeOK, QueueInv, [Next]_vars
  PROVE  QueueInv'
<1>1. ASSUME NEW t \in Task, NEW r \in Requests, Submit(t, r) PROVE QueueInv'
  BY <1>1, WakeQueues DEF Submit, Woken, Busy
<1>2. ASSUME NEW t \in Task, Abort(t) PROVE QueueInv'
  BY <1>2, WakeQueues DEF Abort, Woken, Busy
<1>3. ASSUME NEW t \in Task, CommandFails(t) PROVE QueueInv'
  BY <1>3, WakeQueues DEF CommandFails, Woken, Busy
<1>4. ASSUME NEW t \in Task, Prep(t) PROVE QueueInv'
  BY <1>4, PollQueues DEF Prep
<1>5. ASSUME NEW t \in Task, Finish(t) PROVE QueueInv'
  BY <1>5, PollQueues DEF Finish
<1>6. ASSUME NEW t \in Task, Reject(t) PROVE QueueInv'
  BY <1>6, PollQueues DEF Reject
<1>7. ASSUME NEW t \in Task, Start(t) PROVE QueueInv'
  BY <1>7, PollQueues DEF Start
<1>8. ASSUME UNCHANGED <<pc, runq>> PROVE QueueInv'
  BY <1>8 DEF QueueInv, EntriesWoken, EnteredOnce, WokenEntered, OneBusy, Woken, Busy
<1>9. ASSUME NEW t \in Task, NEW n \in 1 .. IoBufLen, ReadChunk(t, n) \/ WriteChunk(t, n)
      PROVE  QueueInv'
  BY <1>8, <1>9 DEF ReadChunk, WriteChunk
<1>10. ASSUME NEW t \in Task, Return(t) PROVE QueueInv'
  BY <1>10, HandledQueues DEF Return, Busy
<1>11. ASSUME NEW t \in Task, Sync(t) PROVE QueueInv'
  BY <1>11, HandledQueues DEF Sync, InIo, Busy
<1>12. ASSUME NEW t \in Task, IoError(t) PROVE QueueInv'
  BY <1>12, HandledQueues DEF IoError, Busy
<1>13. ASSUME NEW t \in Task, Commit(t) PROVE QueueInv'
  BY <1>13, HandledQueues DEF Commit, Busy
<1>14. ASSUME NEW t \in Task, CommitFails(t) PROVE QueueInv'
  BY <1>14, HandledQueues DEF CommitFails, Busy
<1>15. ASSUME NEW q \in Queue, LoopFails(q) PROVE QueueInv'
  BY <1>15, LoopFailsQueues
<1>16. ASSUME Stopped PROVE QueueInv'
  <2>1. runq' = Spawned /\ \A t \in Task : pc'[t] = "start"
    BY <1>16 DEF Stopped, AllTasks
  <2> QED
    BY <2>1, SpawnedQueues
       DEF QueueInv, EntriesWoken, EnteredOnce, WokenEntered, OneBusy, Woken, Busy
<1>17. CASE Remove \/ Reopen \/ UNCHANGED vars \/ \E a \in DiskAddr : WriteBack(a)
  BY <1>8, <1>17 DEF Remove, Reopen, vars, WriteBack, taskVars
<1>18. CASE Close \/ Exit \/ PowerLoss
  BY <1>16, <1>18 DEF Close, Exit, PowerLoss
<1>19. CASE \E t \in Task : Step(t)
  <2>1. PICK t \in Task : Step(t)
    BY <1>19
  <2> QED
    BY <1>4, <1>5, <1>6, <1>7, <1>9, <1>10, <1>11, <1>12, <1>13, <2>1 DEF Step
<1>20. CASE \/ \E t \in Task, r \in Requests : Submit(t, r)
            \/ \E t \in Task : Abort(t) \/ CommandFails(t) \/ CommitFails(t)
            \/ \E q \in Queue : LoopFails(q)
  BY <1>1, <1>2, <1>3, <1>14, <1>15, <1>20
<1> QED
  BY <1>17, <1>18, <1>19, <1>20 DEF Next

(* The run queues are in order all the time.                               *)
LEMMA Queues == Spec => []QueueInv
<1>1. Init => QueueInv
  <2> SUFFICES ASSUME Init PROVE QueueInv
    OBVIOUS
  <2>1. runq = Spawned /\ \A t \in Task : pc[t] = "start"
    BY DEF Init, AllTasks
  <2> QED
    BY <2>1, SpawnedQueues
       DEF QueueInv, EntriesWoken, EnteredOnce, WokenEntered, OneBusy, Woken, Busy
<1>2. TypeOK /\ QueueInv /\ [Next]_vars => QueueInv'
  BY QueuesStep
<1> QED
  BY <1>1, <1>2, Types, PTL DEF Spec

(* No tag is lost and none is handled twice, whatever fails (io_task,      *)
(* open.rs:152; queue_handler, open.rs:171).                               *)
THEOREM TagsAreKept == Spec => []NoTagLost
<1>1. ASSUME TypeOK, QueueInv
      PROVE  NoTagLost
  <2>1. ASSUME NEW q \in Queue, NEW t \in Task
        PROVE  Cardinality({k \in DOMAIN runq[q] : runq[q][k] = t}) =
                 IF t[1] = q /\ Woken(t) THEN 1 ELSE 0
    <3>1. CASE t[1] = q /\ Woken(t)
      <4>1. PICK k \in DOMAIN runq[q] : runq[q][k] = t
        BY <1>1, <3>1 DEF QueueInv, WokenEntered
      <4>2. {l \in DOMAIN runq[q] : runq[q][l] = t} = {k}
        BY <1>1, <4>1 DEF QueueInv, EnteredOnce
      <4> QED
        BY <3>1, <4>2, FS_Singleton
    <3>2. CASE ~(t[1] = q /\ Woken(t))
      <4>1. {l \in DOMAIN runq[q] : runq[q][l] = t} = {}
        BY <1>1, <3>2 DEF QueueInv, EntriesWoken
      <4> QED
        BY <3>2, <4>1, FS_EmptySet
    <3> QED
      BY <3>1, <3>2
  <2> QED
    BY <1>1, <2>1 DEF NoTagLost, QueueInv, OneBusy, Busy
<1>2. TypeOK /\ QueueInv => NoTagLost
  BY <1>1
<1> QED
  BY <1>2, Queues, Types, PTL

-----------------------------------------------------------------------------
(* What NoOvertaking asks of a step, for one task that waits through it.    *)
KeepsTurn(t) ==
  /\ Ahead(t)' \subseteq Ahead(t)
  /\ \A u \in Task : u[1] = t[1] /\ Woken(u) /\ ~Woken(u)' => u \in Ahead(t) \ Ahead(t)'

(* A step that wakes a task puts it behind everyone who waits.             *)
LEMMA WakeKeepsTurn ==
  ASSUME TypeOK, QueueInv, NEW t \in Task, ~Woken(t), Wake(t),
         NEW x \in {"queued", "aborted"}, pc' = [pc EXCEPT ![t] = x],
         NEW w \in Task, Woken(w)
  PROVE  KeepsTurn(w)
<1> DEFINE q == t[1]
           n == Len(runq[q])
<1>1. q \in Queue /\ w[1] \in Queue /\ runq[q] \in Seq(Task) /\ n \in Nat
  BY DEF Task, Queue, TypeOK
<1>2. /\ DOMAIN runq[q] = 1 .. n
      /\ DOMAIN runq'[q] = 1 .. n + 1
      /\ \A k \in 1 .. n : runq'[q][k] = runq[q][k]
      /\ runq'[q][n + 1] = t
      /\ \A p \in Queue \ {q} : runq'[p] = runq[p]
  BY <1>1 DEF Wake, TypeOK
<1>3. \A u \in Task : Woken(u) => Woken(u)'
  BY DEF TypeOK, Woken
<1>4. w # t
  OBVIOUS
<1> HIDE DEF q, n
<1>5. ASSUME NEW u \in Task, u \in Ahead(w)'
      PROVE  u \in Ahead(w)
  <2>1. PICK i, j \in DOMAIN runq'[w[1]] :
               i < j /\ runq'[w[1]][i] = u /\ runq'[w[1]][j] = w
    BY <1>5 DEF Ahead
  <2>2. i \in DOMAIN runq[w[1]] /\ j \in DOMAIN runq[w[1]]
        /\ runq[w[1]][i] = u /\ runq[w[1]][j] = w
    <3>1. CASE w[1] = q
      <4>1. i \in 1 .. n + 1 /\ j \in 1 .. n + 1 /\ j # n + 1
        BY <1>2, <1>4, <2>1, <3>1
      <4>2. i \in 1 .. n /\ j \in 1 .. n
        BY <1>1, <2>1, <4>1
      <4> QED
        BY <1>2, <2>1, <3>1, <4>2
    <3>2. CASE w[1] # q
      BY <1>1, <1>2, <2>1, <3>2
    <3> QED
      BY <3>1, <3>2
  <2> QED
    BY <2>1, <2>2 DEF Ahead
<1>6. Ahead(w)' \subseteq Ahead(w)
  BY <1>5 DEF Ahead
<1> QED
  BY <1>3, <1>6 DEF KeepsTurn

(* A poll takes the task in front of everyone who waits in its queue.      *)
LEMMA PollKeepsTurn ==
  ASSUME TypeOK, QueueInv, NEW t \in Task, Poll(t),
         NEW x \in {"idle", "finished", "commit", "io"}, pc' = [pc EXCEPT ![t] = x],
         NEW w \in Task, Woken(w), Woken(w)'
  PROVE  KeepsTurn(w)
<1> DEFINE q == t[1]
           n == Len(runq[q])
<1>1. /\ q \in Queue /\ w[1] \in Queue
      /\ runq[q] \in Seq(Task) /\ n \in Nat \ {0} /\ runq[q][1] = t
  <2>1. q \in Queue /\ w[1] \in Queue
    BY DEF Task, Queue
  <2>2. runq[q] \in Seq(Task) /\ runq[q] # <<>> /\ Head(runq[q]) = t
    BY <2>1 DEF TypeOK, Poll
  <2> QED
    BY <2>1, <2>2
<1>2. /\ DOMAIN runq[q] = 1 .. n
      /\ DOMAIN runq'[q] = 1 .. n - 1
      /\ \A k \in 1 .. n - 1 : runq'[q][k] = runq[q][k + 1]
      /\ \A p \in Queue \ {q} : runq'[p] = runq[p]
  <2>1. runq'[q] = Tail(runq[q]) /\ \A p \in Queue \ {q} : runq'[p] = runq[p]
    BY <1>1 DEF Poll, TypeOK
  <2> QED
    BY <1>1, <2>1
<1>3. /\ pc'[t] = x
      /\ \A u \in Task \ {t} : pc'[u] = pc[u]
      /\ w # t
  BY DEF TypeOK, Woken
<1> HIDE DEF q, n
<1>4. ASSUME NEW u \in Task, u \in Ahead(w)'
      PROVE  u \in Ahead(w) /\ u # t
  <2>1. PICK i, j \in DOMAIN runq'[w[1]] :
               i < j /\ runq'[w[1]][i] = u /\ runq'[w[1]][j] = w
    BY <1>4 DEF Ahead
  <2>2. CASE w[1] = q
    <3>1. i \in 1 .. n - 1 /\ j \in 1 .. n - 1
      BY <1>2, <2>1, <2>2
    <3>2. i + 1 \in 1 .. n /\ j + 1 \in 1 .. n /\ i + 1 < j + 1 /\ i + 1 # 1 /\ 1 \in 1 .. n
      BY <1>1, <2>1, <3>1
    <3>3. runq[q][i + 1] = u /\ runq[q][j + 1] = w
      BY <1>2, <2>1, <2>2, <3>1
    <3>4. u # t
      BY <1>1, <1>2, <3>2, <3>3 DEF QueueInv, EnteredOnce
    <3> QED
      BY <1>2, <2>2, <3>2, <3>3, <3>4 DEF Ahead
  <2>3. CASE w[1] # q
    <3>1. runq'[w[1]] = runq[w[1]]
      BY <1>1, <1>2, <2>3
    <3>2. i \in DOMAIN runq[w[1]] /\ runq[w[1]][i][1] = w[1]
      BY <1>1, <2>1, <3>1 DEF QueueInv, EntriesWoken
    <3>3. u # t
      BY <2>1, <2>3, <3>1, <3>2 DEF q
    <3> QED
      BY <2>1, <3>1, <3>3 DEF Ahead
  <2> QED
    BY <2>2, <2>3
<1>5. ASSUME NEW u \in Task, u[1] = w[1], Woken(u), ~Woken(u)'
      PROVE  u \in Ahead(w) \ Ahead(w)'
  <2>1. u = t
    BY <1>3, <1>5 DEF Woken
  <2>2. PICK k \in DOMAIN runq[q] : runq[q][k] = w
    BY <1>5, <2>1 DEF QueueInv, WokenEntered, q
  <2>3. 1 \in DOMAIN runq[q] /\ 1 < k
    BY <1>1, <1>2, <1>3, <2>2
  <2>4. u \in Ahead(w)
    BY <1>1, <1>5, <2>1, <2>2, <2>3 DEF Ahead, q
  <2> QED
    BY <1>4, <2>1, <2>4
<1>6. Ahead(w)' \subseteq Ahead(w)
  BY <1>4 DEF Ahead
<1> QED
  BY <1>5, <1>6 DEF KeepsTurn

(* A step that leaves the run queues and the woken tasks alone.            *)
LEMMA FrameKeepsTurn ==
  ASSUME NEW w \in Task, runq' = runq, \A u \in Task : Woken(u) => Woken(u)'
  PROVE  KeepsTurn(w)
<1>1. Ahead(w)' = Ahead(w)
  BY DEF Ahead
<1> QED
  BY <1>1 DEF KeepsTurn

(* No step of the open device makes a task wait longer than its turn.      *)
LEMMA TurnStep ==
  ASSUME TypeOK, QueueInv, [Next]_vars, running',
         NEW w \in Task, Woken(w), Woken(w)'
  PROVE  KeepsTurn(w)
<1>1. ASSUME NEW t \in Task, NEW r \in Requests, Submit(t, r) PROVE KeepsTurn(w)
  BY <1>1, WakeKeepsTurn DEF Submit, Woken
<1>2. ASSUME NEW t \in Task, Abort(t) \/ CommandFails(t) PROVE KeepsTurn(w)
  BY <1>2, WakeKeepsTurn DEF Abort, CommandFails, Woken
<1>3. ASSUME NEW t \in Task, Prep(t) PROVE KeepsTurn(w)
  BY <1>3, PollKeepsTurn DEF Prep
<1>4. ASSUME NEW t \in Task, Finish(t) PROVE KeepsTurn(w)
  BY <1>4, PollKeepsTurn DEF Finish
<1>5. ASSUME NEW t \in Task, Reject(t) PROVE KeepsTurn(w)
  BY <1>5, PollKeepsTurn DEF Reject
<1>6. ASSUME NEW t \in Task, Start(t) PROVE KeepsTurn(w)
  BY <1>6, PollKeepsTurn DEF Start
<1>7. ASSUME NEW t \in Task,
             \/ \E n \in 1 .. IoBufLen : ReadChunk(t, n) \/ WriteChunk(t, n)
             \/ Return(t) \/ Sync(t) \/ IoError(t) \/ Commit(t) \/ CommitFails(t)
      PROVE  KeepsTurn(w)
  <2>1. /\ runq' = runq /\ pc[t] \in {"io", "commit"}
        /\ \A u \in Task \ {t} : pc'[u] = pc[u]
    BY <1>7 DEF TypeOK, ReadChunk, WriteChunk, Return, Sync, IoError, Commit, CommitFails, InIo
  <2> QED
    BY <2>1, FrameKeepsTurn DEF Woken
<1>8. ASSUME NEW q \in Queue, LoopFails(q) PROVE KeepsTurn(w)
  <2>1. /\ \A p \in Queue \ {q} : runq'[p] = runq[p]
        /\ \A u \in Task : IF u[1] = q THEN pc'[u] \in {"finished", "failed", "dropped"}
                            ELSE pc'[u] = pc[u]
    BY <1>8 DEF TypeOK, LoopFails, Ended
  <2>2. w[1] # q /\ w[1] \in Queue
    BY <2>1 DEF Woken, Task, Queue
  <2>3. Ahead(w)' = Ahead(w)
    BY <2>1, <2>2 DEF Ahead
  <2> QED
    BY <2>1, <2>2, <2>3 DEF KeepsTurn, Woken
<1>9. CASE Remove \/ Reopen \/ UNCHANGED vars \/ \E a \in DiskAddr : WriteBack(a)
  <2>1. runq' = runq /\ pc' = pc
    BY <1>9 DEF Remove, Reopen, vars, WriteBack, taskVars
  <2> QED
    BY <2>1, FrameKeepsTurn DEF Woken
<1>10. ~(Close \/ Exit \/ PowerLoss)
  BY DEF Close, Exit, PowerLoss, Stopped
<1>11. CASE \E t \in Task : Step(t)
  <2>1. PICK t \in Task : Step(t)
    BY <1>11
  <2> QED
    BY <1>3, <1>4, <1>5, <1>6, <1>7, <2>1 DEF Step
<1>12. CASE \/ \E t \in Task, r \in Requests : Submit(t, r)
            \/ \E t \in Task : Abort(t) \/ CommandFails(t) \/ CommitFails(t)
            \/ \E q \in Queue : LoopFails(q)
  BY <1>1, <1>2, <1>7, <1>8, <1>12
<1> QED
  BY <1>9, <1>10, <1>11, <1>12 DEF Next

(* A woken task is never overtaken: every task of its queue is taken up at *)
(* most once while it waits, and only if it was in front (io_task,         *)
(* open.rs:163; queue_handler, open.rs:181).                               *)
THEOREM TurnsAreKept == Spec => NoOvertaking
<1>1. ASSUME TypeOK, QueueInv, [Next]_vars
      PROVE  [\A t \in Task :
                running' /\ Woken(t) /\ Woken(t)' =>
                  /\ Ahead(t)' \subseteq Ahead(t)
                  /\ \A u \in Task :
                       u[1] = t[1] /\ Woken(u) /\ ~Woken(u)' =>
                         u \in Ahead(t) \ Ahead(t)']_vars
  BY <1>1, TurnStep DEF KeepsTurn
<1> QED
  BY <1>1, Queues, Types, PTL DEF Spec, NoOvertaking

-----------------------------------------------------------------------------
(* What a step does with the request of a tag. *)
Kept(t) ==
  pc'[t] = pc[t] /\ done'[t] = done[t] /\ buf'[t] = buf[t] /\ res'[t] = res[t]

Proceeds(t) ==
  Handled(t) /\ Handled(t)' =>
    /\ iod'[t] = iod[t]
    /\ \/ Kept(t)
       \/ Stage[pc[t]] < Stage[pc'[t]]
       \/ pc'[t] = pc[t] /\ done[t] < done'[t] /\ done'[t] <= Bytes(iod[t])

(* The steps of the task of a tag: its polls and its calls on the target   *)
(* are each a step forward, the driver takes and gives a request only      *)
(* outside the handling of another.                                        *)
LEMMA OwnStepProceeds ==
  ASSUME TypeOK, NEW t \in Task,
         \/ Step(t) \/ Abort(t) \/ CommandFails(t) \/ CommitFails(t)
         \/ \E r \in Requests : Submit(t, r)
  PROVE  Proceeds(t)
<1>1. CASE Start(t) \/ Reject(t)
  <2>1. /\ pc[t] = "queued" /\ pc'[t] \in {"io", "commit"} /\ iod' = iod
    BY <1>1 DEF TypeOK, Start, Reject, Poll
  <2>2. Stage["queued"] < Stage["io"] /\ Stage["queued"] < Stage["commit"]
    BY DEF Stage
  <2> QED
    BY <2>1, <2>2 DEF Proceeds
<1>2. CASE \E n \in 1 .. IoBufLen : ReadChunk(t, n) \/ WriteChunk(t, n)
  <2>1. PICK n \in 1 .. IoBufLen : ReadChunk(t, n) \/ WriteChunk(t, n)
    BY <1>2
  <2>2. /\ iod' = iod /\ pc' = pc /\ done' = [done EXCEPT ![t] = @ + n]
        /\ done[t] + n <= Bytes(iod[t])
    BY <2>1 DEF ReadChunk, WriteChunk
  <2>3. done[t] \in Nat /\ done'[t] = done[t] + n /\ n \in Nat /\ n >= 1
    BY <2>2, GeometryAssumption DEF TypeOK
  <2> QED
    BY <2>2, <2>3 DEF Proceeds
<1>3. CASE Return(t) \/ Sync(t) \/ IoError(t)
  <2>1. pc[t] = "io" /\ pc'[t] = "commit" /\ iod' = iod
    BY <1>3 DEF TypeOK, Return, Sync, IoError, InIo
  <2>2. Stage["io"] < Stage["commit"]
    BY DEF Stage
  <2> QED
    BY <2>1, <2>2 DEF Proceeds
<1>4. CASE Prep(t) \/ Finish(t) \/ Abort(t) \/ CommandFails(t)
  BY <1>4 DEF Proceeds, Handled, Prep, Finish, Abort, CommandFails
<1>5. CASE \E r \in Requests : Submit(t, r)
  BY <1>5 DEF Proceeds, Handled, Submit
<1>6. CASE Commit(t) \/ CommitFails(t)
  BY <1>6 DEF TypeOK, Proceeds, Handled, Commit, CommitFails
<1> QED
  BY <1>1, <1>2, <1>3, <1>4, <1>5, <1>6 DEF Step

(* A step of one tag leaves the others with what they have. *)
LEMMA OtherStepKeeps ==
  ASSUME TypeOK, NEW u \in Task, NEW t \in Task \ {u},
         \/ Step(u) \/ Abort(u) \/ CommandFails(u) \/ CommitFails(u)
         \/ \E r \in Requests : Submit(u, r)
  PROVE  iod'[t] = iod[t] /\ Kept(t)
<1> USE DEF TypeOK, Kept
<1>1. CASE Prep(u) \/ Finish(u) \/ Reject(u) \/ Start(u)
  BY <1>1 DEF Prep, Finish, Reject, Start, Poll
<1>2. CASE \E n \in 1 .. IoBufLen : ReadChunk(u, n) \/ WriteChunk(u, n)
  BY <1>2 DEF ReadChunk, WriteChunk
<1>3. CASE Return(u) \/ Sync(u) \/ IoError(u) \/ Commit(u)
  BY <1>3 DEF Return, Sync, IoError, Commit
<1>4. CASE Abort(u) \/ CommandFails(u) \/ CommitFails(u)
  BY <1>4 DEF Abort, CommandFails, CommitFails
<1>5. CASE \E r \in Requests : Submit(u, r)
  BY <1>5 DEF Submit
<1> QED
  BY <1>1, <1>2, <1>3, <1>4, <1>5 DEF Step

(* A request is handled once and forwards (handle_io, open.rs:132).        *)
THEOREM RequestsProceed == Spec => HandlingProceeds
<1>1. ASSUME TypeOK, [Next]_vars, NEW t \in Task
      PROVE  Proceeds(t)
  <2>1. ASSUME NEW u \in Task,
               \/ Step(u) \/ Abort(u) \/ CommandFails(u) \/ CommitFails(u)
               \/ \E r \in Requests : Submit(u, r)
        PROVE  Proceeds(t)
    <3>1. CASE u = t
      BY <1>1, <2>1, <3>1, OwnStepProceeds
    <3>2. CASE u # t
      BY <1>1, <2>1, <3>2, OtherStepKeeps DEF Proceeds
    <3> QED
      BY <3>1, <3>2
  <2>2. ASSUME NEW q \in Queue, LoopFails(q) PROVE Proceeds(t)
    <3>1. UNCHANGED <<iod, buf, done, res>>
      BY <2>2 DEF LoopFails
    <3>2. pc'[t] = pc[t] \/ pc'[t] \in {"dropped", "finished"}
      BY <2>2 DEF LoopFails
    <3> QED
      BY <3>1, <3>2 DEF Proceeds, Kept, Handled
  <2>3. CASE Remove \/ Reopen \/ UNCHANGED vars \/ \E a \in DiskAddr : WriteBack(a)
    BY <2>3 DEF Proceeds, Kept, Remove, Reopen, WriteBack, vars, taskVars
  <2>4. CASE Close \/ Exit \/ PowerLoss
    <3>1. pc'[t] = "start"
      BY <2>4 DEF Close, Exit, PowerLoss, Stopped, AllTasks
    <3> QED
      BY <3>1 DEF Proceeds, Handled
  <2> QED
    BY <1>1, <2>1, <2>2, <2>3, <2>4 DEF Next
<1>2. ASSUME TypeOK, [Next]_vars
      PROVE  [\A t \in Task :
                Handled(t) /\ Handled(t)' =>
                  /\ iod'[t] = iod[t]
                  /\ \/ /\ pc'[t] = pc[t] /\ done'[t] = done[t]
                        /\ buf'[t] = buf[t] /\ res'[t] = res[t]
                     \/ Stage[pc[t]] < Stage[pc'[t]]
                     \/ /\ pc'[t] = pc[t]
                        /\ done[t] < done'[t] /\ done'[t] <= Bytes(iod[t])]_vars
  BY <1>1, <1>2 DEF Proceeds, Kept
<1> QED
  BY <1>2, Types, PTL DEF Spec, HandlingProceeds
=============================================================================
