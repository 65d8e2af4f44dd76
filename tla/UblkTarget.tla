----------------------------- MODULE UblkTarget -----------------------------
(***************************************************************************)
(* `hazmat open` once the header is read (src/src/cmd/open.rs): the queues *)
(* of the ublk device, the task of every tag, the request handler and the  *)
(* calls it makes on the backing target through src/src/io.rs.             *)
(*                                                                         *)
(* A queue is a thread with a single-threaded executor.  It polls its      *)
(* tasks one at a time in the order they were woken, and a poll runs       *)
(* handle_io to its end: other tasks of the queue wait, the other queues   *)
(* do not.  A call of pread(2) or pwrite(2) moves some of the words asked  *)
(* for, which is one step here; the loops of read_exact_at and             *)
(* write_all_at repeat it.                                                 *)
(*                                                                         *)
(* Sizes are in words.  An LBA is a sector number of the backing target.   *)
(***************************************************************************)
EXTENDS SectorCipher, Sequences, FiniteSets

CONSTANTS
  NrQueues,     \* threads of the ublk device; 4 in the code
  QueueDepth,   \* tags of a queue; 64 in the code
  DiskSectors,  \* sectors of the backing target
  StartingLba,  \* first payload sector, from the header
  EndingLba,    \* last payload sector, from the header
  IoBufLen,     \* words of a request buffer, IO_BUFFER_LEN in the code
  Requests,     \* requests the block layer may send
  Garbage,      \* what the target holds when the device is first opened
  Faults        \* what may fail: "power", "signal", "error" (a call on the
                \* target), "uring" (a command or the event loop of a queue)

Task == (0 .. NrQueues - 1) \X (0 .. QueueDepth - 1)

Queue == 0 .. NrQueues - 1

Ops == {"READ", "WRITE", "FLUSH", "OTHER"}

DiskAddr == 0 .. DiskSectors * WordsPerSector - 1

ShadowSize == (EndingLba - StartingLba + 1) * WordsPerSector

ShadowAddr == 0 .. ShadowSize - 1

ASSUME GeometryAssumption ==
  /\ NrQueues \in Nat /\ QueueDepth \in Nat
  /\ DiskSectors \in Nat /\ StartingLba \in Nat /\ EndingLba \in Nat
  /\ StartingLba <= EndingLba
  /\ EndingLba < DiskSectors
  /\ IoBufLen \in Nat
  /\ Garbage \in [DiskAddr -> Word]

ASSUME RequestAssumption ==
  \A r \in Requests :
    /\ r.op \in Ops
    /\ r.start \in Nat
    /\ r.nr \in Nat
    /\ r.op = "WRITE" => r.data \in [0 .. r.nr * WordsPerSector - 1 -> Word]

EIO    == -5
EINVAL == -22

NoRequest == [op |-> "none", start |-> 0, nr |-> 0, data |-> <<>>]

VARIABLES
  backing,  \* the backing target as pread(2) sees it
  durable,  \* what of it survives a power loss
  running,  \* the process serves the device
  down,     \* the device is being removed
  pc,       \* where the task of a tag is
  iod,      \* its request
  buf,      \* its buffer; for a write, the encrypted copy of it
  done,     \* words moved so far
  res,      \* what it answers
  runq,     \* per queue, the woken tasks in order
  seen      \* history: the values each word of a read in flight has held

vars == <<backing, durable, running, down, pc, iod, buf, done, res, runq, seen>>
taskVars == <<pc, iod, buf, done, res>>

-----------------------------------------------------------------------------
(* handle_io: iod.start_sector << 9 and iod.nr_sectors << 9 *)
Offset(r) == r.start * WordsPerSector
Bytes(r)  == r.nr * WordsPerSector

(* Mutant: the end of the request is not checked. *)
InRangeStartOnly(offset, len) ==
  /\ offset % WordsPerSector = 0
  /\ len % WordsPerSector = 0
  /\ offset <= ShadowSize

(* backing_offset rejects what is unaligned or ends past the device. *)
InRange(offset, len) ==
  /\ offset % WordsPerSector = 0
  /\ len % WordsPerSector = 0
  /\ offset + len <= ShadowSize

(* Mutant: the payload taken for the beginning of the target. *)
BackingOffsetFromZero(offset) == offset

BackingOffset(offset) ==
  (StartingLba + offset \div WordsPerSector) * WordsPerSector

Chunk(data, s) == [i \in WordIdx |-> data[s * WordsPerSector + i]]

(* transform_sectors: every sector with the LBA it has on the target. *)
Encrypted(offset, data) ==
  LET first_lba == StartingLba + offset \div WordsPerSector
  IN [j \in DOMAIN data |->
        LET s == j \div WordsPerSector
        IN EncryptSector(first_lba + s, Chunk(data, s))[j % WordsPerSector]]

Decrypted(offset, data) ==
  LET first_lba == StartingLba + offset \div WordsPerSector
  IN [j \in DOMAIN data |->
        LET s == j \div WordsPerSector
        IN DecryptSector(first_lba + s, Chunk(data, s))[j % WordsPerSector]]

(* The device as a reader of it would see content b of the target. *)
Plain(b) ==
  Decrypted(0, [a \in ShadowAddr |-> b[StartingLba * WordsPerSector + a]])

Valid(r) == Bytes(r) <= IoBufLen /\ InRange(Offset(r), Bytes(r))

(* The task has returned: on QueueIsDown, after the error of a command     *)
(* whose result was not delivered, or with its queue while a request waited *)
(* to be handled.                                                          *)
Ended(t) == pc[t] \in {"finished", "failed", "dropped"}

Reading(t) ==
  pc[t] \in {"queued", "io", "dropped"} /\ iod[t].op = "READ" /\ Valid(iod[t])

Extent(r) == Offset(r) .. Offset(r) + Bytes(r) - 1

(* Mutant: a task that has its answer no longer holds the queue up. *)
FreeOnceAnswered(q) == \A t \in Task : t[1] = q => pc[t] # "io"

(* A queue polls one task at a time. *)
Free(q) == \A t \in Task : t[1] = q => pc[t] \notin {"io", "commit"}

(* Mutant: every task woken in the first queue. *)
WakeFirstQueue(t) == runq' = [runq EXCEPT ![0] = Append(@, t)]

(* Mutant: the task woken last polled first. *)
WakeLifo(t) == runq' = [runq EXCEPT ![t[1]] = <<t>> \o @]

Wake(t) == runq' = [runq EXCEPT ![t[1]] = Append(@, t)]

AllTasks(x) == [t \in Task |-> x]

(* Mutant: tags counted from one. *)
SpawnedFromOne == [q \in Queue |-> [i \in 1 .. QueueDepth |-> <<q, i>>]]

(* queue_handler spawns the tasks of a queue in the order of their tags. *)
Spawned == [q \in Queue |-> [i \in 1 .. QueueDepth |-> <<q, i - 1>>]]

-----------------------------------------------------------------------------
Init ==
  /\ backing = Garbage
  /\ durable = Garbage
  /\ running = TRUE
  /\ down = FALSE
  /\ pc = AllTasks("start")
  /\ iod = AllTasks(NoRequest)
  /\ buf = AllTasks(<<>>)
  /\ done = AllTasks(0)
  /\ res = AllTasks(0)
  /\ runq = Spawned
  /\ seen = AllTasks(<<>>)

(* The driver puts a request in a tag it owns and completes the command    *)
(* the task awaits; for a write, the data is already in the buffer.        *)
Submit(t, r) ==
  /\ running /\ ~down
  /\ pc[t] = "idle"
  /\ pc' = [pc EXCEPT ![t] = "queued"]
  /\ iod' = [iod EXCEPT ![t] = r]
  /\ buf' = [buf EXCEPT ![t] = r.data]
  /\ Wake(t)
  /\ LET plain == Plain(backing)
     IN seen' = [seen EXCEPT ![t] =
                   IF r.op = "READ" /\ Valid(r)
                   THEN [a \in Extent(r) |-> {plain[a]}] ELSE <<>>]
  /\ UNCHANGED <<backing, durable, running, down, done, res>>

(* The device is removed: the driver sends nothing more ...                *)
Remove ==
  /\ running /\ ~down
  /\ down' = TRUE
  /\ UNCHANGED <<backing, durable, running, runq, seen>> /\ UNCHANGED taskVars

(* ... and completes the commands it holds with an error. *)
Abort(t) ==
  /\ running /\ down
  /\ pc[t] = "idle"
  /\ pc' = [pc EXCEPT ![t] = "aborted"]
  /\ Wake(t)
  /\ UNCHANGED <<backing, durable, running, down, iod, buf, done, res, seen>>

-----------------------------------------------------------------------------
(* The executor of queue t[1] takes t, the first task of its run queue. *)
Poll(t) ==
  /\ running
  /\ Free(t[1])
  /\ runq[t[1]] # <<>> /\ Head(runq[t[1]]) = t
  /\ runq' = [runq EXCEPT ![t[1]] = Tail(@)]
  /\ UNCHANGED <<backing, durable, running, down, iod, seen>>

(* io_task: submit_io_prep_cmd hands the tag to the driver. *)
Prep(t) ==
  /\ Poll(t)
  /\ pc[t] = "start"
  /\ pc' = [pc EXCEPT ![t] = "idle"]
  /\ UNCHANGED <<buf, done, res>>

(* io_task returns on QueueIsDown, or on another error. *)
Finish(t) ==
  /\ Poll(t)
  /\ pc[t] = "aborted"
  /\ pc' = [pc EXCEPT ![t] = "finished"]
  /\ UNCHANGED <<buf, done, res>>

(* handle_io answers without touching the target: a request longer than    *)
(* the buffer, an operation it does not know, a range it rejects.          *)
Reject(t) ==
  /\ Poll(t)
  /\ pc[t] = "queued"
  /\ \/ /\ Bytes(iod[t]) > IoBufLen \/ iod[t].op = "OTHER"
        /\ res' = [res EXCEPT ![t] = EINVAL]
     \/ /\ Bytes(iod[t]) <= IoBufLen
        /\ iod[t].op \in {"READ", "WRITE"}
        /\ ~InRange(Offset(iod[t]), Bytes(iod[t]))
        /\ res' = [res EXCEPT ![t] = EIO]
  /\ pc' = [pc EXCEPT ![t] = "commit"]
  /\ UNCHANGED <<buf, done>>

(* handle_io enters read_result, write_result or flush_result; a write is  *)
(* encrypted into a copy before any word of it is written.                 *)
Start(t) ==
  /\ Poll(t)
  /\ pc[t] = "queued"
  /\ \/ iod[t].op \in {"READ", "WRITE"} /\ Valid(iod[t])
     \/ iod[t].op = "FLUSH" /\ Bytes(iod[t]) <= IoBufLen
  /\ pc' = [pc EXCEPT ![t] = "io"]
  /\ done' = [done EXCEPT ![t] = 0]
  /\ buf' = [buf EXCEPT ![t] =
               IF iod[t].op = "WRITE" THEN Encrypted(Offset(iod[t]), @)
               ELSE IF iod[t].op = "READ" THEN [j \in 0 .. Bytes(iod[t]) - 1 |-> 0]
               ELSE @]
  /\ UNCHANGED res

InIo(t, op) == running /\ pc[t] = "io" /\ iod[t].op = op

(* Mutant: every pread(2) of a request at its beginning. *)
ReadChunkAtStart(t, n) ==
  LET at == BackingOffset(Offset(iod[t]))
  IN /\ InIo(t, "READ")
     /\ done[t] + n <= Bytes(iod[t])
     /\ buf' = [buf EXCEPT ![t] =
                  [j \in DOMAIN @ |-> IF j \in done[t] .. done[t] + n - 1
                                      THEN backing[at + j - done[t]] ELSE @[j]]]
     /\ done' = [done EXCEPT ![t] = @ + n]
     /\ UNCHANGED <<backing, durable, running, down, pc, iod, res, runq, seen>>

(* One pread(2) of read_exact_at; the last one is followed by the          *)
(* decryption of the whole buffer, in Return.                              *)
ReadChunk(t, n) ==
  LET at == BackingOffset(Offset(iod[t]))
  IN /\ InIo(t, "READ")
     /\ done[t] + n <= Bytes(iod[t])
     /\ buf' = [buf EXCEPT ![t] =
                  [j \in DOMAIN @ |-> IF j \in done[t] .. done[t] + n - 1
                                      THEN backing[at + j] ELSE @[j]]]
     /\ done' = [done EXCEPT ![t] = @ + n]
     /\ UNCHANGED <<backing, durable, running, down, pc, iod, res, runq, seen>>

(* One pwrite(2) of write_all_at. *)
WriteChunk(t, n) ==
  LET at == BackingOffset(Offset(iod[t]))
      written == at + done[t] .. at + done[t] + n - 1
      newBacking == [a \in DiskAddr |-> IF a \in written THEN buf[t][a - at]
                                        ELSE backing[a]]
      plain == Plain(newBacking)
  IN /\ InIo(t, "WRITE")
     /\ done[t] + n <= Bytes(iod[t])
     /\ backing' = newBacking
     /\ done' = [done EXCEPT ![t] = @ + n]
     /\ seen' = [u \in Task |->
                   IF Reading(u)
                   THEN [a \in Extent(iod[u]) |->
                           seen[u][a] \cup {plain[a]}]
                   ELSE seen[u]]
     /\ UNCHANGED <<durable, running, down, pc, iod, buf, res, runq>>

(* read_result and write_result after their loop. *)
Return(t) ==
  /\ running /\ pc[t] = "io" /\ iod[t].op \in {"READ", "WRITE"}
  /\ done[t] = Bytes(iod[t])
  /\ pc' = [pc EXCEPT ![t] = "commit"]
  /\ res' = [res EXCEPT ![t] = Bytes(iod[t])]
  /\ buf' = [buf EXCEPT ![t] =
               IF iod[t].op = "READ" THEN Decrypted(Offset(iod[t]), @) ELSE @]
  /\ UNCHANGED <<backing, durable, running, down, iod, done, runq, seen>>

(* Mutant: a flush answered without fsync(2). *)
SyncNothing(t) ==
  /\ InIo(t, "FLUSH")
  /\ pc' = [pc EXCEPT ![t] = "commit"]
  /\ res' = [res EXCEPT ![t] = 0]
  /\ UNCHANGED <<backing, durable, running, down, iod, buf, done, runq, seen>>

(* flush_result: fsync(2) *)
Sync(t) ==
  /\ InIo(t, "FLUSH")
  /\ durable' = backing
  /\ pc' = [pc EXCEPT ![t] = "commit"]
  /\ res' = [res EXCEPT ![t] = 0]
  /\ UNCHANGED <<backing, running, down, iod, buf, done, runq, seen>>

(* Mutant: a failed call makes the handler begin anew. *)
IoErrorStartsOver(t) ==
  /\ "error" \in Faults
  /\ running /\ pc[t] = "io"
  /\ iod[t].op = "FLUSH" \/ done[t] < Bytes(iod[t])
  /\ done' = [done EXCEPT ![t] = 0]
  /\ UNCHANGED <<backing, durable, running, down, pc, iod, buf, res, runq, seen>>

(* A call of the target fails, or moves no word: the handler gives up      *)
(* where it is.                                                            *)
IoError(t) ==
  /\ "error" \in Faults
  /\ running /\ pc[t] = "io"
  /\ iod[t].op = "FLUSH" \/ done[t] < Bytes(iod[t])
  /\ pc' = [pc EXCEPT ![t] = "commit"]
  /\ res' = [res EXCEPT ![t] = EIO]
  /\ UNCHANGED <<backing, durable, running, down, iod, buf, done, runq, seen>>

(* submit_io_commit_cmd gives the driver the result and the tag back. *)
Commit(t) ==
  /\ running /\ pc[t] = "commit"
  /\ pc' = [pc EXCEPT ![t] = "idle"]
  /\ iod' = [iod EXCEPT ![t] = NoRequest]
  /\ buf' = [buf EXCEPT ![t] = <<>>]
  /\ done' = [done EXCEPT ![t] = 0]
  /\ res' = [res EXCEPT ![t] = 0]
  /\ seen' = [seen EXCEPT ![t] = <<>>]
  /\ UNCHANGED <<backing, durable, running, down, runq>>

(* The command a task awaits ends with an error of its own: the tag is not *)
(* prepared again.                                                         *)
CommandFails(t) ==
  /\ "uring" \in Faults
  /\ running /\ pc[t] = "idle"
  /\ pc' = [pc EXCEPT ![t] = "aborted"]
  /\ Wake(t)
  /\ UNCHANGED <<backing, durable, running, down, iod, buf, done, res, seen>>

(* submit_io_commit_cmd fails: the task ends and the driver never gets the *)
(* result of the request.                                                  *)
CommitFails(t) ==
  /\ "uring" \in Faults
  /\ running /\ pc[t] = "commit"
  /\ pc' = [pc EXCEPT ![t] = "failed"]
  /\ UNCHANGED <<backing, durable, running, down, iod, buf, done, res, runq, seen>>

(* The event loop of queue q fails between two polls: its tasks are gone,  *)
(* the requests they held are not handled any more.                        *)
LoopFails(q) ==
  /\ "uring" \in Faults
  /\ running /\ Free(q)
  /\ \E t \in Task : t[1] = q /\ ~Ended(t)
  /\ pc' = [t \in Task |-> IF t[1] # q \/ Ended(t) THEN pc[t]
                           ELSE IF pc[t] = "queued" THEN "dropped"
                           ELSE "finished"]
  /\ runq' = [runq EXCEPT ![q] = <<>>]
  /\ UNCHANGED <<backing, durable, running, down, iod, buf, done, res, seen>>

-----------------------------------------------------------------------------
(* The page cache of the target is written back at any time; only a power  *)
(* loss tells.                                                             *)
WriteBack(a) ==
  /\ "power" \in Faults
  /\ durable' = [durable EXCEPT ![a] = backing[a]]
  /\ UNCHANGED <<backing, running, down, runq, seen>> /\ UNCHANGED taskVars

(* Nothing of the tasks outlives the process. *)
Stopped ==
  /\ running' = FALSE
  /\ down' = FALSE
  /\ pc' = AllTasks("start")
  /\ iod' = AllTasks(NoRequest)
  /\ buf' = AllTasks(<<>>)
  /\ done' = AllTasks(0)
  /\ res' = AllTasks(0)
  /\ seen' = AllTasks(<<>>)
  /\ runq' = Spawned
  /\ UNCHANGED durable

(* Mutant: the queues wait for tasks that return on QueueIsDown. *)
CloseOnQueueDown ==
  /\ running /\ \A t \in Task : pc[t] = "finished"
  /\ Stopped
  /\ UNCHANGED backing

(* Every task has ended: the queues return, and so does open. *)
Close ==
  /\ running /\ \A t \in Task : Ended(t)
  /\ Stopped
  /\ UNCHANGED backing

(* start_exit_handler: a signal ends the process between any two steps. *)
Exit == "signal" \in Faults /\ running /\ Stopped /\ UNCHANGED backing

(* The machine loses power, or the stick is pulled out. *)
PowerLoss == "power" \in Faults /\ running /\ Stopped /\ backing' = durable

(* The device is opened again, with the same header and password. *)
Reopen ==
  /\ ~running
  /\ running' = TRUE
  /\ UNCHANGED <<backing, durable, down, runq, seen>> /\ UNCHANGED taskVars

Step(t) ==
  \/ Prep(t) \/ Finish(t) \/ Reject(t) \/ Start(t)
  \/ \E n \in 1 .. IoBufLen : ReadChunk(t, n) \/ WriteChunk(t, n)
  \/ Return(t) \/ Sync(t) \/ IoError(t) \/ Commit(t)

Next ==
  \/ \E t \in Task, r \in Requests : Submit(t, r)
  \/ \E t \in Task : Step(t) \/ Abort(t) \/ CommandFails(t) \/ CommitFails(t)
  \/ \E q \in Queue : LoopFails(q)
  \/ \E a \in DiskAddr : WriteBack(a)
  \/ Remove \/ Close \/ Exit \/ PowerLoss \/ Reopen

Spec == Init /\ [][Next]_vars

(* The operating system runs the thread of every queue and completes the   *)
(* calls it makes; the driver answers the commands it holds when the       *)
(* device is removed.  Nobody has to send a request.                       *)
Fairness ==
  /\ \A t \in Task : WF_vars(Step(t)) /\ WF_vars(Abort(t))
  /\ WF_vars(Close)

FairSpec == Spec /\ Fairness

-----------------------------------------------------------------------------
PC == {"start", "idle", "queued", "io", "commit", "aborted",
       "finished", "failed", "dropped"}

(* Every variable has the shape its declaration gives it. *)
TypeOK ==
  /\ backing \in [DiskAddr -> Word]
  /\ durable \in [DiskAddr -> Word]
  /\ running \in BOOLEAN
  /\ down \in BOOLEAN
  /\ pc \in [Task -> PC]
  /\ iod \in [Task -> Requests \cup {NoRequest}]
  /\ DOMAIN buf = Task /\ DOMAIN seen = Task
  /\ done \in [Task -> Nat]
  /\ res \in [Task -> Int]
  /\ runq \in [Queue -> Seq(Task)]

(* The target around the payload is never written: not the header in the   *)
(* sector before it, not the cover filesystem, not what follows            *)
(* (backing_offset, open.rs:27).                                           *)
OutsideUntouched ==
  \A a \in DiskAddr :
    \/ a \div WordsPerSector \in StartingLba .. EndingLba
    \/ backing[a] = Garbage[a] /\ durable[a] = Garbage[a]

(* A read that succeeds gives back, for every word, a plain value that the *)
(* word held at some instant between the arrival of the request and the    *)
(* answer, whatever the other tags wrote meanwhile and however the target  *)
(* split the transfers (read_result, open.rs:83; write_result, open.rs:93).*)
ReadsAreRegular ==
  \A t \in Task :
    pc[t] = "commit" /\ iod[t].op = "READ" /\ res[t] >= 0 =>
      \A j \in 0 .. res[t] - 1 : buf[t][j] \in seen[t][Offset(iod[t]) + j]

Woken(t) == pc[t] \in {"start", "queued", "aborted"}

(* No tag is lost and none is handled twice: a task is in the run queue of *)
(* its own queue exactly when it has something to do, once, and a queue    *)
(* has at most one task in the middle of handle_io (io_task, open.rs:152;  *)
(* queue_handler, open.rs:171).                                            *)
NoTagLost ==
  /\ \A q \in Queue, t \in Task :
       Cardinality({k \in DOMAIN runq[q] : runq[q][k] = t}) =
         IF t[1] = q /\ Woken(t) THEN 1 ELSE 0
  /\ \A t, u \in Task :
       /\ pc[t] \in {"io", "commit"} /\ pc[u] \in {"io", "commit"}
       /\ t[1] = u[1]
       => t = u

(* The tasks that the executor of the queue of t takes before t.           *)
Ahead(t) ==
  LET q == runq[t[1]]
  IN {u \in Task : \E i, j \in DOMAIN q : i < j /\ q[i] = u /\ q[j] = t}

(* A woken task is never overtaken: nobody gets in front of it, and every  *)
(* task of its queue that is taken up while it waits was in front of it    *)
(* and is no longer.  So a tag waits for the other tags of its queue at    *)
(* most once each, however often they are woken meanwhile (io_task,        *)
(* open.rs:163; queue_handler, open.rs:181).                               *)
NoOvertaking ==
  [][\A t \in Task :
       running' /\ Woken(t) /\ Woken(t)' =>
         /\ Ahead(t)' \subseteq Ahead(t)
         /\ \A u \in Task :
              u[1] = t[1] /\ Woken(u) /\ ~Woken(u)' => u \in Ahead(t) \ Ahead(t)']_vars

(* A tag holds a request, from its arrival to its answer. *)
Handled(t) == pc[t] \in {"queued", "io", "commit"}

Stage == [queued |-> 1, io |-> 2, commit |-> 3]

(* A request is handled once and forwards: until it is answered the tag    *)
(* keeps it, no other tag touches its buffer, its position or its result,  *)
(* and its own steps begin a later stage or move words it has not moved    *)
(* before, never past its end (handle_io, open.rs:132; read_exact_at,      *)
(* io.rs:328).  With NoOvertaking this bounds what comes before an answer. *)
HandlingProceeds ==
  [][\A t \in Task :
       Handled(t) /\ Handled(t)' =>
         /\ iod'[t] = iod[t]
         /\ \/ /\ pc'[t] = pc[t] /\ done'[t] = done[t]
               /\ buf'[t] = buf[t] /\ res'[t] = res[t]
            \/ Stage[pc[t]] < Stage[pc'[t]]
            \/ /\ pc'[t] = pc[t]
               /\ done[t] < done'[t] /\ done'[t] <= Bytes(iod[t])]_vars

(* Every request is answered, or its task has ended: a tag waits its turn  *)
(* behind the other tags of its queue, never for ever, and the failure of  *)
(* one task does not stop the others (open.rs:162, open.rs:181).           *)
EveryRequestAnswered ==
  \A t \in Task : Handled(t) ~> ~Handled(t)

(* Once the device is removed every task ends and open returns, whichever  *)
(* tasks and queues have failed before (open.rs:182, open.rs:191).         *)
RemovalEnds == down ~> ~down
=============================================================================
