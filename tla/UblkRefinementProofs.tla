------------------------ MODULE UblkRefinementProofs ------------------------
(***************************************************************************)
(* Proofs that the open device of UblkTarget implements ShadowDevice, that *)
(* its reads are regular and that what was flushed survives, for every     *)
(* number of queues and tags, geometry, key, width of a word and set of    *)
(* requests.                                                               *)
(***************************************************************************)
EXTENDS FlushHistory, UblkProofs

(* A word of the device at address a, from the word x of the target, and   *)
(* the other way round.                                                    *)
Walk(a) == WalkKey(StartingLba + a \div WordsPerSector, a % WordsPerSector)

Clear(a, x) == WordXor(WordXor(x, Walk(a)), Keystream[a % WordsPerSector])

Cipher(a, x) == WordXor(WordXor(x, Keystream[a % WordsPerSector]), Walk(a))

(* The sector and the index of a word.                                     *)
LEMMA Division ==
  ASSUME NEW W \in Nat \ {0}, NEW q \in Nat, NEW r \in 0 .. W - 1
  PROVE  (q * W + r) \div W = q /\ (q * W + r) % W = r
<1> DEFINE x == q * W + r
           d == x \div W
<1>1. x \in Nat /\ q * W \in Nat /\ r \in Nat /\ r < W
  OBVIOUS
<1>2. /\ d \in Nat /\ d * W <= x /\ x < d * W + W /\ d * W \in Nat
      /\ x % W = x - d * W
  BY <1>1
<1>3. x = q * W + r
  OBVIOUS
<1> HIDE DEF x, d
<1>4. ~(d >= q + 1)
  <2> SUFFICES ASSUME d >= q + 1 PROVE FALSE
    OBVIOUS
  <2>1. (q + 1) * W <= d * W /\ (q + 1) * W = q * W + W
    BY <1>2
  <2> QED
    BY <1>1, <1>2, <1>3, <2>1
<1>5. ~(q >= d + 1)
  <2> SUFFICES ASSUME q >= d + 1 PROVE FALSE
    OBVIOUS
  <2>1. (d + 1) * W <= q * W /\ (d + 1) * W = d * W + W
    BY <1>2
  <2> QED
    BY <1>1, <1>2, <1>3, <2>1
<1>6. d = q
  BY <1>2, <1>4, <1>5
<1>7. x % W = r
  BY <1>1, <1>2, <1>3, <1>6
<1> QED
  BY <1>6, <1>7 DEF x, d

(* A word of a buffer that begins at sector s of the device.               *)
LEMMA Place ==
  ASSUME NEW n \in Nat, NEW s \in Nat, NEW j \in 0 .. n * WordsPerSector - 1
  PROVE  /\ j \div WordsPerSector \in Nat /\ j % WordsPerSector \in WordIdx
         /\ (j \div WordsPerSector) * WordsPerSector + (j % WordsPerSector) = j
         /\ (s * WordsPerSector + j) \div WordsPerSector = s + j \div WordsPerSector
         /\ (s * WordsPerSector + j) % WordsPerSector = j % WordsPerSector
         /\ (s * WordsPerSector) \div WordsPerSector = s
<1> DEFINE W == WordsPerSector
           q == j \div W
           r == j % W
<1>1. W \in Nat \ {0}
  BY WordAssumption
<1>2. j \in Nat /\ q \in Nat /\ r \in 0 .. W - 1 /\ j = q * W + r
  BY <1>1
<1> HIDE DEF W, q, r
<1>3. s * W + j = (s + q) * W + r /\ s + q \in Nat /\ s * W + 0 = s * W /\ 0 \in 0 .. W - 1
  BY <1>1, <1>2
<1>4. (s * W + j) \div W = s + q /\ (s * W + j) % W = r
  <2>1. ((s + q) * W + r) \div W = s + q /\ ((s + q) * W + r) % W = r
    BY <1>1, <1>2, <1>3, Division
  <2> QED
    BY <1>3, <2>1
<1>5. (s * W) \div W = s
  <2>1. (s * W + 0) \div W = s
    BY <1>1, <1>3, Division
  <2> QED
    BY <1>3, <2>1
<1> QED
  BY <1>2, <1>4, <1>5 DEF W, q, r, WordIdx

(* transform_sectors works word by word (open.rs:55).                      *)
LEMMA BufferWord ==
  ASSUME NEW n \in Nat, NEW s \in Nat, NEW data, DOMAIN data = 0 .. n * WordsPerSector - 1,
         NEW j \in 0 .. n * WordsPerSector - 1
  PROVE  /\ Encrypted(s * WordsPerSector, data)[j] = Cipher(s * WordsPerSector + j, data[j])
         /\ Decrypted(s * WordsPerSector, data)[j] = Clear(s * WordsPerSector + j, data[j])
<1> DEFINE q == j \div WordsPerSector
           r == j % WordsPerSector
<1>1. /\ q \in Nat /\ r \in WordIdx
      /\ q * WordsPerSector + r = j
      /\ (s * WordsPerSector + j) \div WordsPerSector = s + q
      /\ (s * WordsPerSector + j) % WordsPerSector = r
      /\ (s * WordsPerSector) \div WordsPerSector = s
  BY Place
<1>2. /\ Encrypted(s * WordsPerSector, data)[j]
           = EncryptSector(StartingLba + s + q, Chunk(data, q))[r]
      /\ Decrypted(s * WordsPerSector, data)[j]
           = DecryptSector(StartingLba + s + q, Chunk(data, q))[r]
  BY <1>1 DEF Encrypted, Decrypted
<1> HIDE DEF q, r
<1>3. Chunk(data, q)[r] = data[j]
  BY <1>1 DEF Chunk
<1>4. StartingLba + s + q = StartingLba + (s + q)
  BY <1>1, GeometryAssumption
<1>5. /\ EncryptSector(StartingLba + s + q, Chunk(data, q))[r]
           = WordXor(WordXor(data[j], Keystream[r]), WalkKey(StartingLba + (s + q), r))
      /\ DecryptSector(StartingLba + s + q, Chunk(data, q))[r]
           = WordXor(WordXor(data[j], WalkKey(StartingLba + (s + q), r)), Keystream[r])
  BY <1>1, <1>3, <1>4 DEF EncryptSector, DecryptSector, XorWalk, ApplyKeystream
<1> QED
  BY <1>1, <1>2, <1>5 DEF Clear, Cipher, Walk

(* What is written in cipher is read in clear.                             *)
LEMMA ClearCipher ==
  ASSUME NEW a \in Nat, NEW x \in Word
  PROVE  Clear(a, x) \in Word /\ Clear(a, Cipher(a, x)) = x
<1>1. WordsPerSector \in Nat \ {0} /\ StartingLba \in Nat
  BY WordAssumption, GeometryAssumption
<1>2. a \div WordsPerSector \in Nat /\ a % WordsPerSector \in WordIdx
  BY <1>1 DEF WordIdx
<1>3. Walk(a) \in Word /\ Keystream[a % WordsPerSector] \in Word
  BY <1>1, <1>2, WalkKeyType, WordAssumption DEF Walk, Sector
<1>4. \A y, z \in Word : WordXor(y, z) \in Word
  BY XorAssumption
<1> QED
  BY <1>3, <1>4, XorCancel DEF Clear, Cipher

(* The device, word by word.                                               *)
LEMMA PlainWord ==
  ASSUME NEW b
  PROVE  Plain(b) = [a \in ShadowAddr |-> Clear(a, b[StartingLba * WordsPerSector + a])]
<1> DEFINE n == EndingLba - StartingLba + 1
           data == [a \in ShadowAddr |-> b[StartingLba * WordsPerSector + a]]
<1>1. n \in Nat /\ ShadowAddr = 0 .. n * WordsPerSector - 1
  BY GeometryAssumption DEF ShadowAddr, ShadowSize
<1>2. WordsPerSector \in Nat /\ 0 * WordsPerSector = 0
  BY WordAssumption
<1>3. Plain(b) = Decrypted(0, data) /\ DOMAIN data = ShadowAddr
  BY DEF Plain
<1>4. ASSUME NEW a \in ShadowAddr
      PROVE  Decrypted(0, data)[a] = Clear(a, data[a])
  <2>1. 0 + a = a
    BY <1>1, <1>2
  <2>2. DOMAIN data = 0 .. n * WordsPerSector - 1 /\ a \in 0 .. n * WordsPerSector - 1
    BY <1>1
  <2> HIDE DEF n, data
  <2>3. ASSUME NEW s \in Nat
        PROVE  Decrypted(s * WordsPerSector, data)[a] = Clear(s * WordsPerSector + a, data[a])
    BY <1>1, <2>2, BufferWord
  <2>4. Decrypted(0 * WordsPerSector, data)[a] = Clear(0 * WordsPerSector + a, data[a])
    BY <2>3
  <2> QED
    BY <1>2, <2>1, <2>4
<1>5. \A a \in ShadowAddr : data[a] = b[StartingLba * WordsPerSector + a]
  OBVIOUS
<1> HIDE DEF data
<1>6. Decrypted(0, data) = [a \in ShadowAddr |-> Decrypted(0, data)[a]]
  BY <1>3 DEF Decrypted
<1> QED
  BY <1>3, <1>4, <1>5, <1>6

(* A valid request and where its words are.                                *)
LEMMA ValidRequest ==
  ASSUME NEW r \in Requests, Valid(r)
  PROVE  /\ Offset(r) \in Nat /\ Bytes(r) \in Nat
         /\ Offset(r) + Bytes(r) <= ShadowSize /\ ShadowSize \in Nat
         /\ Extent(r) \subseteq ShadowAddr
         /\ \A j \in 0 .. Bytes(r) - 1 : Offset(r) + j \in Extent(r)
         /\ BackingOffset(Offset(r)) = StartingLba * WordsPerSector + Offset(r)
         /\ r.start \in Nat /\ r.nr \in Nat
<1>1. /\ r.start \in Nat /\ r.nr \in Nat /\ WordsPerSector \in Nat \ {0}
      /\ StartingLba \in Nat /\ EndingLba \in Nat /\ StartingLba <= EndingLba
  BY RequestAssumption, WordAssumption, GeometryAssumption
<1>2. Offset(r) \in Nat /\ Bytes(r) \in Nat /\ ShadowSize \in Nat
  BY <1>1 DEF Offset, Bytes, ShadowSize
<1>3. Offset(r) + Bytes(r) <= ShadowSize
  BY DEF Valid, InRange
<1>4. /\ Extent(r) \subseteq ShadowAddr
      /\ \A j \in 0 .. Bytes(r) - 1 : Offset(r) + j \in Extent(r)
  BY <1>2, <1>3 DEF Extent, ShadowAddr
<1>5. BackingOffset(Offset(r)) = StartingLba * WordsPerSector + Offset(r)
  <2>1. (r.start * WordsPerSector + 0) \div WordsPerSector = r.start
    <3>1. 0 \in 0 .. WordsPerSector - 1
      BY <1>1
    <3> QED
      BY <1>1, <3>1, Division
  <2>2. Offset(r) \div WordsPerSector = r.start
    <3>1. r.start * WordsPerSector + 0 = r.start * WordsPerSector
      BY <1>1
    <3> QED
      BY <2>1, <3>1 DEF Offset
  <2>3. (StartingLba + r.start) * WordsPerSector
          = StartingLba * WordsPerSector + r.start * WordsPerSector
    BY <1>1
  <2> QED
    BY <2>2, <2>3 DEF BackingOffset, Offset
<1> QED
  BY <1>1, <1>2, <1>3, <1>4, <1>5

-----------------------------------------------------------------------------
(* What ties the words of a request in flight to the device: a read has    *)
(* noted the present value of each of its words, and what it has fetched   *)
(* is one of those it noted, in cipher; what a write has left to move is   *)
(* its data in cipher.                                                     *)
Noted(t) ==
  Reading(t) => \A a \in Extent(iod[t]) : Plain(backing)[a] \in seen[t][a]

Fetched(t) ==
  pc[t] = "io" /\ iod[t].op = "READ" =>
    /\ Valid(iod[t]) /\ done[t] <= Bytes(iod[t])
    /\ DOMAIN buf[t] = 0 .. Bytes(iod[t]) - 1
    /\ \A j \in 0 .. done[t] - 1 :
         Clear(Offset(iod[t]) + j, buf[t][j]) \in seen[t][Offset(iod[t]) + j]

Read(t) ==
  pc[t] = "commit" /\ iod[t].op = "READ" /\ res[t] >= 0 =>
    /\ Valid(iod[t]) /\ res[t] = Bytes(iod[t])
    /\ \A j \in 0 .. Bytes(iod[t]) - 1 : buf[t][j] \in seen[t][Offset(iod[t]) + j]

Sealed(t) ==
  pc[t] = "io" /\ iod[t].op = "WRITE" =>
    /\ Valid(iod[t]) /\ done[t] <= Bytes(iod[t])
    /\ \A j \in 0 .. Bytes(iod[t]) - 1 :
         buf[t][j] = Cipher(Offset(iod[t]) + j, iod[t].data[j])

Unmoved(t) == pc[t] \in {"start", "idle", "queued"} => done[t] = 0

WordsInv(t) == Noted(t) /\ Fetched(t) /\ Read(t) /\ Sealed(t) /\ Unmoved(t)

TransferInv == \A t \in Task : WordsInv(t)

(* Nothing happens to a task that a step leaves alone.                     *)
LEMMA WordsFrame ==
  ASSUME NEW u \in Task, WordsInv(u), backing' = backing, seen'[u] = seen[u],
         pc'[u] = pc[u], iod'[u] = iod[u], buf'[u] = buf[u], done'[u] = done[u],
         res'[u] = res[u]
  PROVE  WordsInv(u)'
<1>1. Plain(backing)' = Plain(backing)
  BY DEF Plain
<1> QED
  BY <1>1 DEF WordsInv, Noted, Fetched, Read, Sealed, Unmoved, Reading

(* A task that moves no words.                                             *)
LEMMA WordsIdle ==
  ASSUME NEW u \in Task, pc'[u] \in {"start", "idle", "aborted", "finished", "failed", "commit"},
         pc'[u] \in {"start", "idle"} => done'[u] = 0,
         pc'[u] = "commit" => iod'[u].op # "READ" \/ ~(res'[u] >= 0)
  PROVE  WordsInv(u)'
BY DEF WordsInv, Noted, Fetched, Read, Sealed, Unmoved, Reading

(* The driver, the failures and the process keep the words in order.       *)
LEMMA DriverWords ==
  ASSUME IInv, TransferInv, NEW t \in Task
  PROVE  /\ \A r \in Requests : Submit(t, r) => TransferInv'
         /\ Abort(t) \/ CommandFails(t) \/ CommitFails(t) \/ Commit(t) => TransferInv'
<1> USE DEF IInv
<1>1. ASSUME NEW r \in Requests, Submit(t, r) PROVE TransferInv'
  <2>1. \A u \in Task \ {t} :
          /\ backing' = backing /\ seen'[u] = seen[u] /\ pc'[u] = pc[u]
          /\ iod'[u] = iod[u] /\ buf'[u] = buf[u] /\ done'[u] = done[u] /\ res'[u] = res[u]
    BY <1>1 DEF TypeOK, Submit
  <2>2. /\ pc[t] = "idle" /\ pc'[t] = "queued" /\ iod'[t] = r /\ done'[t] = done[t]
        /\ backing' = backing
        /\ r.op = "READ" /\ Valid(r) =>
             seen'[t] = [a \in Extent(r) |-> {Plain(backing)[a]}]
    BY <1>1 DEF TypeOK, Submit
  <2>3. done[t] = 0
    BY <2>2 DEF TransferInv, WordsInv, Unmoved
  <2>4. Plain(backing)' = Plain(backing)
    BY <2>2 DEF Plain
  <2>5. Noted(t)'
    BY <2>2, <2>4 DEF Noted, Reading
  <2>6. WordsInv(t)'
    BY <2>2, <2>3, <2>5 DEF WordsInv, Fetched, Read, Sealed, Unmoved
  <2>7. \A u \in Task \ {t} : WordsInv(u)'
    BY <2>1, WordsFrame DEF TransferInv
  <2> QED
    BY <2>6, <2>7 DEF TransferInv
<1>2. ASSUME Abort(t) \/ CommandFails(t) \/ CommitFails(t) \/ Commit(t)
      PROVE  TransferInv'
  <2>1. \A u \in Task \ {t} :
          /\ backing' = backing /\ seen'[u] = seen[u] /\ pc'[u] = pc[u]
          /\ iod'[u] = iod[u] /\ buf'[u] = buf[u] /\ done'[u] = done[u] /\ res'[u] = res[u]
    BY <1>2 DEF TypeOK, Abort, CommandFails, CommitFails, Commit
  <2>2. pc'[t] \in {"aborted", "failed"} \/ (pc'[t] = "idle" /\ done'[t] = 0)
    BY <1>2 DEF TypeOK, Abort, CommandFails, CommitFails, Commit
  <2>3. WordsInv(t)'
    BY <2>2, WordsIdle
  <2>4. \A u \in Task \ {t} : WordsInv(u)'
    BY <2>1, WordsFrame DEF TransferInv
  <2> QED
    BY <2>3, <2>4 DEF TransferInv
<1> QED
  BY <1>1, <1>2

(* So do the failure of a queue, write-back, the removal, the end and the  *)
(* new start of the device.                                                *)
LEMMA ProcessWords ==
  ASSUME IInv, TransferInv
  PROVE  /\ \A q \in Queue : LoopFails(q) => TransferInv'
         /\ \A a \in DiskAddr : WriteBack(a) => TransferInv'
         /\ Remove \/ Reopen \/ UNCHANGED vars => TransferInv'
         /\ Stopped => TransferInv'
<1> USE DEF IInv
<1>1. ASSUME NEW q \in Queue, LoopFails(q) PROVE TransferInv'
  <2> SUFFICES ASSUME NEW u \in Task PROVE WordsInv(u)'
    BY DEF TransferInv
  <2>1. /\ backing' = backing /\ seen'[u] = seen[u]
        /\ iod'[u] = iod[u] /\ buf'[u] = buf[u] /\ done'[u] = done[u] /\ res'[u] = res[u]
        /\ \/ pc'[u] = pc[u] \/ pc'[u] = "finished"
           \/ pc[u] = "queued" /\ pc'[u] = "dropped"
    BY <1>1 DEF TypeOK, LoopFails
  <2>2. CASE pc'[u] = pc[u]
    BY <2>1, <2>2, WordsFrame DEF TransferInv
  <2>3. CASE pc'[u] = "finished"
    BY <2>3, WordsIdle
  <2>4. CASE pc[u] = "queued" /\ pc'[u] = "dropped"
    <3>1. Plain(backing)' = Plain(backing)
      BY <2>1 DEF Plain
    <3>2. Noted(u)
      BY DEF TransferInv, WordsInv
    <3>3. Noted(u)'
      BY <2>1, <2>4, <3>1, <3>2 DEF Noted, Reading
    <3> QED
      BY <2>4, <3>3 DEF WordsInv, Fetched, Read, Sealed, Unmoved
  <2> QED
    BY <2>1, <2>2, <2>3, <2>4
<1>2. ASSUME UNCHANGED <<backing, seen>>, UNCHANGED taskVars PROVE TransferInv'
  BY <1>2, WordsFrame DEF TransferInv, taskVars
<1>3. ASSUME Stopped PROVE TransferInv'
  BY <1>3, WordsIdle DEF TransferInv, Stopped, AllTasks
<1> QED
  BY <1>1, <1>2, <1>3 DEF WriteBack, Remove, Reopen, vars, taskVars

(* A task that is polled: a write is sealed before any word of it moves    *)
(* (write_result, open.rs:93).                                             *)
LEMMA PollWords ==
  ASSUME IInv, TransferInv, NEW t \in Task
  PROVE  Prep(t) \/ Finish(t) \/ Reject(t) \/ Start(t) => TransferInv'
<1> USE DEF IInv
<1>1. ASSUME Prep(t) \/ Finish(t) \/ Reject(t) \/ Start(t), WordsInv(t)' PROVE TransferInv'
  <2>1. \A u \in Task \ {t} :
          /\ backing' = backing /\ seen'[u] = seen[u] /\ pc'[u] = pc[u]
          /\ iod'[u] = iod[u] /\ buf'[u] = buf[u] /\ done'[u] = done[u] /\ res'[u] = res[u]
    BY <1>1 DEF TypeOK, Prep, Finish, Reject, Start, Poll
  <2>2. \A u \in Task \ {t} : WordsInv(u)'
    BY <2>1, WordsFrame DEF TransferInv
  <2> QED
    BY <1>1, <2>2 DEF TransferInv
<1>2. ASSUME Prep(t) PROVE WordsInv(t)'
  <2>1. pc[t] = "start" /\ pc'[t] = "idle" /\ done'[t] = done[t]
    BY <1>2 DEF TypeOK, Prep
  <2>2. done[t] = 0
    BY <2>1 DEF TransferInv, WordsInv, Unmoved
  <2> QED
    BY <2>1, <2>2, WordsIdle
<1>3. ASSUME Finish(t) PROVE WordsInv(t)'
  <2>1. pc'[t] = "finished"
    BY <1>3 DEF TypeOK, Finish
  <2> QED
    BY <2>1, WordsIdle
<1>4. ASSUME Reject(t) PROVE WordsInv(t)'
  <2>1. pc'[t] = "commit" /\ ~(res'[t] >= 0)
    BY <1>4 DEF TypeOK, Reject, EINVAL, EIO
  <2> QED
    BY <2>1, WordsIdle
<1>5. ASSUME Start(t) PROVE WordsInv(t)'
  <2> DEFINE r == iod[t]
  <2>1. /\ pc[t] = "queued" /\ pc'[t] = "io" /\ iod'[t] = iod[t] /\ done'[t] = 0
        /\ backing' = backing /\ seen'[t] = seen[t]
        /\ r \in Requests /\ Noted(t)
        /\ r.op \in {"READ", "WRITE"} => Valid(r)
        /\ r.op = "READ" => buf'[t] = [j \in 0 .. Bytes(r) - 1 |-> 0]
        /\ r.op = "WRITE" => buf'[t] = Encrypted(Offset(r), buf[t]) /\ buf[t] = r.data
    BY <1>5 DEF TypeOK, HandlerInv, WriteOK, TransferInv, WordsInv, Start, Poll
  <2>2. Plain(backing)' = Plain(backing)
    BY <2>1 DEF Plain
  <2>3. Noted(t)'
    BY <2>1, <2>2 DEF Noted, Reading
  <2>4. Valid(r) => 0 <= Bytes(r) /\ 0 .. 0 - 1 = {}
    BY <2>1, ValidRequest
  <2>5. Fetched(t)'
    BY <2>1, <2>4 DEF Fetched
  <2>6. Sealed(t)'
    <3> SUFFICES ASSUME r.op = "WRITE", NEW j \in 0 .. Bytes(r) - 1
                 PROVE  buf'[t][j] = Cipher(Offset(r) + j, r.data[j])
      BY <2>1, <2>4 DEF Sealed
    <3>1. /\ r.start \in Nat /\ r.nr \in Nat
          /\ DOMAIN r.data = 0 .. r.nr * WordsPerSector - 1
      BY <2>1, RequestAssumption
    <3>2. j \in 0 .. r.nr * WordsPerSector - 1
      BY DEF Bytes
    <3> HIDE DEF r
    <3>3. Encrypted(r.start * WordsPerSector, r.data)[j]
            = Cipher(r.start * WordsPerSector + j, r.data[j])
      BY <3>1, <3>2, BufferWord
    <3> QED
      BY <2>1, <3>3 DEF Offset
  <2> QED
    BY <2>1, <2>3, <2>5, <2>6 DEF WordsInv, Read, Unmoved
<1> QED
  BY <1>1, <1>2, <1>3, <1>4, <1>5

(* One pread(2): the words it fetches have been noted (read_exact_at,      *)
(* io.rs:311).                                                             *)
LEMMA ReadWords ==
  ASSUME IInv, TransferInv, NEW t \in Task, NEW n \in 1 .. IoBufLen, ReadChunk(t, n)
  PROVE  TransferInv'
<1> USE DEF IInv
<1> DEFINE r == iod[t]
           at == BackingOffset(Offset(r))
<1>1. \A u \in Task \ {t} :
        /\ backing' = backing /\ seen'[u] = seen[u] /\ pc'[u] = pc[u]
        /\ iod'[u] = iod[u] /\ buf'[u] = buf[u] /\ done'[u] = done[u] /\ res'[u] = res[u]
  BY DEF TypeOK, ReadChunk
<1>2. \A u \in Task \ {t} : WordsInv(u)'
  BY <1>1, WordsFrame DEF TransferInv
<1>3. /\ pc[t] = "io" /\ pc'[t] = "io" /\ r.op = "READ" /\ iod'[t] = r
      /\ backing' = backing /\ seen'[t] = seen[t] /\ done[t] + n <= Bytes(r)
      /\ done'[t] = done[t] + n /\ done[t] \in Nat /\ n \in Nat
      /\ r \in Requests /\ Valid(r) /\ Noted(t)
      /\ DOMAIN buf[t] = 0 .. Bytes(r) - 1
  <2>1. n \in Nat
    BY GeometryAssumption
  <2> QED
    BY <2>1 DEF TypeOK, HandlerInv, TransferInv, WordsInv, Fetched, ReadChunk, InIo
<1>4. \A j \in 0 .. done[t] - 1 : Clear(Offset(r) + j, buf[t][j]) \in seen[t][Offset(r) + j]
  BY <1>3 DEF TransferInv, WordsInv, Fetched
<1>5. buf'[t] = [j \in DOMAIN buf[t] |-> IF j \in done[t] .. done[t] + n - 1
                                         THEN backing[at + j] ELSE buf[t][j]]
  BY DEF TypeOK, ReadChunk
<1>6. \A a \in Extent(r) : Plain(backing)[a] \in seen[t][a]
  BY <1>3 DEF Noted, Reading
<1>7. /\ Offset(r) \in Nat /\ Bytes(r) \in Nat /\ Extent(r) \subseteq ShadowAddr
      /\ \A j \in 0 .. Bytes(r) - 1 : Offset(r) + j \in Extent(r)
      /\ at = StartingLba * WordsPerSector + Offset(r)
      /\ StartingLba * WordsPerSector \in Nat
  <2>1. StartingLba * WordsPerSector \in Nat
    BY GeometryAssumption, WordAssumption
  <2> QED
    BY <1>3, <2>1, ValidRequest
<1> HIDE DEF r, at
<1>8. ASSUME NEW j \in 0 .. done[t] + n - 1
      PROVE  Clear(Offset(r) + j, buf'[t][j]) \in seen[t][Offset(r) + j]
  <2>1. j \in 0 .. Bytes(r) - 1
    BY <1>3, <1>7
  <2>2. CASE j \in 0 .. done[t] - 1
    <3>1. buf'[t][j] = buf[t][j]
      BY <1>3, <1>5, <2>1, <2>2
    <3> QED
      BY <1>4, <2>2, <3>1
  <2>3. CASE j \in done[t] .. done[t] + n - 1
    <3>1. buf'[t][j] = backing[at + j]
      BY <1>3, <1>5, <2>1, <2>3
    <3>2. at + j = StartingLba * WordsPerSector + (Offset(r) + j)
      BY <1>7, <2>1
    <3>3. Plain(backing)[Offset(r) + j]
            = Clear(Offset(r) + j, backing[StartingLba * WordsPerSector + (Offset(r) + j)])
      BY <1>7, <2>1, PlainWord
    <3> QED
      BY <1>6, <1>7, <2>1, <3>1, <3>2, <3>3
  <2> QED
    BY <1>3, <2>2, <2>3
<1>9. Plain(backing)' = Plain(backing)
  BY <1>3 DEF Plain
<1>10. Noted(t)'
  BY <1>3, <1>9 DEF Noted, Reading, r
<1>11. Fetched(t)'
  <2>1. DOMAIN buf'[t] = 0 .. Bytes(r) - 1
    BY <1>3, <1>5
  <2> QED
    BY <1>3, <1>8, <2>1 DEF Fetched, r
<1>12. WordsInv(t)'
  BY <1>3, <1>10, <1>11 DEF WordsInv, Read, Sealed, Unmoved, r
<1> QED
  BY <1>2, <1>12 DEF TransferInv

(* The device lies inside the target.                                      *)
LEMMA PayloadOnDisk ==
  /\ ShadowSize \in Nat /\ StartingLba * WordsPerSector \in Nat
  /\ \A a \in ShadowAddr : StartingLba * WordsPerSector + a \in DiskAddr /\ a \in Nat
<1>1. /\ StartingLba \in Nat /\ EndingLba \in Nat /\ DiskSectors \in Nat
      /\ WordsPerSector \in Nat /\ EndingLba + 1 <= DiskSectors /\ StartingLba <= EndingLba
  BY GeometryAssumption, WordAssumption
<1>2. /\ (EndingLba - StartingLba + 1) * WordsPerSector
           = (EndingLba + 1) * WordsPerSector - StartingLba * WordsPerSector
      /\ (EndingLba + 1) * WordsPerSector <= DiskSectors * WordsPerSector
      /\ StartingLba * WordsPerSector \in Nat /\ DiskSectors * WordsPerSector \in Nat
      /\ (EndingLba + 1) * WordsPerSector \in Nat
      /\ (EndingLba - StartingLba + 1) * WordsPerSector \in Nat
  BY <1>1
<1> QED
  BY <1>2 DEF ShadowAddr, ShadowSize, DiskAddr

(* What one pwrite(2) does to the device.                                  *)
LEMMA WritePlain ==
  ASSUME IInv, TransferInv, NEW t \in Task, NEW n \in 1 .. IoBufLen, WriteChunk(t, n)
  PROVE  LET r == iod[t]
             from == Offset(r) + done[t]
         IN /\ r \in Requests /\ Valid(r) /\ done[t] \in Nat /\ n \in Nat
            /\ from .. from + n - 1 \subseteq Extent(r)
            /\ Plain(backing)' =
                 [a \in ShadowAddr |-> IF a \in from .. from + n - 1
                                       THEN r.data[a - Offset(r)] ELSE Plain(backing)[a]]
<1> USE DEF IInv
<1> DEFINE r == iod[t]
           at == BackingOffset(Offset(r))
           base == StartingLba * WordsPerSector
           from == Offset(r) + done[t]
           written == at + done[t] .. at + done[t] + n - 1
<1>1. /\ pc[t] = "io" /\ r.op = "WRITE" /\ r \in Requests /\ Valid(r)
      /\ done[t] + n <= Bytes(r) /\ done[t] \in Nat /\ n \in Nat \ {0}
      /\ \A j \in 0 .. Bytes(r) - 1 : buf[t][j] = Cipher(Offset(r) + j, r.data[j])
  <2>1. n \in Nat \ {0}
    BY GeometryAssumption
  <2>2. pc[t] = "io" /\ r.op = "WRITE" /\ done[t] + n <= Bytes(r)
    BY DEF WriteChunk, InIo
  <2>3. r \in Requests /\ done[t] \in Nat
    BY <2>2 DEF TypeOK, HandlerInv
  <2>4. Sealed(t)
    BY DEF TransferInv, WordsInv
  <2> QED
    BY <2>1, <2>2, <2>3, <2>4 DEF Sealed
<1>2. /\ Offset(r) \in Nat /\ Bytes(r) \in Nat /\ Extent(r) \subseteq ShadowAddr
      /\ at = base + Offset(r) /\ r.nr \in Nat
  BY <1>1, ValidRequest
<1>3. backing' = [a \in DiskAddr |-> IF a \in written THEN buf[t][a - at] ELSE backing[a]]
  BY DEF WriteChunk
<1>4. /\ base \in Nat
      /\ \A a \in ShadowAddr : base + a \in DiskAddr /\ a \in Nat
  BY PayloadOnDisk
<1>5. r.data \in [0 .. Bytes(r) - 1 -> Word]
  BY <1>1, RequestAssumption DEF Bytes
<1>6. Plain(backing)' = [a \in ShadowAddr |-> Clear(a, backing'[base + a])]
  <2>1. \A b : Plain(b) = [a \in ShadowAddr |-> Clear(a, b[base + a])]
    BY PlainWord
  <2>2. Plain(backing)' = Plain(backing')
    BY DEF Plain, Decrypted
  <2> QED
    BY <2>1, <2>2
<1>7. Plain(backing) = [a \in ShadowAddr |-> Clear(a, backing[base + a])]
  BY PlainWord
<1> HIDE DEF r, at, base
<1>8. ASSUME NEW a \in ShadowAddr
      PROVE  Clear(a, backing'[base + a]) =
               IF a \in from .. from + n - 1 THEN r.data[a - Offset(r)] ELSE Plain(backing)[a]
  <2>1. base + a \in written <=> a \in from .. from + n - 1
    BY <1>1, <1>2, <1>4
  <2>2. CASE a \in from .. from + n - 1
    <3>1. (base + a) - at = a - Offset(r) /\ a - Offset(r) \in 0 .. Bytes(r) - 1
          /\ Offset(r) + (a - Offset(r)) = a
      BY <1>1, <1>2, <1>4, <2>2
    <3>2. backing'[base + a] = buf[t][a - Offset(r)]
      BY <1>3, <1>4, <2>1, <2>2, <3>1
    <3>3. backing'[base + a] = Cipher(a, r.data[a - Offset(r)])
      BY <1>1, <3>1, <3>2 DEF r
    <3>4. r.data[a - Offset(r)] \in Word /\ a \in Nat
      BY <1>4, <1>5, <3>1
    <3> QED
      BY <2>2, <3>3, <3>4, ClearCipher
  <2>3. CASE a \notin from .. from + n - 1
    BY <1>3, <1>4, <1>7, <2>1, <2>3
  <2> QED
    BY <2>2, <2>3
<1>9. from .. from + n - 1 \subseteq Extent(r)
  BY <1>1, <1>2 DEF Extent
<1>10. Plain(backing)' =
         [a \in ShadowAddr |-> IF a \in from .. from + n - 1
                               THEN r.data[a - Offset(r)] ELSE Plain(backing)[a]]
  BY <1>6, <1>8
<1> QED
  BY <1>1, <1>9, <1>10 DEF r

(* One pwrite(2): every read in flight notes what it changes, and what the *)
(* reads have fetched stays noted (write_all_at, io.rs:349).               *)
LEMMA WriteWords ==
  ASSUME IInv, TransferInv, NEW t \in Task, NEW n \in 1 .. IoBufLen, WriteChunk(t, n)
  PROVE  TransferInv'
<1> USE DEF IInv
<1>1. /\ pc' = pc /\ iod' = iod /\ buf' = buf /\ res' = res
      /\ done' = [done EXCEPT ![t] = @ + n] /\ done[t] + n <= Bytes(iod[t])
      /\ pc[t] = "io" /\ iod[t].op = "WRITE"
  BY DEF WriteChunk, InIo
<1>2. seen' = [u \in Task |-> IF Reading(u)
                              THEN [a \in Extent(iod[u]) |-> seen[u][a] \cup {Plain(backing)'[a]}]
                              ELSE seen[u]]
  <2>1. Plain(backing)' = Plain(backing')
    BY DEF Plain, Decrypted
  <2> QED
    BY <2>1 DEF WriteChunk
<1> SUFFICES ASSUME NEW u \in Task PROVE WordsInv(u)'
  BY DEF TransferInv
<1>3. WordsInv(u) /\ (Reading(u)' <=> Reading(u))
  BY <1>1 DEF TransferInv, Reading
<1>4. Noted(u)'
  BY <1>1, <1>2, <1>3 DEF Noted
<1>5. done'[u] = done[u] \/ u = t
  BY <1>1 DEF TypeOK
<1>6. Fetched(u)'
  <2> SUFFICES ASSUME pc[u] = "io", iod[u].op = "READ", Fetched(u)
               PROVE  Fetched(u)'
    BY <1>1, <1>3 DEF WordsInv, Fetched
  <2>1. u # t /\ done'[u] = done[u] /\ Valid(iod[u]) /\ Reading(u)
    BY <1>1, <1>5 DEF Fetched, Reading
  <2>2. iod[u] \in Requests /\ done[u] \in Nat /\ done[u] <= Bytes(iod[u])
    BY DEF TypeOK, HandlerInv, Fetched
  <2>3. \A j \in 0 .. done[u] - 1 : Offset(iod[u]) + j \in Extent(iod[u])
    BY <2>1, <2>2, ValidRequest
  <2>4. \A a \in Extent(iod[u]) : seen[u][a] \subseteq seen'[u][a]
    BY <1>2, <2>1
  <2> QED
    BY <1>1, <2>1, <2>2, <2>3, <2>4 DEF Fetched
<1>7. Read(u)'
  <2> SUFFICES ASSUME pc[u] = "commit" PROVE Read(u)'
    BY <1>1 DEF Read
  <2>1. seen'[u] = seen[u]
    BY <1>2 DEF Reading
  <2> QED
    BY <1>1, <1>3, <2>1 DEF WordsInv, Read
<1>8. Sealed(u)'
  <2>1. CASE u = t
    <3>1. done'[t] = done[t] + n
      BY <1>1 DEF TypeOK
    <3> QED
      BY <1>1, <1>3, <2>1, <3>1 DEF WordsInv, Sealed
  <2>2. CASE u # t
    BY <1>1, <1>3, <1>5, <2>2 DEF WordsInv, Sealed
  <2> QED
    BY <2>1, <2>2
<1>9. Unmoved(u)'
  BY <1>1, <1>3, <1>5 DEF WordsInv, Unmoved
<1> QED
  BY <1>4, <1>6, <1>7, <1>8, <1>9 DEF WordsInv

(* A handler that returns: what it has fetched is decrypted word by word   *)
(* (read_result, open.rs:83).                                              *)
LEMMA AnswerWords ==
  ASSUME IInv, TransferInv, NEW t \in Task
  PROVE  Return(t) \/ Sync(t) \/ IoError(t) => TransferInv'
<1> USE DEF IInv
<1>1. ASSUME Return(t) \/ Sync(t) \/ IoError(t), WordsInv(t)' PROVE TransferInv'
  <2>1. \A u \in Task \ {t} :
          /\ backing' = backing /\ seen'[u] = seen[u] /\ pc'[u] = pc[u]
          /\ iod'[u] = iod[u] /\ buf'[u] = buf[u] /\ done'[u] = done[u] /\ res'[u] = res[u]
    BY <1>1 DEF TypeOK, Return, Sync, IoError
  <2>2. \A u \in Task \ {t} : WordsInv(u)'
    BY <2>1, WordsFrame DEF TransferInv
  <2> QED
    BY <1>1, <2>2 DEF TransferInv
<1>2. ASSUME Sync(t) \/ IoError(t) PROVE WordsInv(t)'
  <2>1. pc'[t] = "commit" /\ (iod'[t].op = "FLUSH" \/ ~(res'[t] >= 0))
    BY <1>2 DEF TypeOK, Sync, IoError, InIo, EIO
  <2> QED
    BY <2>1, WordsIdle
<1>3. ASSUME Return(t) PROVE WordsInv(t)'
  <2> DEFINE r == iod[t]
  <2>1. /\ pc[t] = "io" /\ pc'[t] = "commit" /\ iod'[t] = iod[t] /\ seen'[t] = seen[t]
        /\ r \in Requests /\ done[t] = Bytes(r) /\ res'[t] = Bytes(r)
        /\ r.op = "READ" => buf'[t] = Decrypted(Offset(r), buf[t])
    BY <1>3 DEF TypeOK, HandlerInv, Return
  <2>2. CASE r.op # "READ"
    BY <2>1, <2>2, WordsIdle
  <2>3. CASE r.op = "READ"
    <3>1. /\ Valid(r) /\ DOMAIN buf[t] = 0 .. Bytes(r) - 1
          /\ \A j \in 0 .. Bytes(r) - 1 :
               Clear(Offset(r) + j, buf[t][j]) \in seen[t][Offset(r) + j]
      BY <2>1, <2>3 DEF TransferInv, WordsInv, Fetched
    <3>2. r.start \in Nat /\ r.nr \in Nat
      BY <2>1, <3>1, ValidRequest
    <3> HIDE DEF r
    <3>3. ASSUME NEW j \in 0 .. Bytes(r) - 1
          PROVE  Decrypted(Offset(r), buf[t])[j] = Clear(Offset(r) + j, buf[t][j])
      BY <3>1, <3>2, BufferWord DEF Offset, Bytes
    <3>4. \A j \in 0 .. Bytes(r) - 1 : buf'[t][j] \in seen[t][Offset(r) + j]
      BY <2>1, <2>3, <3>1, <3>3
    <3> QED
      BY <2>1, <3>1, <3>4
         DEF WordsInv, Noted, Fetched, Read, Sealed, Unmoved, Reading, r
  <2> QED
    BY <2>2, <2>3
<1> QED
  BY <1>1, <1>2, <1>3

(* Every step keeps the words in order.                                    *)
LEMMA WordsStep ==
  ASSUME IInv, TransferInv, [Next]_vars
  PROVE  TransferInv'
<1>1. CASE \E t \in Task : Step(t)
  <2>1. PICK t \in Task : Step(t)
    BY <1>1
  <2> QED
    BY <2>1, PollWords, ReadWords, WriteWords, AnswerWords, DriverWords DEF Step
<1>2. CASE \/ \E t \in Task, r \in Requests : Submit(t, r)
           \/ \E t \in Task : Abort(t) \/ CommandFails(t) \/ CommitFails(t)
  BY <1>2, DriverWords
<1>3. CASE \/ \E q \in Queue : LoopFails(q)
           \/ \E a \in DiskAddr : WriteBack(a)
           \/ Remove \/ Close \/ Exit \/ PowerLoss \/ Reopen \/ UNCHANGED vars
  BY <1>3, ProcessWords DEF Close, Exit, PowerLoss
<1> QED
  BY <1>1, <1>2, <1>3 DEF Next

(* The invariants of the device hold together in every reachable state.    *)
THEOREM Transfers == Spec => [](IInv /\ TransferInv)
<1>1. Init => TransferInv
  <2> SUFFICES ASSUME Init, NEW t \in Task PROVE WordsInv(t)
    BY DEF TransferInv
  <2>1. pc[t] = "start" /\ done[t] = 0
    BY DEF Init, AllTasks
  <2> QED
    BY <2>1 DEF WordsInv, Noted, Fetched, Read, Sealed, Unmoved, Reading
<1>2. IInv /\ TransferInv /\ [Next]_vars => TransferInv'
  BY WordsStep
<1> QED
  BY <1>1, <1>2, Inductive, PTL DEF Spec

(* A read gives back, for every word, a value that the word held while the *)
(* read was in flight (read_result, open.rs:83).                           *)
THEOREM RegularReads == Spec => []ReadsAreRegular
<1>1. TransferInv => ReadsAreRegular
  <2> SUFFICES ASSUME TransferInv, NEW t \in Task,
                      pc[t] = "commit", iod[t].op = "READ", res[t] >= 0,
                      NEW j \in 0 .. res[t] - 1
               PROVE  buf[t][j] \in seen[t][Offset(iod[t]) + j]
    BY DEF ReadsAreRegular
  <2>1. Read(t)
    BY DEF TransferInv, WordsInv
  <2> QED
    BY <2>1 DEF Read
<1> QED
  BY <1>1, Transfers, PTL

-----------------------------------------------------------------------------
(* The two modules agree on which requests are valid: the alignment that   *)
(* backing_offset checks follows from whole sectors (open.rs:27).          *)
LEMMA SameRequests ==
  ASSUME NEW r \in Requests
  PROVE  /\ Shadow!First(r) = Offset(r) /\ Shadow!Length(r) = Bytes(r)
         /\ Shadow!Extent(r) = Extent(r)
         /\ Shadow!Valid(r) <=> Valid(r)
<1>1. Shadow!First(r) = Offset(r) /\ Shadow!Length(r) = Bytes(r)
  BY DEF Shadow!First, Shadow!Length, Offset, Bytes
<1>2. Offset(r) % WordsPerSector = 0 /\ Bytes(r) % WordsPerSector = 0
  <2>1. /\ r.start \in Nat /\ r.nr \in Nat /\ WordsPerSector \in Nat \ {0}
        /\ 0 \in 0 .. WordsPerSector - 1
    BY RequestAssumption, WordAssumption
  <2>2. /\ (r.start * WordsPerSector + 0) % WordsPerSector = 0
        /\ (r.nr * WordsPerSector + 0) % WordsPerSector = 0
    BY <2>1, Division
  <2>3. /\ r.start * WordsPerSector + 0 = r.start * WordsPerSector
        /\ r.nr * WordsPerSector + 0 = r.nr * WordsPerSector
    BY <2>1
  <2> QED
    BY <2>2, <2>3 DEF Offset, Bytes
<1> QED
  BY <1>1, <1>2 DEF Shadow!Extent, Extent, Shadow!Valid, Valid, InRange

(* The slot of a task whose variables a step leaves alone is as it was.    *)
LEMMA SlotFrame ==
  ASSUME NEW u \in Task, pc'[u] = pc[u], iod'[u] = iod[u], buf'[u] = buf[u],
         done'[u] = done[u], res'[u] = res[u]
  PROVE  SlotState(u)' = SlotState(u) /\ Moved(u)' = Moved(u) /\ Reply(u)' = Reply(u)
BY DEF SlotState, Moved, Reply

(* A step that changes nothing the shadow device has. *)
LEMMA Stutters ==
  ASSUME backing' = backing, durable' = durable, iod' = iod, seen' = seen,
         \A u \in Task : SlotState(u)' = SlotState(u) /\ Moved(u)' = Moved(u)
                         /\ Reply(u)' = Reply(u)
  PROVE  UNCHANGED Shadow!vars
<1>1. Plain(backing)' = Plain(backing) /\ Plain(durable)' = Plain(durable)
  BY DEF Plain
<1>2. States' = States /\ Applied' = Applied /\ Replies' = Replies
  BY DEF States, Applied, Replies
<1> QED
  BY <1>1, <1>2 DEF Shadow!vars

(* What happens before a request is sent, after its task has ended, and    *)
(* inside a read shows nothing.                                            *)
LEMMA Hidden ==
  ASSUME IInv, TransferInv, NEW t \in Task
  PROVE  /\ Abort(t) \/ CommandFails(t) \/ CommitFails(t) => UNCHANGED Shadow!vars
         /\ Prep(t) \/ Finish(t) \/ Start(t) => UNCHANGED Shadow!vars
         /\ \A n \in 1 .. IoBufLen : ReadChunk(t, n) => UNCHANGED Shadow!vars
<1> USE DEF IInv
<1> DEFINE Same(u) == SlotState(u)' = SlotState(u) /\ Moved(u)' = Moved(u) /\ Reply(u)' = Reply(u)
<1>1. ASSUME Abort(t) \/ CommandFails(t) \/ CommitFails(t) \/ Prep(t) \/ Finish(t)
      PROVE  UNCHANGED Shadow!vars
  <2>1. /\ backing' = backing /\ durable' = durable /\ iod' = iod /\ seen' = seen
        /\ done' = done /\ res' = res /\ buf' = buf
        /\ \A u \in Task \ {t} : pc'[u] = pc[u]
        /\ \/ pc[t] \in {"start", "idle", "aborted"} /\ pc'[t] \in {"idle", "aborted", "finished"}
           \/ pc[t] = "commit" /\ pc'[t] = "failed"
    BY <1>1 DEF TypeOK, Abort, CommandFails, CommitFails, Prep, Finish, Poll
  <2>2. \A u \in Task \ {t} : Same(u)
    BY <2>1, SlotFrame
  <2>3. Same(t)
    BY <2>1 DEF SlotState, Moved, Reply
  <2> QED
    BY <2>1, <2>2, <2>3, Stutters
<1>2. ASSUME Start(t) PROVE UNCHANGED Shadow!vars
  <2>1. /\ backing' = backing /\ durable' = durable /\ iod' = iod /\ seen' = seen /\ res' = res
        /\ \A u \in Task \ {t} : pc'[u] = pc[u] /\ done'[u] = done[u] /\ buf'[u] = buf[u]
        /\ pc[t] = "queued" /\ pc'[t] = "io" /\ done'[t] = 0
    BY <1>2 DEF TypeOK, Start, Poll
  <2>2. done[t] = 0
    BY <2>1 DEF TransferInv, WordsInv, Unmoved
  <2>3. \A u \in Task \ {t} : Same(u)
    BY <2>1, SlotFrame
  <2>4. Same(t)
    BY <2>1, <2>2 DEF SlotState, Moved, Reply
  <2> QED
    BY <2>1, <2>3, <2>4, Stutters
<1>3. ASSUME NEW n \in 1 .. IoBufLen, ReadChunk(t, n) PROVE UNCHANGED Shadow!vars
  <2>1. /\ backing' = backing /\ durable' = durable /\ iod' = iod /\ seen' = seen /\ res' = res
        /\ pc' = pc
        /\ \A u \in Task \ {t} : done'[u] = done[u] /\ buf'[u] = buf[u]
        /\ pc[t] = "io" /\ iod[t].op = "READ"
    BY <1>3 DEF TypeOK, ReadChunk, InIo
  <2>2. \A u \in Task \ {t} : Same(u)
    BY <2>1, SlotFrame
  <2>3. Same(t)
    BY <2>1 DEF SlotState, Moved, Reply
  <2> QED
    BY <2>1, <2>2, <2>3, Stutters
<1> QED
  BY <1>1, <1>2, <1>3

(* The failure of an event loop, the removal and the new start of the      *)
(* device show nothing either.                                             *)
LEMMA HiddenProcess ==
  ASSUME IInv
  PROVE  /\ \A q \in Queue : LoopFails(q) => UNCHANGED Shadow!vars
         /\ Remove \/ Reopen \/ UNCHANGED vars => UNCHANGED Shadow!vars
<1> USE DEF IInv
<1>1. ASSUME NEW q \in Queue, LoopFails(q) PROVE UNCHANGED Shadow!vars
  <2>1. /\ backing' = backing /\ durable' = durable /\ iod' = iod /\ seen' = seen
        /\ done' = done /\ res' = res /\ buf' = buf
    BY <1>1 DEF LoopFails
  <2>2. ASSUME NEW u \in Task
        PROVE  SlotState(u)' = SlotState(u) /\ Moved(u)' = Moved(u) /\ Reply(u)' = Reply(u)
    <3>1. \/ pc'[u] = pc[u]
          \/ pc[u] = "queued" /\ pc'[u] = "dropped"
          \/ pc[u] \in {"start", "idle", "aborted"} /\ pc'[u] = "finished"
      BY <1>1 DEF TypeOK, PC, LoopFails, Ended, Free
    <3> QED
      BY <2>1, <3>1 DEF SlotState, Moved, Reply
  <2> QED
    BY <2>1, <2>2, Stutters
<1>2. ASSUME Remove \/ Reopen \/ UNCHANGED vars PROVE UNCHANGED Shadow!vars
  <2>1. /\ backing' = backing /\ durable' = durable /\ iod' = iod /\ seen' = seen
        /\ done' = done /\ res' = res /\ buf' = buf /\ pc' = pc
    BY <1>2 DEF Remove, Reopen, vars, taskVars
  <2> QED
    BY <2>1, SlotFrame, Stutters
<1> QED
  BY <1>1, <1>2

(* A request is sent.                                                      *)
LEMMA Submits ==
  ASSUME IInv, TransferInv, NEW t \in Task, NEW r \in Requests, Submit(t, r)
  PROVE  Shadow!Submit(t, r)
<1> USE DEF IInv
<1>1. /\ backing' = backing /\ durable' = durable /\ res' = res /\ done' = done
      /\ iod' = [iod EXCEPT ![t] = r]
      /\ \A u \in Task \ {t} : pc'[u] = pc[u] /\ iod'[u] = iod[u] /\ buf'[u] = buf[u]
      /\ pc[t] = "idle" /\ pc'[t] = "queued" /\ iod'[t] = r
      /\ seen' = [seen EXCEPT ![t] = IF r.op = "READ" /\ Valid(r)
                                     THEN [a \in Extent(r) |-> {Plain(backing)[a]}] ELSE <<>>]
  BY DEF TypeOK, Submit
<1>2. done'[t] = 0 /\ Offset(r) \in Nat
  <2>1. Offset(r) \in Nat
    BY RequestAssumption, WordAssumption DEF Offset
  <2> QED
    BY <1>1, <2>1 DEF TransferInv, WordsInv, Unmoved
<1>3. Plain(backing)' = Plain(backing) /\ Plain(durable)' = Plain(durable)
  BY <1>1 DEF Plain
<1>4. \A u \in Task \ {t} : SlotState(u)' = SlotState(u) /\ Moved(u)' = Moved(u)
                            /\ Reply(u)' = Reply(u)
  BY <1>1, SlotFrame
<1>5. SlotState(t) = "none" /\ SlotState(t)' = "pending"
  BY <1>1 DEF SlotState
<1>6. Reply(t)' = Reply(t)
  BY <1>1 DEF Reply
<1>7. Moved(t)' = {}
  <2>1. Offset(r) .. Offset(r) + 0 - 1 = {}
    BY <1>2
  <2> QED
    BY <1>1, <1>2, <2>1 DEF Moved
<1>8. States' = [States EXCEPT ![t] = "pending"] /\ States[t] = "none"
  BY <1>4, <1>5 DEF States
<1>9. Applied' = [Applied EXCEPT ![t] = {}]
  BY <1>4, <1>7 DEF Applied
<1>10. Replies' = Replies
  BY <1>4, <1>6 DEF Replies
<1>11. seen' = [seen EXCEPT ![t] = IF Shadow!Reads(r)
                                   THEN [a \in Shadow!Extent(r) |-> {Plain(backing)[a]}]
                                   ELSE <<>>]
  BY <1>1, SameRequests DEF Shadow!Reads
<1>12. UNCHANGED <<Plain(backing), Plain(durable), Replies>>
  BY <1>3, <1>10
<1>13. iod' = [iod EXCEPT ![t] = r]
  BY <1>1
<1> QED
  BY <1>8, <1>9, <1>11, <1>12, <1>13, Zenon DEF Shadow!Submit

(* A request is answered. *)
LEMMA Answers ==
  ASSUME IInv, TransferInv, NEW t \in Task, Reject(t) \/ Return(t) \/ IoError(t)
  PROVE  Shadow!Answer(t, Replies'[t])
<1> USE DEF IInv
<1>1. /\ backing' = backing /\ durable' = durable /\ done' = done /\ iod' = iod /\ seen' = seen
      /\ \A u \in Task \ {t} : pc'[u] = pc[u] /\ res'[u] = res[u] /\ buf'[u] = buf[u]
      /\ pc[t] \in {"queued", "io"} /\ pc'[t] = "commit"
  BY DEF TypeOK, Reject, Return, IoError, Poll
<1>2. Plain(backing)' = Plain(backing) /\ Plain(durable)' = Plain(durable)
  BY <1>1 DEF Plain
<1>3. \A u \in Task \ {t} : SlotState(u)' = SlotState(u) /\ Reply(u)' = Reply(u)
  BY <1>1, SlotFrame
<1>4. \A u \in Task : Moved(u)' = Moved(u)
  BY <1>1 DEF Moved
<1>5. SlotState(t) = "pending" /\ SlotState(t)' = "answered"
  BY <1>1 DEF SlotState
<1>6. Reply(t)' = [res |-> res'[t], val |-> IF iod[t].op = "READ" THEN buf'[t] ELSE <<>>]
  BY <1>1 DEF Reply
<1>7. /\ States' = [States EXCEPT ![t] = "answered"] /\ States[t] = "pending"
      /\ Applied' = Applied /\ Applied[t] = Moved(t)
      /\ Replies' = [Replies EXCEPT ![t] = Replies'[t]] /\ Replies'[t] = Reply(t)'
  BY <1>3, <1>4, <1>5 DEF States, Applied, Replies
<1>8. ASSUME res'[t] >= 0
      PROVE  \/ /\ Shadow!Writes(iod[t])
                /\ Applied[t] = Shadow!Extent(iod[t])
                /\ res'[t] = Shadow!Length(iod[t])
             \/ /\ Shadow!Reads(iod[t])
                /\ res'[t] = Shadow!Length(iod[t])
                /\ \A k \in 0 .. res'[t] - 1 :
                     buf'[t][k] \in seen[t][Shadow!First(iod[t]) + k]
                /\ iod[t].op = "READ"
  <2>1. Return(t)
    BY <1>8 DEF TypeOK, Reject, IoError, EIO, EINVAL
  <2>2. /\ iod[t] \in Requests /\ iod[t].op \in {"READ", "WRITE"} /\ pc[t] = "io"
        /\ done[t] = Bytes(iod[t]) /\ res'[t] = Bytes(iod[t])
    BY <2>1 DEF TypeOK, HandlerInv, Return
  <2>3. CASE iod[t].op = "WRITE"
    <3>1. Valid(iod[t])
      BY <2>2, <2>3 DEF TransferInv, WordsInv, Sealed
    <3>2. Moved(t) = Extent(iod[t])
      BY <2>2, <2>3 DEF Moved, Extent
    <3> QED
      BY <1>7, <2>2, <2>3, <3>1, <3>2, SameRequests DEF Shadow!Writes
  <2>4. CASE iod[t].op = "READ"
    <3>1. Read(t)'
      BY <2>1, AnswerWords DEF TransferInv, WordsInv
    <3>2. /\ Valid(iod[t])
          /\ \A j \in 0 .. Bytes(iod[t]) - 1 : buf'[t][j] \in seen[t][Offset(iod[t]) + j]
      BY <1>1, <1>8, <2>4, <3>1 DEF Read
    <3> QED
      BY <2>2, <2>4, <3>2, SameRequests DEF Shadow!Reads
  <2> QED
    BY <2>2, <2>3, <2>4
<1>9. Replies'[t].res >= 0 =>
        \/ /\ Shadow!Writes(iod[t])
           /\ Applied[t] = Shadow!Extent(iod[t])
           /\ Replies'[t].res = Shadow!Length(iod[t])
        \/ /\ Shadow!Reads(iod[t])
           /\ Replies'[t].res = Shadow!Length(iod[t])
           /\ \A k \in 0 .. Replies'[t].res - 1 :
                Replies'[t].val[k] \in seen[t][Shadow!First(iod[t]) + k]
  BY <1>6, <1>7, <1>8
<1> QED
  BY <1>1, <1>2, <1>7, <1>9 DEF Shadow!Answer, Shadow!Pending

(* A pwrite(2) of a request takes effect in the words it moves.            *)
LEMMA Applies ==
  ASSUME IInv, TransferInv, NEW t \in Task, NEW n \in 1 .. IoBufLen, WriteChunk(t, n)
  PROVE  \E W \in SUBSET Shadow!Extent(iod[t]) : Shadow!Apply(t, W)
<1> USE DEF IInv
<1> DEFINE r == iod[t]
           from == Offset(r) + done[t]
           W == from .. from + n - 1
<1>1. /\ durable' = durable /\ pc' = pc /\ iod' = iod /\ buf' = buf /\ res' = res
      /\ \A u \in Task \ {t} : done'[u] = done[u]
      /\ done'[t] = done[t] + n
      /\ pc[t] = "io" /\ r.op = "WRITE"
  BY DEF TypeOK, WriteChunk, InIo
<1>2. /\ r \in Requests /\ Valid(r) /\ done[t] \in Nat /\ n \in Nat
      /\ W \subseteq Extent(r)
      /\ Plain(backing)' = [a \in ShadowAddr |-> IF a \in W THEN r.data[a - Offset(r)]
                                                 ELSE Plain(backing)[a]]
  BY WritePlain
<1>3. seen' = [u \in Task |-> IF Reading(u)
                              THEN [a \in Extent(iod[u]) |-> seen[u][a] \cup {Plain(backing)'[a]}]
                              ELSE seen[u]]
  <2>1. Plain(backing)' = Plain(backing')
    BY DEF Plain, Decrypted
  <2> QED
    BY <2>1 DEF WriteChunk
<1>4. ASSUME NEW u \in Task
      PROVE  /\ Reading(u) <=> Shadow!Pending(u) /\ Shadow!Reads(iod[u])
             /\ Reading(u) => Shadow!Extent(iod[u]) = Extent(iod[u])
  <2>1. CASE iod[u] \in Requests
    <3>1. Shadow!Pending(u) <=> pc[u] \in {"queued", "io", "dropped"}
      BY DEF Shadow!Pending, States, SlotState
    <3>2. Shadow!Extent(iod[u]) = Extent(iod[u]) /\ (Shadow!Valid(iod[u]) <=> Valid(iod[u]))
      BY <2>1, SameRequests
    <3> QED
      BY <3>1, <3>2 DEF Reading, Shadow!Reads
  <2>2. CASE iod[u] = NoRequest
    BY <2>2 DEF NoRequest, Reading, Shadow!Reads
  <2> QED
    BY <2>1, <2>2 DEF TypeOK
<1>5. /\ Shadow!Extent(r) = Extent(r) /\ Shadow!Valid(r) /\ Shadow!First(r) = Offset(r)
      /\ Shadow!Addr = ShadowAddr
  BY <1>2, SameRequests DEF Shadow!Addr, ShadowAddr
<1>6. Offset(r) \in Nat
  BY <1>2, ValidRequest
<1>7. \A u \in Task \ {t} : Moved(u)' = Moved(u)
  BY <1>1 DEF Moved
<1>8. Moved(t)' = Moved(t) \cup W
  <2>1. /\ Moved(t) = Offset(r) .. Offset(r) + done[t] - 1
        /\ Moved(t)' = Offset(r) .. Offset(r) + (done[t] + n) - 1
    BY <1>1 DEF Moved
  <2> HIDE DEF r
  <2> QED
    BY <1>2, <1>6, <2>1
<1> HIDE DEF r, W
<1>9. Applied' = [Applied EXCEPT ![t] = @ \cup W]
  BY <1>7, <1>8 DEF Applied
<1>10. States' = States /\ Replies' = Replies
  BY <1>1 DEF States, SlotState, Replies, Reply
<1>11. Plain(durable)' = Plain(durable)
  BY <1>1 DEF Plain
<1>12. seen' = [u \in Task |->
                  IF Shadow!Pending(u) /\ Shadow!Reads(iod[u])
                  THEN [a \in Shadow!Extent(iod[u]) |-> seen[u][a] \cup {Plain(backing)'[a]}]
                  ELSE seen[u]]
  BY <1>3, <1>4
<1>13. Shadow!Pending(t) /\ Shadow!Writes(r)
  BY <1>1, <1>5 DEF Shadow!Pending, States, SlotState, Shadow!Writes, r
<1>14. Plain(backing)' = [a \in Shadow!Addr |-> IF a \in W THEN r.data[a - Shadow!First(r)]
                                                ELSE Plain(backing)[a]]
  BY <1>2, <1>5
<1>15. UNCHANGED <<Plain(durable), States, iod, Replies>>
  BY <1>1, <1>10, <1>11
<1>16. Shadow!Witness(Plain(backing)')
  BY <1>12, Zenon DEF Shadow!Witness
<1>17. Shadow!Apply(t, W)
  BY <1>9, <1>13, <1>14, <1>15, <1>16, Zenon DEF Shadow!Apply, r
<1> QED
  BY <1>2, <1>5, <1>17 DEF r

(* fsync(2) makes the device stable and answers the flush.                 *)
LEMMA Flushes ==
  ASSUME IInv, NEW t \in Task, Sync(t)
  PROVE  Shadow!Flush(t)
<1> USE DEF IInv
<1>1. /\ backing' = backing /\ durable' = backing /\ iod' = iod /\ done' = done /\ seen' = seen
      /\ \A u \in Task \ {t} : pc'[u] = pc[u] /\ res'[u] = res[u] /\ buf'[u] = buf[u]
      /\ pc[t] = "io" /\ pc'[t] = "commit" /\ res'[t] = 0 /\ iod[t].op = "FLUSH"
  BY DEF TypeOK, Sync, InIo
<1>2. Plain(backing)' = Plain(backing) /\ Plain(durable)' = Plain(backing)
  BY <1>1 DEF Plain
<1>3. \A u \in Task \ {t} : SlotState(u)' = SlotState(u) /\ Reply(u)' = Reply(u)
  BY <1>1, SlotFrame
<1>4. Applied' = Applied
  BY <1>1 DEF Applied, Moved
<1>5. SlotState(t) = "pending" /\ SlotState(t)' = "answered"
  BY <1>1 DEF SlotState
<1>6. Reply(t)' = [res |-> 0, val |-> <<>>]
  BY <1>1 DEF Reply
<1>7. /\ States' = [States EXCEPT ![t] = "answered"] /\ States[t] = "pending"
      /\ Replies' = [Replies EXCEPT ![t] = [res |-> 0, val |-> <<>>]]
  BY <1>3, <1>5, <1>6 DEF States, Replies
<1> QED
  BY <1>1, <1>2, <1>4, <1>7 DEF Shadow!Flush, Shadow!Pending

(* The driver takes the result and frees the slot.                         *)
LEMMA Retires ==
  ASSUME IInv, NEW t \in Task, Commit(t)
  PROVE  Shadow!Retire(t)
<1> USE DEF IInv
<1>1. /\ backing' = backing /\ durable' = durable
      /\ \A u \in Task \ {t} : /\ pc'[u] = pc[u] /\ res'[u] = res[u] /\ buf'[u] = buf[u]
                               /\ iod'[u] = iod[u] /\ done'[u] = done[u]
      /\ pc[t] = "commit" /\ pc'[t] = "idle"
      /\ iod' = [iod EXCEPT ![t] = NoRequest] /\ iod'[t] = NoRequest
      /\ seen' = [seen EXCEPT ![t] = <<>>]
  BY DEF TypeOK, Commit
<1>2. Plain(backing)' = Plain(backing) /\ Plain(durable)' = Plain(durable)
  BY <1>1 DEF Plain
<1>3. \A u \in Task \ {t} : SlotState(u)' = SlotState(u) /\ Reply(u)' = Reply(u)
                            /\ Moved(u)' = Moved(u)
  BY <1>1, SlotFrame
<1>4. SlotState(t) = "answered" /\ SlotState(t)' = "none"
  BY <1>1 DEF SlotState
<1>5. Reply(t)' = Unanswered /\ Moved(t)' = {}
  BY <1>1 DEF Reply, Moved, NoRequest
<1>6. /\ States' = [States EXCEPT ![t] = "none"] /\ States[t] = "answered"
      /\ Replies' = [Replies EXCEPT ![t] = Unanswered]
      /\ Applied' = [Applied EXCEPT ![t] = {}]
  BY <1>3, <1>4, <1>5 DEF States, Replies, Applied
<1> QED
  BY <1>1, <1>2, <1>6 DEF Shadow!Retire

(* The page cache is written back: part of the device becomes stable.      *)
LEMMA Persists ==
  ASSUME IInv, NEW b \in DiskAddr, WriteBack(b)
  PROVE  \E W \in SUBSET Shadow!Addr : Shadow!Persist(W)
<1> USE DEF IInv
<1> DEFINE base == StartingLba * WordsPerSector
           W == {a \in ShadowAddr : base + a = b}
<1>1. /\ backing' = backing /\ durable' = [durable EXCEPT ![b] = backing[b]]
      /\ iod' = iod /\ seen' = seen /\ pc' = pc /\ buf' = buf /\ done' = done /\ res' = res
  BY DEF WriteBack, taskVars
<1>2. Plain(backing)' = Plain(backing)
  BY <1>1 DEF Plain
<1>3. \A c : Plain(c) = [a \in ShadowAddr |-> Clear(a, c[base + a])]
  BY PlainWord
<1>4. Plain(durable)' = Plain(durable')
  BY DEF Plain, Decrypted
<1> HIDE DEF base
<1>5. Plain(durable)' = [a \in ShadowAddr |-> IF a \in W THEN Plain(backing)[a]
                                              ELSE Plain(durable)[a]]
  <2>1. \A a \in ShadowAddr :
          durable'[base + a] = IF a \in W THEN backing[base + a] ELSE durable[base + a]
    BY <1>1 DEF TypeOK
  <2> HIDE DEF W
  <2>2. Plain(durable)' = [a \in ShadowAddr |-> Clear(a, durable'[base + a])]
    BY <1>3, <1>4
  <2>3. \A a \in ShadowAddr : /\ Plain(backing)[a] = Clear(a, backing[base + a])
                              /\ Plain(durable)[a] = Clear(a, durable[base + a])
    BY <1>3
  <2> QED
    BY <2>1, <2>2, <2>3
<1>6. States' = States /\ Applied' = Applied /\ Replies' = Replies
  BY <1>1 DEF States, SlotState, Applied, Moved, Replies, Reply
<1>7. Shadow!Addr = ShadowAddr /\ W \subseteq ShadowAddr
  BY DEF Shadow!Addr, ShadowAddr
<1> HIDE DEF W
<1>8. Shadow!Persist(W)
  BY <1>1, <1>2, <1>5, <1>6, <1>7 DEF Shadow!Persist
<1> QED
  BY <1>7, <1>8

(* open returns, a signal ends it, or the power goes.                      *)
LEMMA Ends ==
  ASSUME IInv
  PROVE  /\ Close \/ Exit => Shadow!End(Plain(backing))
         /\ PowerLoss => Shadow!End(Plain(durable))
<1>1. ASSUME Stopped
      PROVE  /\ Plain(durable)' = Plain(durable)
             /\ iod' = [t \in Task |-> NoRequest] /\ seen' = [t \in Task |-> <<>>]
             /\ States' = [t \in Task |-> "none"] /\ Applied' = [t \in Task |-> {}]
             /\ Replies' = [t \in Task |-> Unanswered]
  <2>1. /\ durable' = durable /\ pc' = [t \in Task |-> "start"]
        /\ iod' = [t \in Task |-> NoRequest] /\ seen' = [t \in Task |-> <<>>]
    BY <1>1 DEF Stopped, AllTasks
  <2>2. \A t \in Task : SlotState(t)' = "none" /\ Moved(t)' = {} /\ Reply(t)' = Unanswered
    BY <2>1 DEF SlotState, Moved, Reply, NoRequest
  <2>3. Plain(durable)' = Plain(durable)
    BY <2>1 DEF Plain
  <2> QED
    BY <2>1, <2>2, <2>3 DEF States, Applied, Replies
<1>2. ASSUME Close \/ Exit PROVE Shadow!End(Plain(backing))
  <2>1. Stopped /\ backing' = backing
    BY <1>2 DEF Close, Exit
  <2>2. Plain(backing)' = Plain(backing)
    BY <2>1 DEF Plain
  <2> QED
    BY <1>1, <2>1, <2>2, Zenon DEF Shadow!End
<1>3. ASSUME PowerLoss PROVE Shadow!End(Plain(durable))
  <2>1. Stopped /\ backing' = durable
    BY <1>3 DEF PowerLoss
  <2>2. Plain(backing)' = Plain(backing') /\ Plain(backing') = Plain(durable)
    BY <2>1 DEF Plain, Decrypted
  <2> QED
    BY <1>1, <2>1, <2>2, Zenon DEF Shadow!End
<1> QED
  BY <1>2, <1>3

(* Every step of the open device is a step of the shadow device, or none.  *)
LEMMA StepsOfShadow ==
  ASSUME IInv, TransferInv, [Next]_vars
  PROVE  [Shadow!Next]_(Shadow!vars)
<1>1. CASE \E t \in Task, r \in Requests : Submit(t, r)
  <2>1. \E t \in Task, r \in Requests : Shadow!Submit(t, r)
    BY <1>1, Submits
  <2> QED
    BY <2>1, Zenon DEF Shadow!Next
<1>2. CASE \E t \in Task : Step(t) \/ Abort(t) \/ CommandFails(t) \/ CommitFails(t)
  <2>1. PICK t \in Task : Step(t) \/ Abort(t) \/ CommandFails(t) \/ CommitFails(t)
    BY <1>2
  <2>2. CASE \/ Abort(t) \/ CommandFails(t) \/ CommitFails(t) \/ Prep(t) \/ Finish(t) \/ Start(t)
             \/ \E n \in 1 .. IoBufLen : ReadChunk(t, n)
    BY <2>2, Hidden
  <2>3. CASE \E n \in 1 .. IoBufLen : WriteChunk(t, n)
    <3>1. \E W \in SUBSET Shadow!Extent(iod[t]) : Shadow!Apply(t, W)
      BY <2>3, Applies
    <3> QED
      BY <3>1, Zenon DEF Shadow!Next
  <2>4. CASE Reject(t) \/ Return(t) \/ IoError(t)
    <3>1. Shadow!Answer(t, Replies'[t])
      BY <2>4, Answers
    <3> QED
      BY <3>1, Zenon DEF Shadow!Next
  <2>5. CASE Sync(t)
    <3>1. Shadow!Flush(t)
      BY <2>5, Flushes
    <3> QED
      BY <3>1, Zenon DEF Shadow!Next
  <2>6. CASE Commit(t)
    <3>1. Shadow!Retire(t)
      BY <2>6, Retires
    <3> QED
      BY <3>1, Zenon DEF Shadow!Next
  <2> QED
    BY <2>1, <2>2, <2>3, <2>4, <2>5, <2>6 DEF Step
<1>3. CASE \E q \in Queue : LoopFails(q)
  BY <1>3, HiddenProcess
<1>4. CASE \E b \in DiskAddr : WriteBack(b)
  <2>1. \E W \in SUBSET Shadow!Addr : Shadow!Persist(W)
    BY <1>4, Persists
  <2> QED
    BY <2>1, Zenon DEF Shadow!Next
<1>5. CASE Close \/ Exit \/ PowerLoss
  <2>1. Shadow!End(Plain(backing)) \/ Shadow!End(Plain(durable))
    BY <1>5, Ends
  <2> QED
    BY <2>1, Zenon DEF Shadow!Next
<1>6. CASE Remove \/ Reopen \/ UNCHANGED vars
  BY <1>6, HiddenProcess
<1> QED
  BY <1>1, <1>2, <1>3, <1>4, <1>5, <1>6 DEF Next

(* The open device implements the plain block device of ShadowDevice       *)
(* (open.rs:83-148).                                                       *)
THEOREM Implements == Spec => ImplementsShadow
<1>1. ASSUME Init PROVE Shadow!Init
  <2>1. /\ backing = Garbage /\ durable = Garbage /\ pc = [t \in Task |-> "start"]
        /\ iod = [t \in Task |-> NoRequest] /\ seen = [t \in Task |-> <<>>]
    BY <1>1 DEF Init, AllTasks
  <2>2. \A t \in Task : SlotState(t) = "none" /\ Moved(t) = {} /\ Reply(t) = Unanswered
    BY <2>1 DEF SlotState, Moved, Reply, NoRequest
  <2>3. /\ States = [t \in Task |-> "none"] /\ Applied = [t \in Task |-> {}]
        /\ Replies = [t \in Task |-> Unanswered]
    BY <2>2 DEF States, Applied, Replies
  <2>4. Plain(durable) = Plain(backing)
    BY <2>1
  <2>5. Plain(backing) \in [Shadow!Addr -> Word]
    <3>1. ShadowSize \in Nat /\ StartingLba * WordsPerSector \in Nat
          /\ \A a \in ShadowAddr : StartingLba * WordsPerSector + a \in DiskAddr /\ a \in Nat
      BY PayloadOnDisk
    <3>2. \A a \in ShadowAddr : Garbage[StartingLba * WordsPerSector + a] \in Word
      BY <3>1, GeometryAssumption
    <3>3. \A a \in ShadowAddr : Clear(a, Garbage[StartingLba * WordsPerSector + a]) \in Word
      BY <3>1, <3>2, ClearCipher
    <3>4. Plain(backing)
            = [a \in ShadowAddr |-> Clear(a, Garbage[StartingLba * WordsPerSector + a])]
      BY <2>1, PlainWord
    <3>5. Shadow!Addr = ShadowAddr
      BY DEF Shadow!Addr, ShadowAddr
    <3> QED
      BY <3>3, <3>4, <3>5
  <2> QED
    BY <2>1, <2>3, <2>4, <2>5 DEF Shadow!Init
<1>2. IInv /\ TransferInv /\ [Next]_vars => [Shadow!Next]_(Shadow!vars)
  BY StepsOfShadow
<1> QED
  BY <1>1, <1>2, Transfers, PTL DEF Spec, ImplementsShadow, Shadow!Spec

-----------------------------------------------------------------------------
(* The history of FlushHistory always has the present value of a word, and *)
(* the one a power loss would leave.                                       *)
HistInv ==
  \A a \in ShadowAddr : Plain(backing)[a] \in kept[a] /\ Plain(durable)[a] \in kept[a]

(* A word becomes stable only with the value the target has at present.    *)
LEMMA DurableWord ==
  ASSUME IInv, Next, NEW x \in DiskAddr
  PROVE  durable'[x] = durable[x] \/ durable'[x] = backing[x]
<1> USE DEF IInv
<1>1. CASE \E t \in Task : Step(t)
  <2>1. PICK t \in Task : Step(t)
    BY <1>1
  <2>2. CASE Sync(t)
    BY <2>2 DEF Sync
  <2>3. CASE \/ Prep(t) \/ Finish(t) \/ Reject(t) \/ Start(t)
             \/ \E n \in 1 .. IoBufLen : ReadChunk(t, n) \/ WriteChunk(t, n)
             \/ Return(t) \/ IoError(t) \/ Commit(t)
    BY <2>3 DEF Prep, Finish, Reject, Start, Poll, ReadChunk, WriteChunk, Return, IoError,
                Commit
  <2> QED
    BY <2>1, <2>2, <2>3 DEF Step
<1>2. CASE \E b \in DiskAddr : WriteBack(b)
  BY <1>2 DEF WriteBack, TypeOK
<1>3. CASE Close \/ Exit \/ PowerLoss
  BY <1>3 DEF Close, Exit, PowerLoss, Stopped
<1>4. CASE \/ \E t \in Task, r \in Requests : Submit(t, r)
           \/ \E t \in Task : Abort(t) \/ CommandFails(t) \/ CommitFails(t)
           \/ \E q \in Queue : LoopFails(q)
           \/ Remove \/ Reopen
  BY <1>4 DEF Submit, Abort, CommandFails, CommitFails, LoopFails, Remove, Reopen
<1> QED
  BY <1>1, <1>2, <1>3, <1>4 DEF Next

(* Only fsync(2) answers a flush with success (open.rs:104).               *)
LEMMA FlushedBySync ==
  ASSUME IInv, Next, Flushed
  PROVE  backing' = backing /\ durable' = backing
<1> USE DEF IInv
<1>1. PICK t \in Task : /\ pc[t] = "io" /\ iod[t].op = "FLUSH"
                        /\ pc'[t] = "commit" /\ res'[t] = 0
  BY DEF Flushed
<1>2. CASE \E u \in Task : Step(u)
  <2>1. PICK u \in Task : Step(u)
    BY <1>2
  <2>2. CASE Sync(u)
    BY <2>2 DEF Sync
  <2>3. CASE Prep(u) \/ Finish(u) \/ Reject(u) \/ Start(u)
    <3>1. pc[u] \in {"start", "aborted", "queued"}
      BY <2>3 DEF Prep, Finish, Reject, Start
    <3>2. pc'[t] = pc[t]
      BY <1>1, <2>3, <3>1 DEF TypeOK, Prep, Finish, Reject, Start
    <3> QED
      BY <1>1, <3>2
  <2>4. CASE \E n \in 1 .. IoBufLen : ReadChunk(u, n) \/ WriteChunk(u, n)
    BY <1>1, <2>4 DEF ReadChunk, WriteChunk
  <2>5. CASE Return(u)
    BY <1>1, <2>5 DEF TypeOK, Return
  <2>6. CASE IoError(u)
    BY <1>1, <2>6 DEF TypeOK, IoError, EIO
  <2>7. CASE Commit(u)
    BY <1>1, <2>7 DEF TypeOK, Commit
  <2> QED
    BY <2>1, <2>2, <2>3, <2>4, <2>5, <2>6, <2>7 DEF Step
<1>3. CASE \E u \in Task : \/ \E r \in Requests : Submit(u, r)
                          \/ Abort(u) \/ CommandFails(u) \/ CommitFails(u)
  BY <1>1, <1>3 DEF TypeOK, Submit, Abort, CommandFails, CommitFails
<1>4. CASE \E q \in Queue : LoopFails(q)
  BY <1>1, <1>4 DEF TypeOK, LoopFails
<1>5. CASE Close \/ Exit \/ PowerLoss
  BY <1>1, <1>5 DEF Close, Exit, PowerLoss, Stopped, AllTasks
<1>6. CASE Remove \/ Reopen \/ \E b \in DiskAddr : WriteBack(b)
  BY <1>1, <1>6 DEF Remove, Reopen, WriteBack, taskVars
<1> QED
  BY <1>2, <1>3, <1>4, <1>5, <1>6 DEF Next

(* What becomes stable keeps the history in order.                         *)
LEMMA HistStep ==
  ASSUME IInv, HistInv, HistNext
  PROVE  HistInv'
<1>1. Next /\ Record
  BY DEF HistNext
<1>2. Plain(backing)' = Plain(backing') /\ Plain(durable)' = Plain(durable')
  BY DEF Plain, Decrypted
<1> SUFFICES ASSUME NEW a \in ShadowAddr
             PROVE  Plain(backing')[a] \in kept'[a] /\ Plain(durable')[a] \in kept'[a]
  BY <1>2, Zenon DEF HistInv
<1>3. CASE Flushed
  <2>1. kept'[a] = {Plain(backing')[a]}
    BY <1>1, <1>3 DEF Record, Present
  <2>2. backing' = durable'
    BY <1>1, <1>3, FlushedBySync
  <2> QED
    BY <2>1, <2>2
<1>4. CASE ~Flushed
  <2>1. kept'[a] = kept[a] \cup {Plain(backing')[a]}
    BY <1>1, <1>4 DEF Record, Present
  <2> DEFINE x == StartingLba * WordsPerSector + a
  <2>2. x \in DiskAddr
    BY PayloadOnDisk
  <2>3. \A b : Plain(b)[a] = Clear(a, b[x])
    BY PlainWord
  <2> HIDE DEF x
  <2>4. durable'[x] = durable[x] \/ durable'[x] = backing[x]
    BY <1>1, <2>2, DurableWord
  <2>5. Plain(durable')[a] = Plain(durable)[a] \/ Plain(durable')[a] = Plain(backing)[a]
    BY <2>3, <2>4
  <2> QED
    BY <2>1, <2>5 DEF HistInv
<1> QED
  BY <1>3, <1>4

(* The history decides nothing: without it the steps are those of Spec.    *)
LEMMA HistIsSpec == HistSpec => Spec
<1>1. HistInit => Init
  BY DEF HistInit
<1>2. [HistNext]_histVars => [Next]_vars
  BY DEF HistNext, histVars
<1> QED
  BY <1>1, <1>2, PTL DEF HistSpec, Spec

(* What was flushed survives every later failure and power loss            *)
(* (flush_result, open.rs:104).                                            *)
THEOREM FlushSurvives == HistSpec => []FlushedSurvives
<1>1. HistInit => HistInv
  BY DEF HistInit, HistInv, Init, Present
<1>2. IInv /\ HistInv /\ [HistNext]_histVars => HistInv'
  <2>1. ASSUME HistInv, UNCHANGED histVars PROVE HistInv'
    BY <2>1 DEF HistInv, histVars, vars, Plain
  <2> QED
    BY <2>1, HistStep
<1>3. HistInv => FlushedSurvives
  BY DEF HistInv, FlushedSurvives
<1> QED
  BY <1>1, <1>2, <1>3, HistIsSpec, Inductive, PTL DEF HistSpec
=============================================================================
