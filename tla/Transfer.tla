------------------------------- MODULE Transfer -------------------------------
(***************************************************************************)
(* One encrypted relay transfer of a generation: the source agent's        *)
(* replicate-generation job uploads a ciphertext to the control plane's    *)
(* spool, in chunks (RemoteStore.UploadReplicationFile against             *)
(* AgentServer.replicationUploadStatus / Chunk / Finalize) or whole        *)
(* (replicationUpload), and the target agent's install-replica job         *)
(* downloads, verifies and installs it (Runner.installReplica,             *)
(* AgentServer.replicationDownload and replica).                           *)
(*                                                                         *)
(* A ciphertext is a sequence of chunks <<c, i>>: every attempt of the     *)
(* source job encrypts afresh (replication.Encrypt draws a new key), so    *)
(* attempt c has a ciphertext of its own.  A SHA-256 is modelled by the    *)
(* content it identifies.  HTTP handlers run concurrently with the client  *)
(* that may have given them up: a request that timed out is still served.  *)
(* The job queue is reduced to what it promises (see JobQueue): one        *)
(* attempt at a time, at most MaxAttempts of them, any of which may be     *)
(* lost.                                                                   *)
(***************************************************************************)
EXTENDS Naturals, Sequences

CONSTANTS
  MaxChunks,     \* bound: chunks of a ciphertext
  MaxAttempts,   \* workers.max_attempts
  ChunkRetries,  \* storage.chunk_retries
  TransferTTL,   \* replication.transfer_ttl, in ticks
  Slots,         \* bound: HTTP requests of the source under way at once
  NoSlot,        \* the client is not waiting for an answer
  NoFile         \* a file that does not exist, a hash that is not recorded

ASSUME TransferAssumption ==
  /\ MaxChunks \in Nat \ {0}
  /\ MaxAttempts \in Nat \ {0}
  /\ ChunkRetries \in Nat \ {0}
  /\ TransferTTL \in Nat \ {0}
  /\ NoSlot \notin Slots

VARIABLES
  size,      \* chunks of the ciphertext, the same for every attempt
  chunked,   \* storage.chunk_bytes > 0 on the source agent
  source,    \* the replicate-generation job
  client,    \* the uploading agent
  request,   \* the handler serving the request in a slot
  part,      \* <transfer>.blob.part
  spool,     \* <transfer>.blob
  record,    \* the row of replication_transfers
  install,   \* the install-replica job
  dest,      \* <transfer>.cipher.part on the target
  final,     \* the generation directory on the target
  replica    \* the generation_replicas row of the target is "ready"

serverVars == <<request, part, spool, record>>
targetVars == <<install, dest, final, replica>>
vars == <<size, chunked, source, client, serverVars, targetVars>>

-----------------------------------------------------------------------------
(* Files, records and jobs                                                 *)

Garbage == <<0, 0>>
Chunk(c, i) == <<c, i>>
Cipher(c) == [i \in 1 .. size |-> Chunk(c, i)]
Contents == UNION {[1 .. n -> {Garbage} \cup (1 .. MaxAttempts) \X (1 .. MaxChunks)] :
                     n \in 0 .. MaxChunks}

Files == Contents \cup {NoFile}
FileSize(f) == IF f = NoFile THEN 0 ELSE Len(f)

IsWhole(f) == \E c \in 1 .. MaxAttempts : f = Cipher(c)

\* What stands for a file that does not exist is no content of one.
ASSUME NoFileAssumption == NoFile \notin Contents

JobState == [status : {"none", "queued", "running", "succeeded", "failed"},
             attempts : 0 .. MaxAttempts]
Job(s, n) == [status |-> s, attempts |-> n]

NoRecord == [state |-> "none", bytes |-> 0, sha |-> NoFile, left |-> 0]
Record(s, n, sha) == [state |-> s, bytes |-> n, sha |-> sha, left |-> TransferTTL]

NoRequest == [step |-> "none", op |-> "chunk", cipher |-> 1, offset |-> 0, file |-> "gone"]
Request(op, step, c, n, f) == [step |-> step, op |-> op, cipher |-> c, offset |-> n, file |-> f]

Client(p, n, t, h) == [phase |-> p, offset |-> n, tries |-> t, slot |-> h]

TransferTypeOK ==
  /\ size \in 1 .. MaxChunks
  /\ chunked \in BOOLEAN
  /\ source \in JobState
  /\ client \in [phase : {"idle", "probe", "send", "wait", "doubt", "done"},
                 offset : 0 .. MaxChunks + 1, tries : 0 .. ChunkRetries,
                 slot : Slots \cup {NoSlot}]
  /\ request \in [Slots ->
       [step : {"none", "open", "write", "check", "truncate", "copy", "rename", "record", "enqueue"},
        op : {"chunk", "finalize", "put"}, cipher : 1 .. MaxAttempts,
        offset : 0 .. MaxChunks, file : {"part", "spool", "gone"}]]
  /\ part \in Files
  /\ spool \in Files
  /\ record \in [state : {"none", "receiving", "ready"}, bytes : 0 .. MaxChunks,
                 sha : Files, left : 0 .. TransferTTL]
  /\ install \in [job : JobState, sha : Files, verified : BOOLEAN, reported : BOOLEAN]
  /\ dest \in Files
  /\ final \in Files
  /\ replica \in BOOLEAN

Install(j, sha, v, r) == [job |-> j, sha |-> sha, verified |-> v, reported |-> r]

Init ==
  /\ size \in 1 .. MaxChunks
  /\ chunked \in BOOLEAN
  /\ source = Job("queued", 0)
  /\ client = Client("idle", 0, 0, NoSlot)
  /\ request = [h \in Slots |-> NoRequest]
  /\ part = NoFile
  /\ spool = NoFile
  /\ record = NoRecord
  /\ install = Install(Job("none", 0), NoFile, FALSE, FALSE)
  /\ dest = NoFile
  /\ final = NoFile
  /\ replica = FALSE

-----------------------------------------------------------------------------
(* The source agent                                                        *)

\* A new attempt of a job, and the end of one without success.
Again(j) == Job("running", j.attempts + 1)
Unsuccessful(j) == Job(IF j.attempts >= MaxAttempts THEN "failed" ELSE "queued", j.attempts)

StartUpload ==
  /\ source.status = "queued"
  /\ source' = Again(source)
  /\ client' = Client(IF chunked THEN "probe" ELSE "send", 0, 0, NoSlot)
  /\ UNCHANGED <<size, chunked, serverVars, targetVars>>

\* replicationUploadStatus: the offset of a ready transfer is its length,
\* that of any other the size of the partial file.
ServerOffset == IF record.state = "ready" THEN record.bytes ELSE FileSize(part)

\* The first HEAD; when it fails the upload starts from 0.
ProbeOffset ==
  /\ client.phase = "probe"
  /\ \E n \in {ServerOffset, 0} : client' = Client("send", n, 0, NoSlot)
  /\ UNCHANGED <<size, chunked, source, serverVars, targetVars>>

SendRequest(h) ==
  LET c == source.attempts
      n == client.offset
  IN  /\ client.phase = "send"
      /\ request[h].step = "none"
      /\ request' = [request EXCEPT ![h] =
           IF ~chunked THEN Request("put", "truncate", c, 0, "gone")
           ELSE IF n < size THEN Request("chunk", "open", c, n, "gone")
           ELSE Request("finalize", "check", c, 0, "gone")]
      /\ client' = Client("wait", n, client.tries, h)
      /\ UNCHANGED <<size, chunked, source, part, spool, record, targetVars>>

\* The answer of handler h, if the client still waits for it.  A refused or
\* broken finalize or whole upload ends the attempt, a chunk leaves a doubt.
Answer(h, ok) ==
  /\ IF client.slot # h THEN UNCHANGED <<source, client>>
     ELSE IF ok THEN
       /\ client' = IF request[h].op = "chunk"
                      THEN Client("send", client.offset + 1, 0, NoSlot)
                      ELSE Client("done", client.offset, 0, NoSlot)
       /\ UNCHANGED source
     ELSE IF request[h].op = "chunk" THEN
       /\ client' = Client("doubt", client.offset, client.tries, NoSlot)
       /\ UNCHANGED source
     ELSE
       /\ client' = Client("idle", 0, 0, NoSlot)
       /\ source' = Unsuccessful(source)
  /\ UNCHANGED <<size, chunked, targetVars>>

\* The client's 45 s timeout, or a broken connection: the handler goes on.
GiveUpWaiting ==
  /\ client.phase = "wait"
  /\ IF request[client.slot].op = "chunk"
       THEN /\ client' = Client("doubt", client.offset, client.tries, NoSlot)
            /\ UNCHANGED source
       ELSE /\ client' = Client("idle", 0, 0, NoSlot)
            /\ source' = Unsuccessful(source)
  /\ UNCHANGED <<size, chunked, serverVars, targetVars>>

\* After an error: adopt the server's offset if it answers with another one,
\* else try the same chunk again until the retries are used up.
ResolveDoubt ==
  /\ client.phase = "doubt"
  /\ \/ /\ ServerOffset # client.offset
        /\ client' = Client("send", ServerOffset, 0, NoSlot)
        /\ UNCHANGED source
     \/ /\ client.tries + 1 < ChunkRetries
        /\ client' = Client("send", client.offset, client.tries + 1, NoSlot)
        /\ UNCHANGED source
     \/ /\ client.tries + 1 >= ChunkRetries
        /\ client' = Client("idle", 0, 0, NoSlot)
        /\ source' = Unsuccessful(source)
  /\ UNCHANGED <<size, chunked, serverVars, targetVars>>

CompleteUpload ==
  /\ client.phase = "done"
  /\ source' = Job("succeeded", source.attempts)
  /\ client' = Client("idle", 0, 0, NoSlot)
  /\ UNCHANGED <<size, chunked, serverVars, targetVars>>

\* The source dies, or its completion is lost.
SourceDies ==
  /\ client.phase # "idle"
  /\ source' = Unsuccessful(source)
  /\ client' = Client("idle", 0, 0, NoSlot)
  /\ UNCHANGED <<size, chunked, serverVars, targetVars>>

-----------------------------------------------------------------------------
(* The upload handlers of the control plane                                *)

Done(h) == request' = [request EXCEPT ![h] = NoRequest]

Go(h, step, f) == request' = [request EXCEPT ![h] =
  Request(request[h].op, step, request[h].cipher, request[h].offset, f)]

\* What holds on to file f holds on to g from now on.
Handed(f, g) == [h \in Slots |->
  IF request[h].file = f THEN [request[h] EXCEPT !.file = g] ELSE request[h]]

\* authorizeRunningJob and validateTransferTargetKey may refuse, as may the
\* file system.
Refused(h) ==
  /\ request[h].step \in {"open", "check", "truncate"}
  /\ Done(h)
  /\ Answer(h, FALSE)
  /\ UNCHANGED <<part, spool, record>>

\* The partial file is created if need be; a wrong offset is a conflict.
ChunkOpen(h) ==
  /\ request[h].step = "open"
  /\ source.status = "running"
  /\ part' = IF part = NoFile THEN <<>> ELSE part
  /\ IF FileSize(part) # request[h].offset
       THEN Done(h) /\ Answer(h, FALSE)
       ELSE /\ Go(h, "write", "part")
            /\ UNCHANGED <<size, chunked, source, client, targetVars>>
  /\ UNCHANGED <<spool, record>>

\* io.Copy into the file just opened, which stands at position 0.
WriteAtStart(f, x) == IF f = <<>> THEN <<x>> ELSE [f EXCEPT ![1] = x]
Truncate(f, n) == [i \in 1 .. n |-> IF i <= Len(f) THEN f[i] ELSE Garbage]

\* A handler writes to the file it has opened, also when that has since been
\* renamed to the spool or removed.
Opened(h) == CASE request[h].file = "part"  -> part
               [] request[h].file = "spool" -> spool
               [] OTHER                     -> <<>>

Store(h, f) ==
  /\ part' = IF request[h].file = "part" THEN f ELSE part
  /\ spool' = IF request[h].file = "spool" THEN f ELSE spool

ChunkWrite(h) ==
  /\ request[h].step = "write"
  /\ Store(h, WriteAtStart(Opened(h), Chunk(request[h].cipher, request[h].offset + 1)))
  /\ Go(h, "record", request[h].file)
  /\ UNCHANGED <<size, chunked, source, client, record, targetVars>>

\* The body breaks off, or its hash is wrong: what was written is cut off
\* again at the offset.
ChunkBreak(h) ==
  LET f == Opened(h)
      broken == IF f = <<>> THEN f ELSE [f EXCEPT ![1] = Garbage]
  IN  /\ request[h].step = "write"
      /\ Store(h, Truncate(broken, request[h].offset))
      /\ Done(h)
      /\ Answer(h, FALSE)
      /\ UNCHANGED record

\* A transfer that is ready already must be this very ciphertext; otherwise
\* length and hash of the partial file must be those of the request.
FinalizeCheck(h) ==
  LET c == request[h].cipher
      refused == \/ record.state = "ready" /\ record.sha # Cipher(c)
                 \/ record.state # "ready" /\ part # Cipher(c)
  IN  /\ request[h].step = "check"
      /\ source.status = "running"
      /\ IF refused
           THEN Done(h) /\ Answer(h, FALSE)
           ELSE /\ Go(h, IF record.state = "ready" THEN "enqueue" ELSE "rename", "gone")
                /\ UNCHANGED <<size, chunked, source, client, targetVars>>
      /\ UNCHANGED <<part, spool, record>>

\* The whole upload of replicationUpload, into the truncated partial file
\* and with a hash of what was received.
PutTruncate(h) ==
  /\ request[h].step = "truncate"
  /\ source.status = "running"
  /\ part' = <<>>
  /\ Go(h, "copy", "part")
  /\ UNCHANGED <<size, chunked, source, client, spool, record, targetVars>>

PutCopy(h) ==
  LET n == request[h].offset + 1
      f == Opened(h)
      longer == [Truncate(f, IF n > Len(f) THEN n ELSE Len(f))
                   EXCEPT ![n] = Chunk(request[h].cipher, n)]
  IN  /\ request[h].step = "copy"
      /\ Store(h, longer)
      /\ request' = [request EXCEPT ![h] =
           Request("put", IF n = size THEN "rename" ELSE "copy",
                   request[h].cipher, n, request[h].file)]
      /\ UNCHANGED <<size, chunked, source, client, record, targetVars>>

\* The body breaks off: the partial file is removed.
PutBreak(h) ==
  /\ request[h].step = "copy"
  /\ part' = NoFile
  /\ request' = [Handed("part", "gone") EXCEPT ![h] = NoRequest]
  /\ Answer(h, FALSE)
  /\ UNCHANGED <<spool, record>>

\* os.Rename: open files go with it.
Promote(h) ==
  /\ request[h].step = "rename"
  /\ IF part = NoFile
       THEN Done(h) /\ Answer(h, FALSE) /\ UNCHANGED <<part, spool>>
       ELSE /\ spool' = part
            /\ part' = NoFile
            /\ request' = [g \in Slots |->
                 IF g = h THEN Request(request[h].op, "record", request[h].cipher, 0, "gone")
                 ELSE [request[g] EXCEPT !.file =
                         CASE @ = "part" -> "spool" [] OTHER -> "gone"]]
            /\ UNCHANGED <<size, chunked, source, client, targetVars>>
  /\ UNCHANGED record

\* RecordReplicationTransfer, at the end of a chunk and of a promotion.
RecordTransfer(h) ==
  /\ request[h].step = "record"
  /\ IF request[h].op = "chunk"
       THEN /\ record' = Record("receiving", request[h].offset + 1, NoFile)
            /\ Done(h)
            /\ Answer(h, TRUE)
       ELSE /\ record' = Record("ready", size, Cipher(request[h].cipher))
            /\ Go(h, "enqueue", "gone")
            /\ UNCHANGED <<size, chunked, source, client, targetVars>>
  /\ UNCHANGED <<part, spool>>

\* The store fails to record: only the whole upload removes its spool file.
RecordFails(h) ==
  /\ request[h].step = "record"
  /\ IF request[h].op = "put"
       THEN spool' = NoFile /\ request' = [Handed("spool", "gone") EXCEPT ![h] = NoRequest]
       ELSE Done(h) /\ UNCHANGED spool
  /\ Answer(h, FALSE)
  /\ UNCHANGED <<part, record>>

\* An install job of the transfer that is still active is left as it is.
EnqueueInstall(h) ==
  /\ request[h].step = "enqueue"
  /\ install' = IF install.job.status \in {"queued", "running"} THEN install
                ELSE Install(Job("queued", 0), Cipher(request[h].cipher), FALSE, FALSE)
  /\ client' = IF client.slot = h THEN Client("done", client.offset, 0, NoSlot) ELSE client
  /\ Done(h)
  /\ UNCHANGED <<size, chunked, source, part, spool, record, dest, final, replica>>

\* The transfer stays ready, without a job to install it.
EnqueueFails(h) ==
  /\ request[h].step = "enqueue"
  /\ Done(h)
  /\ Answer(h, FALSE)
  /\ UNCHANGED <<part, spool, record>>

\* The control plane restarts.
ServerCrash ==
  /\ \E h \in Slots : request[h].step # "none"
  /\ request' = [h \in Slots |-> NoRequest]
  /\ IF client.slot = NoSlot THEN UNCHANGED <<source, client>>
     ELSE IF request[client.slot].op = "chunk" THEN
       /\ client' = Client("doubt", client.offset, client.tries, NoSlot)
       /\ UNCHANGED source
     ELSE
       /\ client' = Client("idle", 0, 0, NoSlot)
       /\ source' = Unsuccessful(source)
  /\ UNCHANGED <<size, chunked, part, spool, record, targetVars>>

-----------------------------------------------------------------------------
(* The target agent                                                        *)

StartInstall ==
  /\ install.job.status = "queued"
  /\ install' = Install(Again(install.job), install.sha, FALSE, FALSE)
  /\ UNCHANGED <<size, chunked, source, client, serverVars, dest, final, replica>>

Installing == install.job.status = "running" /\ ~install.verified

\* replicationDownload serves a transfer that has not expired, whose record
\* is what the install job says, and whose blob has the recorded length.
Served ==
  /\ record.state # "none"
  /\ record.left > 0
  /\ record.sha = install.sha
  /\ FileSize(spool) = record.bytes
  /\ spool # NoFile

\* One GET: it resumes after the bytes at hand, discarding a complete file
\* that failed verification, and may break off anywhere.
Download ==
  LET have == IF dest = NoFile \/ FileSize(dest) >= size THEN <<>> ELSE dest
  IN  /\ Installing
      /\ dest # install.sha
      /\ Served
      /\ \E n \in Len(have) .. size :
           dest' = [i \in 1 .. n |-> IF i <= Len(have) THEN have[i] ELSE spool[i]]
      /\ UNCHANGED <<size, chunked, source, client, serverVars, install, final, replica>>

\* Mutant: a local file of the expected length is accepted unverified.
InstallVerifiedBySize ==
  /\ Installing
  /\ FileSize(dest) = size
  /\ final' = IF final = NoFile THEN dest ELSE final
  /\ install' = Install(install.job, install.sha, TRUE, FALSE)
  /\ UNCHANGED <<size, chunked, source, client, serverVars, dest, replica>>

\* The complete file, from this attempt or an earlier one, has the expected
\* hash: it is decrypted and renamed into place unless that is done already.
InstallVerified ==
  /\ Installing
  /\ dest = install.sha
  /\ final' = IF final = NoFile THEN dest ELSE final
  /\ install' = Install(install.job, install.sha, TRUE, FALSE)
  /\ UNCHANGED <<size, chunked, source, client, serverVars, dest, replica>>

\* AgentServer.replica: the replica is ready, blob and record are removed;
\* a crash may cut the removal short.
ReportReplica ==
  /\ install.job.status = "running"
  /\ install.verified
  /\ ~install.reported
  /\ replica' = TRUE
  /\ \/ /\ spool' = NoFile
        /\ record' = NoRecord
        /\ request' = Handed("spool", "gone")
     \/ UNCHANGED <<spool, record, request>>
  /\ install' = Install(install.job, install.sha, TRUE, TRUE)
  /\ UNCHANGED <<size, chunked, source, client, part, dest, final>>

\* The answer arrived: the ciphertext is removed and the job completed.
CompleteInstall ==
  /\ install.job.status = "running"
  /\ install.reported
  /\ dest' = NoFile
  /\ install' = Install(Job("succeeded", install.job.attempts), install.sha, FALSE, FALSE)
  /\ UNCHANGED <<size, chunked, source, client, serverVars, final, replica>>

\* Refused, unreachable, dead, or without an answer to its report.
InstallFails ==
  /\ install.job.status = "running"
  /\ install' = Install(Unsuccessful(install.job), install.sha, FALSE, FALSE)
  /\ UNCHANGED <<size, chunked, source, client, serverVars, dest, final, replica>>

-----------------------------------------------------------------------------
(* Expiry                                                                  *)

CleanupExpired ==
  /\ record.state # "none"
  /\ record.left = 0
  /\ spool' = NoFile
  /\ part' = NoFile
  /\ record' = NoRecord
  /\ request' = [h \in Slots |-> [request[h] EXCEPT !.file = "gone"]]
  /\ UNCHANGED <<size, chunked, source, client, targetVars>>

Tick ==
  /\ record.left > 0
  /\ record' = [record EXCEPT !.left = @ - 1]
  /\ UNCHANGED <<size, chunked, source, client, request, part, spool, targetVars>>

Next ==
  \/ StartUpload \/ ProbeOffset \/ GiveUpWaiting \/ ResolveDoubt
  \/ CompleteUpload \/ SourceDies
  \/ \E h \in Slots :
       \/ SendRequest(h) \/ Refused(h)
       \/ ChunkOpen(h) \/ ChunkWrite(h) \/ ChunkBreak(h)
       \/ FinalizeCheck(h) \/ PutTruncate(h) \/ PutCopy(h) \/ PutBreak(h)
       \/ Promote(h) \/ RecordTransfer(h) \/ RecordFails(h)
       \/ EnqueueInstall(h) \/ EnqueueFails(h)
  \/ ServerCrash
  \/ StartInstall \/ Download \/ InstallVerified \/ ReportReplica
  \/ CompleteInstall \/ InstallFails
  \/ CleanupExpired \/ Tick

Spec == Init /\ [][Next]_vars

-----------------------------------------------------------------------------
(* Properties                                                              *)

\* Whatever mixture of attempts, retries and late handlers has been through
\* the spool and the local file: a generation is installed, and reported ready
\* to the control plane, only from one complete ciphertext.
ReplicaFromWholeCipher ==
  /\ final # NoFile => IsWhole(final)
  /\ replica => final # NoFile

\* The server-authoritative offset: what has been confirmed is stored, since
\* chunks are appended.
ConfirmedIsStored ==
  /\ record.state = "receiving"
  /\ spool = NoFile
  /\ \A h \in Slots : request[h].step = "none"
  => FileSize(part) >= record.bytes

-----------------------------------------------------------------------------
(* Why a replica comes from a whole ciphertext: the inductive invariant    *)

IsRequest(q) ==
  /\ q = Request(q.op, q.step, q.cipher, q.offset, q.file)
  /\ q.cipher \in 1 .. MaxAttempts

\* A client is at work only in a running attempt, waits exactly while it holds
\* a slot, and the attempts stay within workers.max_attempts, so that every
\* request carries the ciphertext of an attempt there really was.
UploadInv ==
  /\ size \in 1 .. MaxChunks
  /\ source \in JobState
  /\ source.status = "queued" => source.attempts < MaxAttempts
  /\ source.status = "running" => source.attempts > 0
  /\ client.phase # "idle" => source.status = "running"
  /\ client.slot # NoSlot => client.phase = "wait"
  /\ DOMAIN request = Slots
  /\ \A h \in Slots : IsRequest(request[h])

\* An install job carries the hash of a whole ciphertext, whatever the spool
\* and the local file hold, and what it verified is in place.
InstallInv ==
  /\ install.job.status # "none" => IsWhole(install.sha)
  /\ install.verified => final # NoFile
  /\ install.reported => install.verified

TransferInv == UploadInv /\ InstallInv /\ ReplicaFromWholeCipher

=============================================================================
