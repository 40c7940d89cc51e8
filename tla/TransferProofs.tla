---------------------------- MODULE TransferProofs ----------------------------
(***************************************************************************)
(* Proofs about Transfer, for any size of the ciphertext and any number of *)
(* attempts, retries, requests under way, restarts and expiries.           *)
(***************************************************************************)
EXTENDS Transfer, TLAPS

-----------------------------------------------------------------------------
(* The source agent                                                        *)

\* A ciphertext is a content, so it is not the file that does not exist.
LEMMA WholeIsFile ==
  ASSUME size \in 1 .. MaxChunks, NEW f, IsWhole(f)
  PROVE  f # NoFile
<1>1. PICK c \in 1 .. MaxAttempts : f = [i \in 1 .. size |-> <<c, i>>]
  BY DEF IsWhole, Cipher, Chunk
<1>2. f \in [1 .. size -> {Garbage} \cup (1 .. MaxAttempts) \X (1 .. MaxChunks)]
  BY <1>1, TransferAssumption
<1>3. size \in 0 .. MaxChunks
  BY TransferAssumption
<1>4. f \in Contents
  BY <1>2, <1>3 DEF Contents
<1> QED
  BY <1>4, NoFileAssumption

\* An attempt that ends without success leaves the job within its attempts.
LEMMA UnsuccessfulJob ==
  ASSUME NEW j \in JobState
  PROVE  /\ Unsuccessful(j) \in JobState
         /\ Unsuccessful(j).status \in {"queued", "failed"}
         /\ Unsuccessful(j).status = "queued" => Unsuccessful(j).attempts < MaxAttempts
BY TransferAssumption DEF Unsuccessful, Job, JobState

\* What the source and its client may do: stop, go on in the same attempt, or
\* start another attempt.
Stops ==
  /\ client' = Client("idle", 0, 0, NoSlot)
  /\ source' = Unsuccessful(source) \/ source' = Job("succeeded", source.attempts)

GoesOn ==
  /\ UNCHANGED source
  /\ client.phase # "idle"
  /\ \/ client'.slot = NoSlot
     \/ client'.phase = "wait"

Starts ==
  /\ source.status = "queued"
  /\ source' = Again(source)
  /\ client'.slot = NoSlot

LEMMA AnswerMoves ==
  ASSUME UploadInv, NEW h \in Slots, NEW ok \in BOOLEAN, Answer(h, ok)
  PROVE  UNCHANGED <<source, client>> \/ Stops \/ GoesOn
<1>1. client.slot = h => client.phase # "idle"
  BY TransferAssumption DEF UploadInv
<1> QED
  BY <1>1 DEF Answer, Stops, GoesOn, Client

LEMMA ClientMoves ==
  ASSUME UploadInv, [Next]_vars
  PROVE  UNCHANGED <<source, client>> \/ Stops \/ GoesOn \/ Starts
<1>1. CASE StartUpload
  BY <1>1 DEF StartUpload, Starts, Client
<1>2. CASE ProbeOffset \/ GiveUpWaiting \/ ResolveDoubt
  BY <1>2 DEF ProbeOffset, GiveUpWaiting, ResolveDoubt, Stops, GoesOn, Client
<1>3. CASE CompleteUpload \/ SourceDies
  BY <1>3 DEF CompleteUpload, SourceDies, Stops
<1>4. ASSUME NEW h \in Slots, SendRequest(h)
      PROVE  GoesOn
  BY <1>4 DEF SendRequest, GoesOn, Client
<1>5. ASSUME NEW h \in Slots,
             \/ Refused(h) \/ ChunkOpen(h) \/ ChunkWrite(h) \/ ChunkBreak(h)
             \/ FinalizeCheck(h) \/ PutTruncate(h) \/ PutCopy(h) \/ PutBreak(h)
             \/ Promote(h) \/ RecordTransfer(h) \/ RecordFails(h) \/ EnqueueFails(h)
      PROVE  UNCHANGED <<source, client>> \/ \E ok \in BOOLEAN : Answer(h, ok)
  BY <1>5 DEF Refused, ChunkOpen, ChunkWrite, ChunkBreak, FinalizeCheck, PutTruncate,
              PutCopy, PutBreak, Promote, RecordTransfer, RecordFails, EnqueueFails
<1>6. ASSUME NEW h \in Slots, EnqueueInstall(h)
      PROVE  UNCHANGED <<source, client>> \/ GoesOn
  <2>1. client.slot = h => client.phase # "idle"
    BY TransferAssumption DEF UploadInv
  <2> QED
    BY <1>6, <2>1 DEF EnqueueInstall, GoesOn, Client
<1>7. CASE ServerCrash
  <2>1. client.slot # NoSlot => client.phase # "idle"
    BY DEF UploadInv
  <2> QED
    BY <1>7, <2>1 DEF ServerCrash, Stops, GoesOn, Client
<1>8. CASE \/ StartInstall \/ Download \/ InstallVerified \/ ReportReplica
           \/ CompleteInstall \/ InstallFails \/ CleanupExpired \/ Tick
  BY <1>8 DEF StartInstall, Download, InstallVerified, ReportReplica, CompleteInstall,
              InstallFails, CleanupExpired, Tick
<1>9. CASE UNCHANGED vars
  BY <1>9 DEF vars
<1> QED
  BY <1>1, <1>2, <1>3, <1>4, <1>5, <1>6, <1>7, <1>8, <1>9, AnswerMoves DEF Next

\* What handlers do to their requests keeps them requests.
LEMMA Requests ==
  /\ IsRequest(NoRequest)
  /\ \A op, s, n, f : \A c \in 1 .. MaxAttempts : IsRequest(Request(op, s, c, n, f))
  /\ \A q, g : IsRequest(q) => IsRequest([q EXCEPT !.file = g])
<1>1. IsRequest(NoRequest)
  BY TransferAssumption DEF IsRequest, NoRequest, Request
<1>2. \A op, s, n, f : \A c \in 1 .. MaxAttempts : IsRequest(Request(op, s, c, n, f))
  BY DEF IsRequest, Request
<1>3. ASSUME NEW q, NEW g, IsRequest(q)
      PROVE  IsRequest([q EXCEPT !.file = g])
  <2>1. PICK op, s, c, n, f : q = Request(op, s, c, n, f) /\ c \in 1 .. MaxAttempts
    BY <1>3 DEF IsRequest
  <2>2. [q EXCEPT !.file = g] = Request(op, s, c, n, g)
    BY <2>1 DEF Request
  <2> QED
    BY <1>2, <2>1, <2>2
<1> QED
  BY <1>1, <1>2, <1>3

\* Every request carries the ciphertext of an attempt.
LEMMA NextRequests ==
  ASSUME UploadInv, [Next]_vars
  PROVE  DOMAIN request' = Slots /\ \A h \in Slots : IsRequest(request'[h])
<1>0. DOMAIN request = Slots /\ \A h \in Slots : IsRequest(request[h]) /\ request[h].cipher \in 1 .. MaxAttempts
  BY DEF UploadInv, IsRequest
<1>1. ASSUME NEW h \in Slots, SendRequest(h)
      PROVE  DOMAIN request' = Slots /\ \A g \in Slots : IsRequest(request'[g])
  <2>1. source.attempts \in 1 .. MaxAttempts
    BY <1>1, TransferAssumption DEF SendRequest, UploadInv, JobState
  <2>2. IsRequest(request'[h])
    BY <1>0, <1>1, <2>1, Requests DEF SendRequest
  <2> QED
    BY <1>0, <1>1, <2>2 DEF SendRequest
<1>2. ASSUME NEW h \in Slots, Done(h) \/ \E s, f : Go(h, s, f)
      PROVE  DOMAIN request' = Slots /\ \A g \in Slots : IsRequest(request'[g])
  BY <1>0, <1>2, Requests DEF Done, Go
<1>3. ASSUME NEW h \in Slots,
             \/ Refused(h) \/ ChunkOpen(h) \/ ChunkWrite(h) \/ ChunkBreak(h)
             \/ FinalizeCheck(h) \/ PutTruncate(h) \/ RecordTransfer(h)
             \/ EnqueueInstall(h) \/ EnqueueFails(h)
      PROVE  Done(h) \/ \E s, f : Go(h, s, f)
  BY <1>3 DEF Refused, ChunkOpen, ChunkWrite, ChunkBreak, FinalizeCheck, PutTruncate, RecordTransfer,
              EnqueueInstall, EnqueueFails
<1>4. ASSUME NEW h \in Slots, PutCopy(h)
      PROVE  DOMAIN request' = Slots /\ \A g \in Slots : IsRequest(request'[g])
  <2>1. PICK s : request' = [request EXCEPT ![h] =
           Request("put", s, request[h].cipher, request[h].offset + 1, request[h].file)]
    BY <1>4 DEF PutCopy
  <2> QED
    BY <1>0, <2>1, Requests
<1>5. ASSUME NEW h \in Slots, PutBreak(h) \/ RecordFails(h)
      PROVE  DOMAIN request' = Slots /\ \A g \in Slots : IsRequest(request'[g])
  <2>1. \E f : request' = [Handed(f, "gone") EXCEPT ![h] = NoRequest] \/ Done(h)
    BY <1>5 DEF PutBreak, RecordFails
  <2>2. \A f : DOMAIN Handed(f, "gone") = Slots /\ \A g \in Slots : IsRequest(Handed(f, "gone")[g])
    BY <1>0, Requests DEF Handed
  <2> QED
    BY <1>0, <2>1, <2>2, Requests DEF Done
<1>6. ASSUME NEW h \in Slots, Promote(h)
      PROVE  DOMAIN request' = Slots /\ \A g \in Slots : IsRequest(request'[g])
  <2>1. CASE Done(h)
    BY <1>0, <2>1, Requests DEF Done
  <2>2. CASE ~Done(h)
    <3>1. request' = [g \in Slots |->
            IF g = h THEN Request(request[h].op, "record", request[h].cipher, 0, "gone")
            ELSE [request[g] EXCEPT !.file = IF request[g].file = "part" THEN "spool" ELSE "gone"]]
      BY <1>6, <2>2 DEF Promote
    <3> QED
      BY <1>0, <3>1, Requests
  <2> QED
    BY <2>1, <2>2
<1>7. CASE ServerCrash \/ ReportReplica \/ CleanupExpired
  <2>1. DOMAIN Handed("spool", "gone") = Slots /\ \A g \in Slots : IsRequest(Handed("spool", "gone")[g])
    BY <1>0, Requests DEF Handed
  <2>2. CASE ServerCrash
    BY <2>2, Requests DEF ServerCrash
  <2>3. CASE ReportReplica
    BY <1>0, <2>1, <2>3 DEF ReportReplica
  <2>4. CASE CleanupExpired
    BY <1>0, <2>4, Requests DEF CleanupExpired
  <2> QED
    BY <1>7, <2>2, <2>3, <2>4
<1>8. CASE \/ StartUpload \/ ProbeOffset \/ GiveUpWaiting \/ ResolveDoubt \/ CompleteUpload
           \/ SourceDies \/ StartInstall \/ Download \/ InstallVerified
           \/ CompleteInstall \/ InstallFails \/ Tick \/ UNCHANGED vars
  BY <1>0, <1>8 DEF StartUpload, ProbeOffset, GiveUpWaiting, ResolveDoubt, CompleteUpload,
              SourceDies, StartInstall, Download, InstallVerified, CompleteInstall,
              InstallFails, Tick, serverVars, vars
<1> QED
  BY <1>1, <1>2, <1>3, <1>4, <1>5, <1>6, <1>7, <1>8 DEF Next

LEMMA NextSize == [Next]_vars => UNCHANGED size
<1> SUFFICES ASSUME [Next]_vars PROVE UNCHANGED size
  OBVIOUS
<1>1. CASE StartUpload \/ ProbeOffset \/ GiveUpWaiting \/ ResolveDoubt \/ CompleteUpload \/ SourceDies
  BY <1>1 DEF StartUpload, ProbeOffset, GiveUpWaiting, ResolveDoubt, CompleteUpload, SourceDies
<1>2. ASSUME NEW h \in Slots,
             \/ SendRequest(h) \/ Refused(h) \/ ChunkOpen(h) \/ ChunkWrite(h) \/ ChunkBreak(h)
             \/ FinalizeCheck(h)
      PROVE  UNCHANGED size
  BY <1>2 DEF SendRequest, Refused, ChunkOpen, ChunkWrite, ChunkBreak, FinalizeCheck, Answer
<1>3. ASSUME NEW h \in Slots,
             \/ PutTruncate(h) \/ PutCopy(h) \/ PutBreak(h) \/ Promote(h) \/ RecordTransfer(h)
             \/ RecordFails(h) \/ EnqueueInstall(h) \/ EnqueueFails(h)
      PROVE  UNCHANGED size
  BY <1>3 DEF PutTruncate, PutCopy, PutBreak, Promote, RecordTransfer, RecordFails, EnqueueInstall,
              EnqueueFails, Answer
<1>4. CASE StartInstall \/ Download \/ InstallVerified \/ ReportReplica \/ CompleteInstall \/ InstallFails
  BY <1>4 DEF StartInstall, Download, InstallVerified, ReportReplica, CompleteInstall, InstallFails
<1>5. CASE ServerCrash \/ CleanupExpired \/ Tick \/ UNCHANGED vars
  BY <1>5 DEF ServerCrash, CleanupExpired, Tick, vars
<1> QED
  BY <1>1, <1>2, <1>3, <1>4, <1>5 DEF Next

LEMMA NextUpload == UploadInv /\ [Next]_vars => UploadInv'
<1> SUFFICES ASSUME UploadInv, [Next]_vars PROVE UploadInv'
  OBVIOUS
<1>1. size' \in 1 .. MaxChunks
  BY NextSize DEF UploadInv
<1>2. DOMAIN request' = Slots /\ \A h \in Slots : IsRequest(request'[h])
  BY NextRequests
<1>3. CASE UNCHANGED <<source, client>>
  BY <1>1, <1>2, <1>3 DEF UploadInv
<1>4. CASE Stops
  <2>1. source' \in JobState /\ source'.status \in {"queued", "failed", "succeeded"}
        /\ (source'.status = "queued" => source'.attempts < MaxAttempts)
    BY <1>4, UnsuccessfulJob DEF Stops, Job, JobState, UploadInv
  <2> QED
    BY <1>1, <1>2, <1>4, <2>1 DEF Stops, Client, UploadInv
<1>5. CASE GoesOn
  BY <1>1, <1>2, <1>5 DEF GoesOn, UploadInv
<1>6. CASE Starts
  <2>1. source' \in JobState /\ source'.status = "running" /\ source'.attempts > 0
    BY <1>6, TransferAssumption DEF Starts, Again, Job, JobState, UploadInv
  <2> QED
    BY <1>1, <1>2, <1>6, <2>1 DEF Starts, UploadInv
<1> QED
  BY <1>3, <1>4, <1>5, <1>6, ClientMoves

-----------------------------------------------------------------------------
(* The target agent                                                        *)

LEMMA NextInstall ==
  TransferInv /\ [Next]_vars => InstallInv' /\ ReplicaFromWholeCipher'
<1> SUFFICES ASSUME TransferInv, [Next]_vars PROVE InstallInv' /\ ReplicaFromWholeCipher'
  OBVIOUS
<1> USE DEF TransferInv
<1>0. \A f : IsWhole(f) => IsWhole(f)'
  BY NextSize DEF IsWhole, Cipher
<1>1. ASSUME NEW h \in Slots, EnqueueInstall(h)
      PROVE  InstallInv' /\ ReplicaFromWholeCipher'
  <2>1. IsWhole(Cipher(request[h].cipher))
    BY DEF UploadInv, IsRequest, IsWhole
  <2> QED
    BY <1>0, <1>1, <2>1 DEF EnqueueInstall, Install, Job, InstallInv, ReplicaFromWholeCipher
<1>2. CASE StartInstall \/ InstallFails \/ CompleteInstall
  <2>1. \A j : Again(j).status # "none" /\ Unsuccessful(j).status # "none"
    BY DEF Again, Unsuccessful, Job
  <2> QED
    BY <1>0, <1>2, <2>1 DEF StartInstall, InstallFails, CompleteInstall, Install, Job,
                            InstallInv, ReplicaFromWholeCipher
<1>3. CASE InstallVerified
  <2>1. IsWhole(dest) /\ dest # NoFile
    BY <1>3, WholeIsFile DEF InstallVerified, Installing, InstallInv, UploadInv
  <2> QED
    BY <1>0, <1>3, <2>1 DEF InstallVerified, Install, InstallInv, ReplicaFromWholeCipher
<1>4. CASE ReportReplica
  BY <1>0, <1>4 DEF ReportReplica, Install, InstallInv, ReplicaFromWholeCipher
<1>5. CASE UNCHANGED <<install, final, replica>>
  BY <1>0, <1>5 DEF InstallInv, ReplicaFromWholeCipher
<1>6. CASE StartUpload \/ ProbeOffset \/ GiveUpWaiting \/ ResolveDoubt \/ CompleteUpload \/ SourceDies
  <2>1. UNCHANGED <<install, final, replica>>
    BY <1>6 DEF targetVars, StartUpload, ProbeOffset, GiveUpWaiting, ResolveDoubt, CompleteUpload, SourceDies
  <2> QED
    BY <1>5, <2>1
<1>7. ASSUME NEW h \in Slots,
             \/ SendRequest(h) \/ Refused(h) \/ ChunkOpen(h) \/ ChunkWrite(h) \/ ChunkBreak(h)
             \/ FinalizeCheck(h)
      PROVE  InstallInv' /\ ReplicaFromWholeCipher'
  <2>1. UNCHANGED <<install, final, replica>>
    BY <1>7 DEF targetVars, SendRequest, Refused, ChunkOpen, ChunkWrite, ChunkBreak, FinalizeCheck, Answer
  <2> QED
    BY <1>5, <2>1
<1>8. ASSUME NEW h \in Slots,
             \/ PutTruncate(h) \/ PutCopy(h) \/ PutBreak(h) \/ Promote(h) \/ RecordTransfer(h)
             \/ RecordFails(h) \/ EnqueueFails(h)
      PROVE  InstallInv' /\ ReplicaFromWholeCipher'
  <2>1. UNCHANGED <<install, final, replica>>
    BY <1>8 DEF targetVars, PutTruncate, PutCopy, PutBreak, Promote, RecordTransfer, RecordFails,
                EnqueueFails, Answer
  <2> QED
    BY <1>5, <2>1
<1>9. CASE ServerCrash \/ Download \/ CleanupExpired \/ Tick \/ UNCHANGED vars
  <2>1. UNCHANGED <<install, final, replica>>
    BY <1>9 DEF vars, targetVars, ServerCrash, Download, CleanupExpired, Tick
  <2> QED
    BY <1>5, <2>1
<1> HIDE DEF TransferInv
<1> QED
  BY <1>1, <1>2, <1>3, <1>4, <1>6, <1>7, <1>8, <1>9 DEF Next

LEMMA InitTransfer == Init => TransferInv
BY TransferAssumption, Requests DEF Init, TransferInv, UploadInv, InstallInv, ReplicaFromWholeCipher, Job, JobState,
                          Client, Install

-----------------------------------------------------------------------------
(* The theorem                                                             *)

\* Whatever attempts, late handlers, lost answers, restarts and expiries mixed
\* in the spool and in the target's partial file (replicationUploadChunk,
\* replicationUploadFinalize, installReplica): the installed generation comes
\* from one complete ciphertext, and the replica is reported only when it is
\* installed.
THEOREM ReplicasAreWhole == Spec => []ReplicaFromWholeCipher
<1>1. TransferInv /\ [Next]_vars => TransferInv'
  BY NextUpload, NextInstall DEF TransferInv
<1>2. TransferInv => ReplicaFromWholeCipher
  BY DEF TransferInv
<1> QED
  BY InitTransfer, <1>1, <1>2, PTL DEF Spec
=============================================================================
