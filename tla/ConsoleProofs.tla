---------------------------- MODULE ConsoleProofs ----------------------------
(***************************************************************************)
(* Proofs about Audit and about Console.  What Audit promises holds for    *)
(* any number of processes, records and faults.  The console keeps to it:  *)
(* its handlers and commands only touch the ledger through the steps of    *)
(* Audit, so what is shown of the ledger holds of the console as well, for *)
(* any number of requests, cancellations, commands, browsers and restarts. *)
(***************************************************************************)
EXTENDS Console, SequenceTheorems, FiniteSetTheorems, TLAPS

USE AuditAssumption DEF AuditTypeOK

-----------------------------------------------------------------------------
(* The operators the actions are built from                                *)

\* The hash of a record that exists has its type.
LEMMA HashTyped ==
  ASSUME ledger \in Seq(LineType), NEW n \in 0 .. Len(ledger)
  PROVE  HashAt(n) \in Hashes
<1>1. CASE n = 0
  BY <1>1 DEF HashAt, NoHash, Hashes, Status
<1>2. CASE n # 0
  <2>1. ledger[n] \in LineType
    BY <1>2
  <2> QED
    BY <1>2, <2>1 DEF HashAt, Hash, Hashes, LineType
<1> QED
  BY <1>1, <1>2

\* Writing a record after the last one either adds a line that continues the
\* chain or spoils the last line, and changes no earlier record.
LEMMA WrittenLedger ==
  ASSUME AuditInv, NEW a \in Actors, NEW w \in BOOLEAN,
         call[a].at = "writing", ledger' = WithLine(a, call[a].head, w)
  PROVE  /\ ledger' \in Seq(LineType)
         /\ Len(ledger') >= Len(ledger)
         /\ Len(ledger') > 0
         /\ LedgerChained'
<1> DEFINE N == Len(ledger)
<1>0. call[a].head = N /\ N \in Nat
  BY DEF AuditInv, HeadIsRead
<1>1. CASE open
  <2>1. N \in 1 .. N
    BY <1>0, <1>1 DEF AuditInv, OpenHasLine
  <2>2. ledger' = [ledger EXCEPT ![N].whole = FALSE]
    BY <1>1 DEF WithLine
  <2>3. ledger' \in Seq(LineType) /\ Len(ledger') = N
    <3> DEFINE e == [ledger[N] EXCEPT !.whole = FALSE]
    <3>1. e \in LineType
      <4>1. ledger[N] \in LineType
        BY <2>1 DEF AuditInv
      <4> QED
        BY <4>1 DEF LineType
    <3>2. ledger' = [ledger EXCEPT ![N] = e]
      BY <2>2
    <3> HIDE DEF e, N
    <3>3. ledger \in Seq(LineType) /\ N \in 1 .. Len(ledger)
      BY <2>1 DEF AuditInv, N
    <3> QED
      BY <3>1, <3>2, <3>3, ExceptSeq DEF N
  <2>4. \A i \in 1 .. N : /\ ledger'[i].seq = ledger[i].seq
                          /\ ledger'[i].prev = ledger[i].prev
                          /\ ledger'[i].by = ledger[i].by
                          /\ ledger'[i].status = ledger[i].status
    BY <2>1, <2>2 DEF AuditInv, LineType
  <2>5. \A i \in 1 .. N : HashAt(i - 1)' = HashAt(i - 1)
    BY <2>4 DEF HashAt, Hash
  <2>6. LedgerChained'
    BY <2>3, <2>4, <2>5 DEF AuditInv, LedgerChained, Chained
  <2> QED
    BY <2>1, <2>3, <2>6
<1>2. CASE ~open
  <2> DEFINE l == NextLine(a, N, w)
  <2>1. ledger' = Append(ledger, l)
    BY <1>0, <1>2 DEF WithLine
  <2>2. l \in LineType
    <3>1. HashAt(N) \in Hashes
      BY <1>0, HashTyped DEF AuditInv
    <3>2. call[a].status \in Status
      BY DEF AuditInv, CallState
    <3> QED
      BY <1>0, <3>1, <3>2 DEF NextLine, LineType
  <2>3. ledger' \in Seq(LineType) /\ Len(ledger') = N + 1
    BY <2>1, <2>2 DEF AuditInv
  <2>4. (\A i \in 1 .. N : ledger'[i] = ledger[i]) /\ ledger'[N + 1] = l
    BY <2>1, <2>2 DEF AuditInv
  <2>5. \A i \in 1 .. N + 1 : HashAt(i - 1)' = HashAt(i - 1)
    BY <1>0, <2>4 DEF HashAt
  <2>6. ASSUME NEW i \in 1 .. N + 1
        PROVE  ledger'[i].seq = i /\ ledger'[i].prev = HashAt(i - 1)
    <3>1. CASE i = N + 1
      BY <1>0, <2>4, <3>1 DEF NextLine
    <3>2. CASE i # N + 1
      <4>1. i \in 1 .. N
        BY <1>0, <3>2
      <4>2. ledger[i].seq = i /\ ledger[i].prev = HashAt(i - 1)
        BY <4>1 DEF AuditInv, LedgerChained, Chained
      <4> QED
        BY <2>4, <4>1, <4>2
    <3> QED
      BY <3>1, <3>2
  <2>7. LedgerChained'
    BY <2>3, <2>5, <2>6 DEF LedgerChained, Chained
  <2> QED
    BY <1>0, <2>3, <2>7
<1> QED
  BY <1>1, <1>2

-----------------------------------------------------------------------------
(* The inductive invariant                                                 *)

\* A step that leaves the ledger alone keeps its chain.
LEMMA SameLedger ==
  ASSUME AuditInv, UNCHANGED <<ledger, open>>
  PROVE  ledger' \in Seq(LineType) /\ OpenHasLine' /\ LedgerChained'
<1>1. \A n : HashAt(n)' = HashAt(n)
  BY DEF HashAt
<1> QED
  BY <1>1 DEF AuditInv, OpenHasLine, LedgerChained, Chained

\* Append's write keeps the chain.
LEMMA AppendedLedger ==
  ASSUME AuditInv, NEW a \in Actors, AppendWrite(a)
  PROVE  /\ ledger' \in Seq(LineType) /\ Len(ledger') >= Len(ledger)
         /\ Len(ledger') \in Nat /\ LedgerChained'
<1>1. call[a].at = "writing" /\ ledger' = WithLine(a, call[a].head, TRUE)
  BY DEF AppendWrite
<1>2. ledger' \in Seq(LineType) /\ Len(ledger') >= Len(ledger) /\ LedgerChained'
  BY <1>1, WrittenLedger
<1>3. Len(ledger') \in Nat
  BY <1>2
<1> QED
  BY <1>2, <1>3

\* So does a write that ends early.
LEMMA CutLedger ==
  ASSUME AuditInv, NEW a \in Actors, call[a].at = "writing", CutShort(a)
  PROVE  /\ ledger' \in Seq(LineType) /\ Len(ledger') >= Len(ledger)
         /\ Len(ledger') \in Nat /\ LedgerChained' /\ OpenHasLine'
         /\ open' \in BOOLEAN
<1>1. CASE UNCHANGED <<ledger, open>>
  <2>1. ledger' = ledger /\ Len(ledger) \in Nat /\ open' \in BOOLEAN
    BY <1>1 DEF AuditInv
  <2> QED
    BY <1>1, <2>1, SameLedger
<1>2. CASE \E w \in BOOLEAN : ledger' = WithLine(a, call[a].head, w) /\ open' \in BOOLEAN
  <2>1. /\ ledger' \in Seq(LineType) /\ Len(ledger') >= Len(ledger)
        /\ Len(ledger') > 0 /\ LedgerChained'
    BY <1>2, WrittenLedger
  <2> QED
    BY <1>2, <2>1 DEF OpenHasLine
<1> QED
  BY <1>1, <1>2 DEF CutShort

LEMMA NoCheckpointTyped == NoCheckpoint \in [seq : Nat, hash : Hashes] /\ NoCheckpoint.seq = 0
BY DEF NoCheckpoint, NoHash, Hashes, Status

LEMMA InvInit == AuditInit => AuditInv
<1> SUFFICES ASSUME AuditInit PROVE AuditInv
  OBVIOUS
<1>1. checkpoint.seq = 0
  BY NoCheckpointTyped DEF AuditInit
<1>2. AuditTypeOK
  <2>1. NoCall \in CallState
    BY DEF NoCall, CallState, Status
  <2>2. ledger \in Seq(LineType)
    BY DEF AuditInit
  <2>3. checkpoint \in [seq : Nat, hash : Hashes]
    BY NoCheckpointTyped DEF AuditInit
  <2>4. call \in [Actors -> CallState]
    BY <2>1 DEF AuditInit
  <2>5. open \in BOOLEAN /\ guard \in Actors \cup {NoOne}
    BY DEF AuditInit
  <2>6. faults \in 0 .. MaxFaults
    <3>1. faults = 0
      BY DEF AuditInit
    <3> QED
      BY <3>1
  <2> QED
    BY <2>2, <2>3, <2>4, <2>5, <2>6
<1>3. ledger = <<>> /\ Len(ledger) = 0 /\ open = FALSE
  BY DEF AuditInit
<1>4. \A a \in Actors : call[a].at = "idle" /\ guard # a
  BY DEF AuditInit, NoCall
<1> QED
  BY <1>1, <1>2, <1>3, <1>4 DEF AuditInv, GuardIsHeld, HeadIsRead, OpenHasLine,
     LedgerChained, Chained, CheckpointExists

\* The actor that steps gets a call state that agrees with the guard; nobody
\* else's changes.
LEMMA InvNext == AuditInv /\ [AuditNext]_auditVars => AuditInv'
<1> SUFFICES ASSUME AuditInv, [AuditNext]_auditVars PROVE AuditInv'
  OBVIOUS
<1> USE DEF AuditInv
<1>a. Len(ledger) \in Nat
  OBVIOUS
<1>1. ASSUME NEW a \in Actors, Call(a) PROVE AuditInv'
  <2>1. ledger' \in Seq(LineType) /\ OpenHasLine' /\ LedgerChained'
    BY <1>1, SameLedger DEF Call
  <2>2. AuditTypeOK'
    BY <1>1, <2>1 DEF Call, Calling, CallState, Status
  <2> QED
    BY <1>1, <2>1, <2>2 DEF Call, Calling, GuardIsHeld, HeadIsRead, CheckpointExists, CallState
<1>2. ASSUME NEW a \in Actors, AppendBegin(a) PROVE AuditInv'
  <2>1. ledger' \in Seq(LineType) /\ OpenHasLine' /\ LedgerChained'
    BY <1>2, SameLedger DEF AppendBegin
  <2>2. AuditTypeOK'
    BY <1>2, <1>a, <2>1 DEF AppendBegin, Stepped, Returned, CallState
  <2> QED
    BY <1>2, <2>1, <2>2 DEF AppendBegin, Stepped, Returned, GuardIsHeld, HeadIsRead,
       CheckpointExists, CallState
<1>3. ASSUME NEW a \in Actors, AppendWrite(a) PROVE AuditInv'
  <2>1. /\ ledger' \in Seq(LineType) /\ Len(ledger') >= Len(ledger)
        /\ Len(ledger') \in Nat /\ LedgerChained'
    BY <1>3, AppendedLedger
  <2>2. AuditTypeOK'
    BY <1>3, <2>1 DEF AppendWrite, Stepped, Returned, CallState
  <2>3. \A b \in Actors : call'[b].at \notin {"writing", "signing"} /\ guard' # b
    BY <1>3 DEF AppendWrite, Stepped, Returned, GuardIsHeld, CallState
  <2>4. GuardIsHeld' /\ HeadIsRead'
    BY <2>3 DEF GuardIsHeld, HeadIsRead
  <2>5. CheckpointExists'
    <3>1. checkpoint' = checkpoint
      BY <1>3 DEF AppendWrite
    <3>2. checkpoint.seq \in 0 .. Len(ledger)
      BY DEF CheckpointExists
    <3> QED
      BY <1>a, <2>1, <3>1, <3>2 DEF CheckpointExists
  <2>6. OpenHasLine'
    BY <1>3 DEF AppendWrite, OpenHasLine
  <2> QED
    BY <2>1, <2>2, <2>4, <2>5, <2>6
<1>4. ASSUME NEW a \in Actors, AppendFails(a) PROVE AuditInv'
  <2>1. /\ ledger' \in Seq(LineType) /\ Len(ledger') >= Len(ledger)
        /\ Len(ledger') \in Nat /\ LedgerChained' /\ OpenHasLine'
        /\ open' \in BOOLEAN
    BY <1>4, CutLedger DEF AppendFails
  <2>2. AuditTypeOK'
    BY <1>4, <2>1 DEF AppendFails, Returned, CallState
  <2>3. \A b \in Actors : call'[b].at \notin {"writing", "signing"} /\ guard' # b
    BY <1>4 DEF AppendFails, Returned, GuardIsHeld, CallState
  <2>4. GuardIsHeld' /\ HeadIsRead'
    BY <2>3 DEF GuardIsHeld, HeadIsRead
  <2>5. CheckpointExists'
    BY <1>4, <1>a, <2>1 DEF AppendFails, CheckpointExists
  <2> QED
    BY <2>1, <2>2, <2>4, <2>5
<1>5. ASSUME NEW a \in Actors, CheckpointBegin(a) PROVE AuditInv'
  <2>1. ledger' \in Seq(LineType) /\ OpenHasLine' /\ LedgerChained'
    BY <1>5, SameLedger DEF CheckpointBegin
  <2>2. AuditTypeOK'
    BY <1>5, <1>a, <2>1 DEF CheckpointBegin, Stepped, Returned, CallState
  <2> QED
    BY <1>5, <2>1, <2>2 DEF CheckpointBegin, Stepped, Returned, GuardIsHeld, HeadIsRead,
       CheckpointExists, CallState
<1>6. ASSUME NEW a \in Actors, CheckpointWrite(a) PROVE AuditInv'
  <2>1. ledger' \in Seq(LineType) /\ OpenHasLine' /\ LedgerChained'
    BY <1>6, SameLedger DEF CheckpointWrite
  <2>2. call[a].head = Len(ledger) /\ HashAt(Len(ledger)) \in Hashes
    BY <1>6, <1>a, HashTyped DEF CheckpointWrite, HeadIsRead
  <2>3. AuditTypeOK'
    BY <1>6, <1>a, <2>1, <2>2 DEF CheckpointWrite, Returned, CallState
  <2> QED
    BY <1>6, <1>a, <2>1, <2>2, <2>3 DEF CheckpointWrite, Returned, GuardIsHeld, HeadIsRead,
       CheckpointExists, CallState
<1>7. ASSUME NEW a \in Actors, CheckpointFails(a) PROVE AuditInv'
  <2>1. ledger' \in Seq(LineType) /\ OpenHasLine' /\ LedgerChained'
    BY <1>7, SameLedger DEF CheckpointFails
  <2>2. checkpoint' \in [seq : Nat, hash : Hashes] /\ checkpoint'.seq \in 0 .. Len(ledger)
    BY <1>7, <1>a, NoCheckpointTyped DEF CheckpointFails, NotReplaced, CheckpointExists
  <2>3. AuditTypeOK'
    BY <1>7, <2>1, <2>2 DEF CheckpointFails, Returned, CallState
  <2> QED
    BY <1>7, <2>1, <2>2, <2>3 DEF CheckpointFails, Returned, GuardIsHeld, HeadIsRead,
       CheckpointExists, CallState
<1>8. ASSUME NEW a \in Actors, Leave(a) PROVE AuditInv'
  <2>1. ledger' \in Seq(LineType) /\ OpenHasLine' /\ LedgerChained'
    BY <1>8, SameLedger DEF Leave
  <2>2. AuditTypeOK'
    BY <1>8, <2>1 DEF Leave, NoCall, CallState, Status
  <2> QED
    BY <1>8, <2>1, <2>2 DEF Leave, NoCall, GuardIsHeld, HeadIsRead, CheckpointExists, CallState
<1>9. ASSUME NEW A \in SUBSET Actors, Die(A) PROVE AuditInv'
  <2>1. /\ ledger' \in Seq(LineType) /\ Len(ledger') >= Len(ledger)
        /\ Len(ledger') \in Nat /\ LedgerChained' /\ OpenHasLine'
        /\ open' \in BOOLEAN
    <3>1. CASE DiesAt(A, "writing")
      BY <1>9, <3>1, CutLedger DEF Die, DiesAt
    <3>2. CASE ~DiesAt(A, "writing")
      <4>1. UNCHANGED <<ledger, open>>
        BY <1>9, <3>2 DEF Die
      <4> QED
        BY <1>a, <4>1, SameLedger
    <3> QED
      BY <3>1, <3>2
  <2>2. checkpoint' \in [seq : Nat, hash : Hashes] /\ checkpoint'.seq \in 0 .. Len(ledger)
    BY <1>9, <1>a, NoCheckpointTyped DEF Die, NotReplaced, CheckpointExists
  <2>3. AuditTypeOK'
    <3>1. call' \in [Actors -> CallState]
      BY <1>9 DEF Die, NoCall, CallState, Status
    <3>2. guard' \in Actors \cup {NoOne} /\ faults' \in 0 .. MaxFaults
      BY <1>9 DEF Die
    <3> QED
      BY <2>1, <2>2, <3>1, <3>2
  <2>4. \A b \in Actors : call'[b] = (IF b \in A THEN NoCall ELSE call[b])
    BY <1>9 DEF Die
  <2>5. GuardIsHeld'
    BY <1>9, <2>4 DEF Die, NoCall, GuardIsHeld
  <2>6. HeadIsRead'
    <3> SUFFICES ASSUME NEW b \in Actors, call'[b].at \in {"writing", "signing"}
                 PROVE  call'[b].head = Len(ledger')
      BY DEF HeadIsRead
    <3>1. b \notin A /\ call'[b] = call[b]
      BY <2>4 DEF NoCall
    <3>2. guard = b /\ call[b].head = Len(ledger)
      BY <3>1 DEF GuardIsHeld, HeadIsRead
    <3>3. ledger' = ledger
      BY <1>9, <3>1, <3>2 DEF Die, DiesAt
    <3> QED
      BY <3>1, <3>2, <3>3
  <2>7. CheckpointExists'
    BY <1>a, <2>1, <2>2 DEF CheckpointExists
  <2> QED
    BY <2>1, <2>3, <2>5, <2>6, <2>7
<1>10. CASE UNCHANGED auditVars
  <2>1. ledger' \in Seq(LineType) /\ OpenHasLine' /\ LedgerChained'
    BY <1>10, SameLedger DEF auditVars
  <2> QED
    BY <1>10, <2>1 DEF auditVars, GuardIsHeld, HeadIsRead, CheckpointExists
<1> QED
  BY <1>1, <1>2, <1>3, <1>4, <1>5, <1>6, <1>7, <1>8, <1>9, <1>10 DEF AuditNext, AuditStep

\* Every state of every user of the audit package satisfies the invariant.
THEOREM AuditInvariant == AuditSpec => []AuditInv
<1>1. AuditInit => AuditInv
  BY InvInit
<1>2. AuditInv /\ [AuditNext]_auditVars => AuditInv'
  BY InvNext
<1> QED
  BY <1>1, <1>2, PTL DEF AuditSpec

\* However many processes append, and whatever writes fail or are cut short,
\* sequence numbers and prev_hash of the ledger fit (Append).
THEOREM LedgerNeverForks == AuditSpec => []LedgerChained
<1>1. AuditInv => LedgerChained
  BY DEF AuditInv
<1> QED
  BY <1>1, AuditInvariant, PTL

-----------------------------------------------------------------------------
(* The checkpoint                                                          *)

\* Every step but the signature leaves the checkpoint alone, or loses it in a
\* fault.
LEMMA OnlySigned ==
  ASSUME AuditInv, AuditNext, ~ \E a \in Actors : CheckpointWrite(a)
  PROVE  checkpoint' = checkpoint \/ (checkpoint' = NoCheckpoint /\ faults' > faults)
<1>1. faults + 1 > faults
  BY DEF AuditInv
<1>2. ASSUME NEW a \in Actors, CheckpointFails(a)
      PROVE  checkpoint' = checkpoint \/ (checkpoint' = NoCheckpoint /\ faults' > faults)
  BY <1>1, <1>2 DEF CheckpointFails, NotReplaced
<1>3. ASSUME NEW A \in SUBSET Actors, Die(A)
      PROVE  checkpoint' = checkpoint \/ (checkpoint' = NoCheckpoint /\ faults' > faults)
  BY <1>1, <1>3 DEF Die, NotReplaced
<1>4. ASSUME NEW a \in Actors, \/ Call(a) \/ Leave(a) \/ AppendBegin(a) \/ AppendWrite(a)
                               \/ AppendFails(a) \/ CheckpointBegin(a)
      PROVE  checkpoint' = checkpoint
  BY <1>4 DEF Call, Leave, AppendBegin, AppendWrite, AppendFails, CheckpointBegin
<1> QED
  BY <1>2, <1>3, <1>4 DEF AuditNext, AuditStep

LEMMA CheckpointStep ==
  ASSUME AuditInv, AuditInv', AuditNext
  PROVE  \/ checkpoint'.seq \in checkpoint.seq .. Len(ledger')
         \/ checkpoint' = NoCheckpoint /\ faults' > faults
<1>1. checkpoint.seq \in 0 .. Len(ledger) /\ Len(ledger) \in Nat
  BY DEF AuditInv, CheckpointExists
<1>2. checkpoint'.seq \in 0 .. Len(ledger') /\ Len(ledger') \in Nat
  BY DEF AuditInv, CheckpointExists
<1>3. CASE \E a \in Actors : CheckpointWrite(a)
  <2>1. checkpoint'.seq = Len(ledger) /\ ledger' = ledger
    BY <1>3 DEF CheckpointWrite, AuditInv, HeadIsRead
  <2> QED
    BY <1>1, <2>1
<1>4. CASE checkpoint' = checkpoint
  BY <1>1, <1>2, <1>4
<1> QED
  BY <1>3, <1>4, OnlySigned

\* The signed checkpoint never goes back to an older head and never names a
\* record the ledger does not have (WriteCheckpoint under the guard); only a
\* fault may lose it (atomicWriteAuditFile).
THEOREM CheckpointNeverGoesBack == AuditSpec => CheckpointAdvances
<1>1. AuditInv /\ AuditInv' /\ [AuditNext]_auditVars
        => [\/ checkpoint'.seq \in checkpoint.seq .. Len(ledger')
            \/ checkpoint' = NoCheckpoint /\ faults' > faults]_auditVars
  BY CheckpointStep
<1> QED
  BY <1>1, AuditInvariant, PTL DEF AuditSpec, CheckpointAdvances

\* Without a fault every line parses, so that a scan only fails after one.
LEMMA WholeNext ==
  ASSUME AuditInv, LinesAreWhole, [AuditNext]_auditVars
  PROVE  LinesAreWhole'
<1> SUFFICES ASSUME faults' = 0
             PROVE  ~open' /\ \A i \in 1 .. Len(ledger') : ledger'[i].whole
  BY DEF LinesAreWhole
<1>1. CASE \E a \in Actors : AppendWrite(a)
  <2> PICK a \in Actors : AppendWrite(a)
    BY <1>1
  <2>1. faults = 0 /\ ~open' /\ call[a].at = "writing" /\ ledger' = WithLine(a, call[a].head, TRUE)
    BY DEF AppendWrite
  <2>2. ~open /\ \A i \in 1 .. Len(ledger) : ledger[i].whole
    BY <2>1 DEF LinesAreWhole
  <2> DEFINE l == NextLine(a, call[a].head, TRUE)
  <2>3. ledger' = Append(ledger, l) /\ l.whole = TRUE
    BY <2>1, <2>2 DEF WithLine, NextLine
  <2> HIDE DEF l
  <2>4. ledger \in Seq(LineType)
    BY DEF AuditInv
  <2>5. Len(ledger') = Len(ledger) + 1 /\ ledger'[Len(ledger) + 1] = l
        /\ \A i \in 1 .. Len(ledger) : ledger'[i] = ledger[i]
    BY <2>3, <2>4
  <2>6. ASSUME NEW i \in 1 .. Len(ledger') PROVE ledger'[i].whole
    <3>1. CASE i = Len(ledger) + 1
      BY <2>3, <2>5, <3>1
    <3>2. CASE i # Len(ledger) + 1
      <4>1. i \in 1 .. Len(ledger)
        BY <2>4, <2>5, <3>2
      <4> QED
        BY <2>2, <2>5, <4>1
    <3> QED
      BY <3>1, <3>2
  <2> QED
    BY <2>1, <2>6
<1>2. CASE ~ \E a \in Actors : AppendWrite(a)
  <2>1. faults \in Nat
    BY DEF AuditInv
  <2>2. UNCHANGED <<ledger, open, faults>>
    <3>1. CASE UNCHANGED auditVars
      BY <3>1 DEF auditVars
    <3>2. CASE \E a \in Actors : Call(a) \/ AppendBegin(a) \/ CheckpointBegin(a)
                                  \/ CheckpointWrite(a) \/ Leave(a)
      BY <3>2 DEF Call, AppendBegin, CheckpointBegin, CheckpointWrite, Leave
    <3>3. CASE (\E a \in Actors : AppendFails(a) \/ CheckpointFails(a))
                \/ \E A \in SUBSET Actors : Die(A)
      <4>1. faults' = faults + 1
        BY <3>3 DEF AppendFails, CheckpointFails, Die
      <4> QED
        BY <2>1, <4>1
    <3> QED
      BY <1>2, <3>1, <3>2, <3>3 DEF AuditNext, AuditStep
  <2> QED
    BY <2>2 DEF LinesAreWhole
<1> QED
  BY <1>1, <1>2

\* A verified ledger is one with whole lines, so a signature without a fault
\* is never refused.
LEMMA SettledNext ==
  ASSUME AuditInv, SettledInv, [AuditNext]_auditVars
  PROVE  SettledCheckpointIsHead'
<1> DEFINE Settled == \A b \in Actors : call[b].at \notin {"checkpoint", "signing"}
           Signed == checkpoint = [seq |-> Len(ledger), hash |-> HashAt(Len(ledger))]
<1> SUFFICES ASSUME SignManifests, faults' = 0, Settled'
             PROVE  Signed'
  BY DEF SettledCheckpointIsHead
<1>1. faults \in Nat /\ Len(ledger) \in Nat
  BY DEF AuditInv
<1>2. faults = 0 => Verified
  BY DEF SettledInv, LinesAreWhole, AuditInv, LedgerChained, Verified
<1>3. CASE UNCHANGED <<ledger, checkpoint, faults>> /\ Settled
  <2>1. Signed
    BY <1>3 DEF SettledInv, SettledCheckpointIsHead
  <2> QED
    BY <1>3, <2>1 DEF HashAt
<1>4. CASE UNCHANGED auditVars
  BY <1>3, <1>4 DEF auditVars
<1>5. ASSUME NEW a \in Actors, Call(a) \/ Leave(a) \/ AppendBegin(a) PROVE Signed'
  <2>1. Settled
    BY <1>5 DEF AuditInv, Call, Leave, AppendBegin
  <2> QED
    BY <1>3, <1>5, <2>1 DEF Call, Leave, AppendBegin
<1>6. ASSUME NEW a \in Actors, AppendWrite(a) PROVE Signed'
  <2>1. call'[a].at = "checkpoint"
    BY <1>6 DEF AuditInv, AppendWrite, Stepped
  <2> QED
    BY <2>1
<1>7. ASSUME NEW a \in Actors, CheckpointBegin(a) PROVE Signed'
  <2>1. faults = 0 /\ Verified
    BY <1>2, <1>7 DEF CheckpointBegin
  <2>2. call'[a].at = "signing"
    BY <1>7, <2>1 DEF AuditInv, CheckpointBegin, Stepped
  <2> QED
    BY <2>2
<1>8. ASSUME NEW a \in Actors, CheckpointWrite(a) PROVE Signed'
  <2>1. call[a].head = Len(ledger) /\ ledger' = ledger
    BY <1>8 DEF AuditInv, HeadIsRead, CheckpointWrite
  <2>2. checkpoint' = [seq |-> Len(ledger), hash |-> HashAt(Len(ledger))]
    BY <1>8, <2>1 DEF CheckpointWrite
  <2> QED
    BY <2>1, <2>2 DEF HashAt
<1>9. CASE (\E a \in Actors : AppendFails(a) \/ CheckpointFails(a))
            \/ \E A \in SUBSET Actors : Die(A)
  <2>1. faults' = faults + 1
    BY <1>9 DEF AppendFails, CheckpointFails, Die
  <2> QED
    BY <1>1, <2>1
<1> QED
  BY <1>4, <1>5, <1>6, <1>7, <1>8, <1>9 DEF AuditNext, AuditStep

\* Once every caller has signed, without a fault, the checkpoint is the head
\* of the ledger: no interleaving of the two guarded steps loses a signature.
THEOREM CheckpointSettles == AuditSpec => []SettledCheckpointIsHead
<1>1. AuditInit => SettledInv
  BY DEF AuditInit, SettledInv, LinesAreWhole, SettledCheckpointIsHead, HashAt, NoCheckpoint
<1>2. AuditInv /\ SettledInv /\ [AuditNext]_auditVars => SettledInv'
  BY WholeNext, SettledNext DEF SettledInv
<1>3. SettledInv => SettledCheckpointIsHead
  BY DEF SettledInv
<1> QED
  BY <1>1, <1>2, <1>3, AuditInvariant, PTL DEF AuditSpec

HIDE AuditAssumption DEF AuditTypeOK

-----------------------------------------------------------------------------
(* A handler is outside of the audit package when it logs the next record. *)

LEMMA LogIsCall ==
  ASSUME NEW a \in Actors, NEW s \in Status \ {"none"},
         call[a].at \in {"idle", "returned"}, Log(a, s)
  PROVE  Call(a)
BY DEF Log, Call

LEMMA FinishIsLeave ==
  ASSUME NEW a \in Actors, call[a].at = "returned", Finish(a)
  PROVE  Leave(a)
BY DEF Finish, Leave

\* Every step of the console is a step of an audit caller, the death of the
\* callers in one process, or leaves the ledger alone.
LEMMA StepSimulation ==
  ASSUME ConsoleInv, [Next]_vars
  PROVE  [AuditNext]_auditVars
<1> USE ConsoleAssumption DEF Answered
<1>1. ASSUME NEW a \in Actors, InAudit(a) PROVE AuditNext
  BY <1>1 DEF InAudit, AuditNext
<1>2. ASSUME NEW a \in Actors, Receive(a) PROVE AuditNext
  <2>1. call[a].at = "idle" /\ Log(a, "requested")
    BY <1>2 DEF Receive, ConsoleInv, CallsMatchPhases
  <2>2. Call(a)
    BY <2>1, LogIsCall DEF Status
  <2> QED
    BY <2>2 DEF AuditNext
<1>3. ASSUME NEW a \in Actors, Refuse(a) \/ Close(a) PROVE AuditNext
  <2>1. Leave(a)
    BY <1>3, FinishIsLeave DEF Refuse, Close
  <2> QED
    BY <2>1 DEF AuditNext
<1>4. ASSUME NEW r \in Requests, StartJob(r) PROVE AuditNext
  <2>1. Leave(r)
    BY <1>4 DEF StartJob, Leave
  <2> QED
    BY <2>1 DEF AuditNext
<1>5. ASSUME NEW r \in Requests, RejectJob(r) PROVE AuditNext
  <2>1. Call(r)
    BY <1>5, LogIsCall DEF RejectJob, Status
  <2> QED
    BY <2>1 DEF AuditNext
<1>6. ASSUME NEW r \in Requests, OperationReturns(r) PROVE AuditNext
  <2>1. PICK s \in Outcome : Log(r, s)
    BY <1>6 DEF OperationReturns
  <2>2. call[r].at = "idle"
    BY <1>6 DEF OperationReturns, ConsoleInv, CallsMatchPhases
  <2>3. Call(r)
    BY <2>1, <2>2, LogIsCall DEF Outcome, Status
  <2> QED
    BY <2>3 DEF AuditNext
<1>7. ASSUME NEW r \in Requests, JobEnds(r) PROVE AuditNext
  <2>1. Leave(r)
    BY <1>7, FinishIsLeave DEF JobEnds
  <2> QED
    BY <2>1 DEF AuditNext
<1>8. ASSUME NEW c \in Cancels, CancelJob(c) PROVE AuditNext
  <2>1. Call(c)
    BY <1>8, LogIsCall DEF CancelJob, Status
  <2> QED
    BY <2>1 DEF AuditNext
<1>9. ASSUME NEW p \in Commands, CommandReturns(p) PROVE AuditNext
  <2>1. call[p].at = "idle"
    BY <1>9 DEF CommandReturns, ConsoleInv, CallsMatchPhases
  <2>2. Call(p)
    BY <1>9, <2>1, LogIsCall DEF CommandReturns, Status
  <2> QED
    BY <2>2 DEF AuditNext
<1>10. ASSUME Restart PROVE AuditNext
  <2>1. Die(Handlers) /\ Handlers \in SUBSET Actors
    BY <1>10 DEF Restart, Handlers
  <2> QED
    BY <2>1 DEF AuditNext
<1>11. ASSUME \/ \E r \in Requests : OperationLogs(r) \/ Reply(r)
              \/ \E b \in Browsers : Connect(b) \/ Disconnect(b) \/ Poll(b) \/ Observe(b)
              \/ UNCHANGED vars
       PROVE  UNCHANGED auditVars
  BY <1>11 DEF OperationLogs, Reply, Connect, Disconnect, Poll, Observe, OnlyBrowser,
     vars, auditVars
<1> QED
  BY <1>1, <1>2, <1>3, <1>4, <1>5, <1>6, <1>7, <1>8, <1>9, <1>10, <1>11 DEF Next

LEMMA ConsoleInvInit == Init => ConsoleInv
<1> SUFFICES ASSUME Init PROVE ConsoleInv
  OBVIOUS
<1>1. AuditInv
  BY InvInit DEF Init
<1>2. \A a \in Actors : call[a].at = "idle"
  BY DEF Init, AuditInit, NoCall
<1> QED
  BY <1>1, <1>2 DEF Init, ConsoleInv, CallsMatchPhases

\* A step changes the call of the one actor that takes it, and enters the
\* audit package only in a phase that waits for it.
LEMMA ConsoleInvNext ==
  ASSUME ConsoleInv, [Next]_vars
  PROVE  ConsoleInv'
<1> DEFINE Phases == {"new", "requesting", "running", "closing", "done"}
           Good == phase \in [Actors -> Phases] /\ CallsMatchPhases
<1> USE ConsoleAssumption DEF Answered
<1>1. AuditInv'
  <2>1. [AuditNext]_auditVars
    BY StepSimulation
  <2> QED
    BY <2>1, InvNext DEF ConsoleInv
<1>2. Good /\ call \in [Actors -> CallState]
  BY DEF ConsoleInv, AuditInv, AuditTypeOK
<1>3. ASSUME NEW a \in Actors, InAudit(a) PROVE Good'
  <2>1. call[a].at # "idle" /\ phase' = phase
    BY <1>3 DEF InAudit, AuditStep, AppendBegin, AppendWrite, AppendFails,
       CheckpointBegin, CheckpointWrite, CheckpointFails
  <2>2. \A b \in Actors \ {a} : call'[b] = call[b]
    BY <1>2, <1>3 DEF InAudit, AuditStep, AppendBegin, AppendWrite, AppendFails,
       CheckpointBegin, CheckpointWrite, CheckpointFails
  <2> QED
    BY <1>2, <2>1, <2>2 DEF CallsMatchPhases
<1>4. ASSUME NEW a \in Actors, Receive(a) PROVE Good'
  BY <1>2, <1>4 DEF Receive, Log, CallsMatchPhases
<1>5. ASSUME NEW a \in Actors, Refuse(a) \/ Close(a) PROVE Good'
  BY <1>2, <1>5 DEF Refuse, Close, Finish, NoCall, CallsMatchPhases
<1>6. ASSUME NEW r \in Requests, StartJob(r) PROVE Good'
  BY <1>2, <1>6 DEF StartJob, NoCall, CallsMatchPhases
<1>7. ASSUME NEW r \in Requests, RejectJob(r) PROVE Good'
  BY <1>2, <1>7 DEF RejectJob, Log, CallsMatchPhases
<1>8. ASSUME NEW r \in Requests, OperationReturns(r) PROVE Good'
  BY <1>2, <1>8 DEF OperationReturns, Log, CallsMatchPhases
<1>9. ASSUME NEW r \in Requests, JobEnds(r) PROVE Good'
  BY <1>2, <1>9 DEF JobEnds, Finish, NoCall, CallsMatchPhases
<1>10. ASSUME NEW c \in Cancels, CancelJob(c) PROVE Good'
  BY <1>2, <1>10 DEF CancelJob, Log, CallsMatchPhases
<1>11. ASSUME NEW p \in Commands, CommandReturns(p) PROVE Good'
  BY <1>2, <1>11 DEF CommandReturns, Log, CallsMatchPhases
<1>12. ASSUME Restart PROVE Good'
  BY <1>2, <1>12 DEF Restart, Die, NoCall, CallsMatchPhases
<1>13. ASSUME \/ \E r \in Requests : OperationLogs(r) \/ Reply(r)
              \/ \E b \in Browsers : Connect(b) \/ Disconnect(b) \/ Poll(b) \/ Observe(b)
              \/ UNCHANGED vars
       PROVE  Good'
  <2>1. phase' = phase /\ call' = call
    BY <1>13 DEF OperationLogs, Reply, Connect, Disconnect, Poll, Observe, OnlyBrowser, vars
  <2> QED
    BY <1>2, <2>1 DEF CallsMatchPhases
<1>14. Good'
  BY <1>3, <1>4, <1>5, <1>6, <1>7, <1>8, <1>9, <1>10, <1>11, <1>12, <1>13 DEF Next
<1> QED
  BY <1>1, <1>14 DEF ConsoleInv

-----------------------------------------------------------------------------
(* The job manager                                                         *)

LEMMA JobInvInit == Init => JobInv
BY ConsoleAssumption DEF Init, JobInv, JobIsCurrent, InFlight

LEMMA JobInvNext ==
  ASSUME JobInv, [Next]_vars
  PROVE  JobInv'
<1> USE ConsoleAssumption DEF JobInv, Answered
<1>1. CASE UNCHANGED <<phase, result, current>>
  BY <1>1 DEF JobIsCurrent, InFlight
<1>2. ASSUME NEW a \in Actors, Receive(a) PROVE JobInv'
  BY <1>2 DEF Receive, JobIsCurrent, InFlight
<1>3. ASSUME NEW a \in Actors, Refuse(a) \/ Close(a) PROVE JobInv'
  BY <1>3 DEF Refuse, Close, Finish, JobIsCurrent, InFlight
<1>4. ASSUME NEW r \in Requests, StartJob(r) PROVE JobInv'
  <2>1. \A q \in Requests : ~InFlight(q)
    BY <1>4 DEF StartJob, Occupied, JobIsCurrent
  <2> QED
    BY <1>4, <2>1 DEF StartJob, JobIsCurrent, InFlight
<1>5. ASSUME NEW r \in Requests, RejectJob(r) PROVE JobInv'
  BY <1>5 DEF RejectJob, JobIsCurrent, InFlight, Outcome
<1>6. ASSUME NEW r \in Requests, OperationReturns(r) PROVE JobInv'
  BY <1>6 DEF OperationReturns, JobIsCurrent, InFlight, Outcome
<1>7. ASSUME NEW r \in Requests, JobEnds(r) PROVE JobInv'
  <2>1. \A q \in Requests : InFlight(q) => q = r
    BY <1>7 DEF JobEnds, JobIsCurrent, InFlight
  <2> QED
    BY <1>7, <2>1 DEF JobEnds, Finish, JobIsCurrent, InFlight
<1>8. ASSUME NEW c \in Cancels, CancelJob(c) PROVE JobInv'
  BY <1>8 DEF CancelJob, JobIsCurrent, InFlight
<1>9. ASSUME NEW p \in Commands, CommandReturns(p) PROVE JobInv'
  BY <1>9 DEF CommandReturns, JobIsCurrent, InFlight
<1>10. ASSUME Restart PROVE JobInv'
  BY <1>10 DEF Restart, Handlers, JobIsCurrent, InFlight
<1>11. ASSUME \/ \E a \in Actors : InAudit(a)
              \/ \E r \in Requests : OperationLogs(r) \/ Reply(r)
              \/ \E b \in Browsers : Connect(b) \/ Disconnect(b) \/ Poll(b) \/ Observe(b)
              \/ UNCHANGED vars
       PROVE  UNCHANGED <<phase, result, current>>
  BY <1>11 DEF InAudit, OperationLogs, Reply, Connect, Disconnect, Poll, Observe,
     OnlyBrowser, vars
<1> QED
  BY <1>1, <1>2, <1>3, <1>4, <1>5, <1>6, <1>7, <1>8, <1>9, <1>10, <1>11 DEF Next

-----------------------------------------------------------------------------
(* Results                                                                 *)

\* The handlers of the console and the commands of other processes use the
\* ledger as the audit package specifies: startJob, cancelJob, the wrapped
\* operation, auditResult and a restart in between.
THEOREM ConsoleImplementsAudit == Spec => AuditSpec
<1>1. Init => ConsoleInv
  BY ConsoleInvInit
<1>2. ConsoleInv /\ [Next]_vars => ConsoleInv'
  BY ConsoleInvNext
<1>3. ConsoleInv /\ [Next]_vars => [AuditNext]_auditVars
  BY StepSimulation
<1>4. Init => AuditInit
  BY DEF Init
<1> QED
  BY <1>1, <1>2, <1>3, <1>4, PTL DEF Spec, AuditSpec

\* So requests, cancellations and commands never fork the chain between them.
THEOREM ConsoleKeepsChain == Spec => []LedgerChained
BY ConsoleImplementsAudit, LedgerNeverForks, PTL

\* No interleaving of requests, rejections, cancellations, failed audit calls
\* and restarts lets a second operation start while one is in flight (Start).
THEOREM OneOperationAtATime == Spec => []SingleFlight
<1>1. Init => JobInv
  BY JobInvInit
<1>2. JobInv /\ [Next]_vars => JobInv'
  BY JobInvNext
<1>3. JobInv => SingleFlight
  BY DEF JobInv, JobIsCurrent, InFlight, SingleFlight
<1> QED
  BY <1>1, <1>2, <1>3, PTL DEF Spec

-----------------------------------------------------------------------------
(* The event stream                                                        *)

LEMMA StreamInvInit == Init => StreamInv
<1> SUFFICES ASSUME Init PROVE StreamInv
  OBVIOUS
<1>1. NoJob \in JobView
  BY DEF NoJob, JobView
<1>2. \A b \in Browsers : browser[b] \in BrowserState /\ browser[b].last = Fresh
                                                      /\ browser[b].epoch = 0
  BY <1>1 DEF Init, BrowserState, Fresh
<1>3. browser \in [Browsers -> BrowserState]
  BY <1>2 DEF Init
<1>4. Fresh <= 0 /\ Fresh # 0 /\ 0 <= 0 /\ 0 \in Nat
  BY DEF Fresh
<1>5. current \in JobView /\ current = NoJob /\ rev = 0 /\ restarts = 0
  BY <1>1 DEF Init
<1>6. \A b \in Browsers : /\ browser[b].epoch <= restarts
                          /\ browser[b].last <= rev
                          /\ browser[b].last # rev /\ browser[b].last # 0
  BY <1>2, <1>4, <1>5
<1> QED
  BY <1>3, <1>4, <1>5, <1>6 DEF StreamInv

\* A browser that received nothing keeps what it knows of the newest revision
\* while neither the job nor the revision changes.
LEMMA StreamSame ==
  ASSUME StreamInv, UNCHANGED <<current, rev, restarts>>,
         browser' \in [Browsers -> BrowserState],
         \A b \in Browsers : \/ /\ browser'[b].epoch = browser[b].epoch
                                 /\ browser'[b].last = browser[b].last
                                 /\ browser'[b].event = browser[b].event
                              \/ /\ browser'[b].epoch = restarts
                                 /\ browser'[b].last = rev
                                 /\ browser'[b].event = current
  PROVE  StreamInv'
BY DEF StreamInv

\* With a new revision every event sent before is behind.
LEMMA StreamBehind ==
  ASSUME StreamInv, UNCHANGED <<browser, restarts>>, rev' \in Nat, rev' > rev,
         current' \in JobView
  PROVE  StreamInv'
<1>0. rev' # 0
  BY DEF StreamInv
<1>1. ASSUME NEW b \in Browsers, browser[b].epoch = restarts
      PROVE  browser[b].last <= rev' /\ browser[b].last # rev'
  <2>1. browser[b].last \in Int /\ browser[b].last <= rev
    BY <1>1 DEF StreamInv, BrowserState, Fresh
  <2> QED
    BY <2>1 DEF StreamInv
<1> QED
  BY <1>0, <1>1 DEF StreamInv

LEMMA StreamInvNext ==
  ASSUME StreamInv, [Next]_vars
  PROVE  StreamInv'
<1>1. current \in JobView /\ rev \in Nat /\ restarts \in Nat /\ browser \in [Browsers -> BrowserState]
  BY DEF StreamInv
<1>2. CASE UNCHANGED <<current, rev, restarts, browser>>
  BY <1>2 DEF StreamInv
<1>3. ASSUME NEW r \in Requests, StartJob(r) PROVE StreamInv'
  <2>1. [job |-> r, state |-> "running"] \in JobView
    BY DEF JobView
  <2> QED
    BY <1>1, <1>3, <2>1, StreamBehind DEF StartJob
<1>4. ASSUME NEW r \in Requests, OperationLogs(r) PROVE StreamInv'
  BY <1>1, <1>4, StreamBehind DEF OperationLogs
<1>5. ASSUME NEW r \in Requests, JobEnds(r) PROVE StreamInv'
  <2>1. FinalState(r) \in Outcome
    BY <1>5 DEF JobEnds, FinalState, Outcome
  <2>2. current' \in JobView
    BY <1>1, <1>5, <2>1 DEF JobEnds, JobView
  <2>3. rev' \in Nat /\ rev' > rev
    BY <1>1, <1>5 DEF JobEnds
  <2> QED
    BY <1>5, <2>2, <2>3, StreamBehind DEF JobEnds
<1>6. ASSUME NEW c \in Cancels, CancelJob(c) PROVE StreamInv'
  <2>1. UNCHANGED <<browser, restarts, current>>
    BY <1>6 DEF CancelJob
  <2>2. rev' = rev + 1 \/ rev' = rev
    BY <1>6 DEF CancelJob
  <2>3. CASE rev' = rev + 1
    BY <1>1, <2>1, <2>3, StreamBehind
  <2> QED
    BY <1>2, <2>1, <2>2, <2>3
<1>7. ASSUME NEW b \in Browsers, Connect(b) \/ Disconnect(b) \/ Poll(b) PROVE StreamInv'
  <2>1. UNCHANGED <<current, rev, restarts>>
    BY <1>7 DEF Connect, Disconnect, Poll, OnlyBrowser
  <2>2. PICK s : /\ browser' = [browser EXCEPT ![b] = s]
                 /\ \/ s = [browser[b] EXCEPT !.connected = TRUE]
                    \/ s = [browser[b] EXCEPT !.connected = FALSE]
                    \/ s = [browser[b] EXCEPT !.view = current]
    BY <1>7 DEF Connect, Disconnect, Poll, OnlyBrowser
  <2>3. s \in BrowserState /\ s.epoch = browser[b].epoch /\ s.last = browser[b].last
                           /\ s.event = browser[b].event
    <3>1. browser[b] \in BrowserState
      BY <1>1
    <3> QED
      BY <1>1, <2>2, <3>1 DEF BrowserState
  <2> QED
    BY <1>1, <2>1, <2>2, <2>3, StreamSame
<1>8. ASSUME NEW b \in Browsers, Observe(b) PROVE StreamInv'
  <2>1. UNCHANGED <<current, rev, restarts>>
    BY <1>8 DEF Observe, OnlyBrowser
  <2>2. PICK s : /\ browser' = [browser EXCEPT ![b] = s]
                 /\ s = [browser[b] EXCEPT !.last = rev, !.epoch = restarts,
                                            !.event = current, !.view = current]
    BY <1>8 DEF Observe, OnlyBrowser
  <2>3. s \in BrowserState /\ s.epoch = restarts /\ s.last = rev /\ s.event = current
    <3>1. browser[b] \in BrowserState
      BY <1>1
    <3> QED
      BY <1>1, <2>2, <3>1 DEF BrowserState
  <2> QED
    BY <1>1, <2>1, <2>2, <2>3, StreamSame
<1>9. ASSUME NEW r \in Requests, Reply(r) PROVE StreamInv'
  <2> DEFINE b == IssuedBy[r]
  <2>1. UNCHANGED <<current, rev, restarts>>
    BY <1>9 DEF Reply, OnlyBrowser
  <2>2. PICK s : /\ browser' = [browser EXCEPT ![b] = s]
                 /\ s = [browser[b] EXCEPT !.view = [job |-> r, state |-> "running"]]
    BY <1>9 DEF Reply, OnlyBrowser
  <2>3. CASE b \in Browsers
    <3>1. browser[b] \in BrowserState /\ [job |-> r, state |-> "running"] \in JobView
      BY <1>1, <2>3 DEF JobView
    <3>2. s \in BrowserState /\ s.epoch = browser[b].epoch /\ s.last = browser[b].last
                             /\ s.event = browser[b].event
      BY <2>2, <3>1 DEF BrowserState
    <3> HIDE DEF b
    <3> QED
      BY <1>1, <2>1, <2>2, <2>3, <3>2, StreamSame
  <2>4. CASE b \notin Browsers
    <3>1. browser' = browser
      BY <1>1, <2>2, <2>4
    <3> QED
      BY <1>2, <2>1, <3>1
  <2> QED
    BY <2>3, <2>4
<1>10. ASSUME Restart PROVE StreamInv'
  <2>1. restarts' = restarts + 1 /\ rev' = 0 /\ current' = NoJob
    BY <1>10 DEF Restart
  <2>2. NoJob \in JobView
    BY DEF NoJob, JobView
  <2>3. ASSUME NEW b \in Browsers
        PROVE  /\ browser'[b] \in BrowserState /\ browser'[b].epoch = browser[b].epoch
               /\ browser'[b].last = browser[b].last /\ browser'[b].event = browser[b].event
    <3>1. browser[b] \in BrowserState /\ browser'[b] = [browser[b] EXCEPT !.connected = FALSE]
      BY <1>1, <1>10 DEF Restart
    <3> QED
      BY <3>1 DEF BrowserState
  <2>4. browser' \in [Browsers -> BrowserState]
    BY <1>10, <2>3 DEF Restart
  <2>5. ASSUME NEW b \in Browsers
        PROVE  browser'[b].epoch <= restarts' /\ browser'[b].epoch # restarts'
    <3>1. browser[b].epoch \in Nat /\ browser[b].epoch <= restarts
      BY DEF StreamInv, BrowserState
    <3> QED
      BY <1>1, <2>1, <2>3, <3>1
  <2> QED
    BY <1>1, <2>1, <2>2, <2>3, <2>4, <2>5 DEF StreamInv
<1>11. ASSUME \/ \E a \in Actors : InAudit(a) \/ Receive(a) \/ Refuse(a) \/ Close(a)
              \/ \E r \in Requests : RejectJob(r) \/ OperationReturns(r)
              \/ \E p \in Commands : CommandReturns(p)
              \/ UNCHANGED vars
       PROVE  UNCHANGED <<current, rev, restarts, browser>>
  BY <1>11 DEF InAudit, Receive, Refuse, Close, RejectJob, OperationReturns, CommandReturns, vars
<1> QED
  BY <1>2, <1>3, <1>4, <1>5, <1>6, <1>7, <1>8, <1>9, <1>10, <1>11 DEF Next

\* Whatever the requests, cancellations and connections do, a stream that waits
\* for the next revision has sent the job as it is (Observe), since no change of
\* the job goes without a new revision; a restart, which begins the revisions
\* anew, is the only thing that can leave it waiting on an old one.
THEOREM StreamStaysCurrent == Spec => []StaleOnlyAcrossRestart
<1>1. Init => StreamInv
  BY StreamInvInit
<1>2. StreamInv /\ [Next]_vars => StreamInv'
  BY StreamInvNext
<1>3. StreamInv => StaleOnlyAcrossRestart
  <2> SUFFICES ASSUME StreamInv, NEW b \in Browsers, Waits(b)
               PROVE  browser[b].event = current \/ (browser[b].epoch < restarts /\ rev > 0)
    BY DEF StaleOnlyAcrossRestart
  <2>1. browser[b].last = rev
    BY DEF Waits
  <2>2. CASE browser[b].epoch = restarts
    BY <2>1, <2>2 DEF StreamInv
  <2>3. CASE browser[b].epoch # restarts
    <3>1. browser[b].epoch < restarts
      <4>1. browser[b].epoch \in Nat /\ restarts \in Nat /\ browser[b].epoch <= restarts
        BY DEF StreamInv, BrowserState
      <4> QED
        BY <2>3, <4>1
    <3>2. rev \in Nat /\ (rev = 0 => browser[b].event = current)
      BY <2>1 DEF StreamInv
    <3> QED
      BY <3>1, <3>2
  <2> QED
    BY <2>2, <2>3
<1> QED
  BY <1>1, <1>2, <1>3, PTL DEF Spec

-----------------------------------------------------------------------------
(* What a step of the audit package does to the lines of the ledger        *)

\* A write adds its line, or is swallowed by a line without its newline, which
\* does not parse any more; who logged what on the other lines stays.
LEMMA LinesAfterWrite ==
  ASSUME AuditInv, NEW a \in Actors, NEW w \in BOOLEAN,
         ledger' = WithLine(a, call[a].head, w), call[a].at = "writing"
  PROVE  /\ Len(ledger) \in Nat
         /\ \A i \in 1 .. Len(ledger) : /\ ledger'[i].by = ledger[i].by
                                        /\ ledger'[i].status = ledger[i].status
                                        /\ ledger'[i].whole => ledger[i].whole
                                        /\ i < Len(ledger) \/ ~open => ledger'[i] = ledger[i]
         /\ open => /\ Len(ledger') = Len(ledger) /\ Len(ledger) > 0
                    /\ ~ledger'[Len(ledger)].whole
         /\ ~open => /\ Len(ledger') = Len(ledger) + 1
                     /\ ledger'[Len(ledger) + 1] = NextLine(a, Len(ledger), w)
<1> DEFINE N == Len(ledger)
<1>0. call[a].head = N /\ N \in Nat /\ ledger \in Seq(LineType)
  BY DEF AuditInv, AuditTypeOK, HeadIsRead
<1>1. CASE open
  <2>1. N \in 1 .. N
    BY <1>0, <1>1 DEF AuditInv, OpenHasLine
  <2> DEFINE e == [ledger[N] EXCEPT !.whole = FALSE]
  <2>2. ledger' = [ledger EXCEPT ![N] = e]
    BY <1>1 DEF WithLine
  <2>3. ledger[N] \in LineType
    BY <1>0, <2>1
  <2>4. e.by = ledger[N].by /\ e.status = ledger[N].status /\ e.whole = FALSE
    BY <2>3 DEF LineType
  <2> HIDE DEF e
  <2>5. Len(ledger') = N
    BY <1>0, <2>2
  <2>6. ledger'[N] = e
    BY <1>0, <2>1, <2>2
  <2>7. \A i \in 1 .. N : i < N => ledger'[i] = ledger[i]
    BY <1>0, <2>2
  <2>8. \A i \in 1 .. N : i = N \/ i < N
    BY <1>0
  <2>9. N > 0 /\ ~(N < N)
    BY <1>0, <2>1
  <2>10. ASSUME NEW i \in 1 .. N
         PROVE  /\ ledger'[i].by = ledger[i].by
                /\ ledger'[i].status = ledger[i].status
                /\ ledger'[i].whole => ledger[i].whole
                /\ i < N \/ ~open => ledger'[i] = ledger[i]
    <3>1. CASE i = N
      BY <1>1, <2>4, <2>6, <2>9, <3>1
    <3>2. CASE i < N
      BY <2>7, <3>2
    <3> QED
      BY <2>8, <3>1, <3>2
  <2>11. ~ledger'[N].whole
    BY <2>4, <2>6
  <2> QED
    BY <1>0, <1>1, <2>5, <2>9, <2>10, <2>11
<1>2. CASE ~open
  <2>1. ledger' = Append(ledger, NextLine(a, N, w))
    BY <1>0, <1>2 DEF WithLine
  <2> QED
    BY <1>0, <1>2, <2>1
<1> QED
  BY <1>1, <1>2

\* Only a writer that holds the guard touches the ledger.
LEMMA LedgerWrites ==
  ASSUME AuditInv, [AuditNext]_auditVars
  PROVE  \/ UNCHANGED <<ledger, open>>
         \/ \E a \in Actors : \E w \in BOOLEAN :
              call[a].at = "writing" /\ ledger' = WithLine(a, call[a].head, w)
<1>1. ASSUME NEW a \in Actors, AppendWrite(a)
      PROVE  call[a].at = "writing" /\ ledger' = WithLine(a, call[a].head, TRUE)
  BY <1>1 DEF AppendWrite
<1>2. ASSUME NEW a \in Actors, AppendFails(a)
      PROVE  call[a].at = "writing" /\ CutShort(a)
  BY <1>2 DEF AppendFails
<1>3. ASSUME NEW A \in SUBSET Actors, Die(A), ~UNCHANGED <<ledger, open>>
      PROVE  guard \in Actors /\ call[guard].at = "writing" /\ CutShort(guard)
  BY <1>3 DEF Die, DiesAt
<1>4. ASSUME NEW a \in Actors, CutShort(a)
      PROVE  \/ UNCHANGED <<ledger, open>>
             \/ \E w \in BOOLEAN : ledger' = WithLine(a, call[a].head, w)
  BY <1>4 DEF CutShort
<1>5. ASSUME NEW a \in Actors,
             \/ Call(a) \/ Leave(a) \/ AppendBegin(a) \/ CheckpointBegin(a)
             \/ CheckpointWrite(a) \/ CheckpointFails(a)
      PROVE  UNCHANGED <<ledger, open>>
  BY <1>5 DEF Call, Leave, AppendBegin, CheckpointBegin, CheckpointWrite, CheckpointFails
<1>6. CASE UNCHANGED auditVars
  BY <1>6 DEF auditVars
<1> QED
  BY <1>1, <1>2, <1>3, <1>4, <1>5, <1>6 DEF AuditNext, AuditStep

\* A ledger that does not verify never verifies again.
LEMMA VerifiedBefore ==
  ASSUME AuditInv, [AuditNext]_auditVars, Verified'
  PROVE  Verified
<1>1. Chained /\ Len(ledger) \in Nat
  BY DEF AuditInv, LedgerChained
<1>2. CASE UNCHANGED ledger
  <2>1. \A i \in 1 .. Len(ledger) : ledger[i].whole
    BY <1>2 DEF Verified
  <2> QED
    BY <1>1, <2>1 DEF Verified
<1>3. ASSUME NEW a \in Actors, NEW w \in BOOLEAN, call[a].at = "writing",
             ledger' = WithLine(a, call[a].head, w)
      PROVE  Verified
  <2>1. /\ \A i \in 1 .. Len(ledger) : ledger'[i].whole => ledger[i].whole
        /\ Len(ledger') = Len(ledger) \/ Len(ledger') = Len(ledger) + 1
    BY <1>3, LinesAfterWrite
  <2>2. \A i \in 1 .. Len(ledger) : i \in 1 .. Len(ledger')
    BY <1>1, <2>1
  <2>3. \A i \in 1 .. Len(ledger') : ledger'[i].whole
    BY DEF Verified
  <2> QED
    BY <1>1, <2>1, <2>2, <2>3 DEF Verified
<1> QED
  BY <1>2, <1>3, LedgerWrites

\* A record once ended stays readable, whatever is written after it.
LEMMA OnRecordStays ==
  ASSUME AuditInv, [AuditNext]_auditVars, NEW r, OnRecord(r)
  PROVE  OnRecord(r)'
<1>1. PICK i \in 1 .. Len(ledger) : /\ ledger[i].by = r /\ ledger[i].status = "requested"
                                    /\ ledger[i].whole /\ (i < Len(ledger) \/ ~open)
  BY DEF OnRecord
<1>2. CASE UNCHANGED <<ledger, open>>
  BY <1>2 DEF OnRecord
<1>3. ASSUME NEW a \in Actors, NEW w \in BOOLEAN, call[a].at = "writing",
             ledger' = WithLine(a, call[a].head, w)
      PROVE  OnRecord(r)'
  <2>1. /\ Len(ledger) \in Nat
        /\ ledger'[i] = ledger[i]
        /\ open => Len(ledger') = Len(ledger)
        /\ ~open => Len(ledger') = Len(ledger) + 1
    BY <1>1, <1>3, LinesAfterWrite
  <2>2. i \in 1 .. Len(ledger') /\ i < Len(ledger')
    BY <1>1, <2>1
  <2> QED
    BY <1>1, <2>1, <2>2 DEF OnRecord
<1> QED
  BY <1>2, <1>3, LedgerWrites

-----------------------------------------------------------------------------
(* Nothing runs without its record                                         *)

\* A request that is not at work keeps its record.
LEMMA RequestKept ==
  ASSUME AuditInv, [AuditNext]_auditVars, NEW r, call'[r] = call[r], RequestLogged(r)
  PROVE  RequestLogged(r)'
BY VerifiedBefore, OnRecordStays DEF RequestLogged

\* The audit call of a request, step by step.
LEMMA RequestSteps ==
  ASSUME AuditInv, NEW r \in Actors, AuditStep(r), RequestLogged(r), SignManifests
  PROVE  RequestLogged(r)'
<1>0. call \in [Actors -> CallState] /\ [AuditNext]_auditVars
  BY DEF AuditInv, AuditTypeOK, AuditNext
<1>1. CASE AppendBegin(r)
  BY <1>0, <1>1 DEF AppendBegin, Stepped, Returned, RequestLogged
<1>2. CASE AppendWrite(r)
  <2>1. call'[r] = Stepped(r, "checkpoint", 0)
    BY <1>0, <1>2 DEF AppendWrite
  <2>2. call'[r].status = "requested" /\ call'[r].at = "checkpoint"
    BY <2>1 DEF Stepped, RequestLogged
  <2>3. ASSUME Verified' PROVE OnRecord(r)'
    <3>1. /\ Len(ledger) \in Nat
          /\ open => /\ Len(ledger') = Len(ledger) /\ Len(ledger) > 0
                     /\ ~ledger'[Len(ledger)].whole
          /\ ~open => /\ Len(ledger') = Len(ledger) + 1
                      /\ ledger'[Len(ledger) + 1] = NextLine(r, Len(ledger), TRUE)
      BY <1>2, LinesAfterWrite DEF AppendWrite
    <3>2. \A i \in 1 .. Len(ledger') : ledger'[i].whole
      BY <2>3 DEF Verified
    <3>3. ~open
      <4>1. ASSUME open PROVE FALSE
        <5>1. Len(ledger) \in 1 .. Len(ledger')
          BY <3>1, <4>1
        <5> QED
          BY <3>1, <3>2, <4>1, <5>1
      <4> QED
        BY <4>1 DEF AuditInv
    <3>4. ~open' /\ Len(ledger) + 1 \in 1 .. Len(ledger')
      <4>1. ~open'
        BY <1>2 DEF AppendWrite
      <4>2. Len(ledger) + 1 \in 1 .. Len(ledger')
        BY <3>1, <3>3
      <4> QED
        BY <4>1, <4>2
    <3>5. /\ ledger'[Len(ledger) + 1].by = r
          /\ ledger'[Len(ledger) + 1].status = "requested"
          /\ ledger'[Len(ledger) + 1].whole
      BY <3>1, <3>3 DEF NextLine, RequestLogged
    <3> QED
      BY <3>4, <3>5 DEF OnRecord
  <2> QED
    BY <2>2, <2>3 DEF RequestLogged
<1>3. CASE AppendFails(r) \/ CheckpointFails(r)
  BY <1>0, <1>3 DEF AppendFails, CheckpointFails, Returned, RequestLogged
<1>4. CASE CheckpointBegin(r)
  <2>1. CASE Verified
    <3>1. OnRecord(r)'
      BY <1>0, <1>4, <2>1, OnRecordStays DEF CheckpointBegin, RequestLogged
    <3>2. call'[r].status = "requested"
      BY <1>0, <1>4 DEF CheckpointBegin, Stepped, Returned, RequestLogged
    <3> QED
      BY <3>1, <3>2 DEF RequestLogged
  <2>2. CASE ~Verified
    BY <1>0, <1>4, <2>2 DEF CheckpointBegin, Returned, RequestLogged
  <2> QED
    BY <2>1, <2>2
<1>5. CASE CheckpointWrite(r)
  <2>1. OnRecord(r)'
    BY <1>0, <1>5, OnRecordStays DEF CheckpointWrite, RequestLogged
  <2>2. call'[r].status = "requested"
    BY <1>0, <1>5 DEF CheckpointWrite, Returned, RequestLogged
  <2> QED
    BY <2>1, <2>2 DEF RequestLogged
<1> QED
  BY <1>1, <1>2, <1>3, <1>4, <1>5 DEF AuditStep

\* A step moves the actor that takes it, or the handlers of a process that
\* dies; every other actor stays where it is.
Idle(a) == phase'[a] = phase[a] /\ call'[a] = call[a]

LEMMA OneActorMoves ==
  ASSUME ConsoleInv, [Next]_vars, NEW r \in Requests, ~Idle(r)
  PROVE  \/ InAudit(r) \/ Receive(r) \/ Refuse(r) \/ Close(r) \/ StartJob(r) \/ RejectJob(r)
         \/ OperationReturns(r) \/ JobEnds(r) \/ Restart
<1> USE ConsoleAssumption DEF Idle
<1>0. call \in [Actors -> CallState] /\ r \in Actors
      /\ phase \in [Actors -> {"new", "requesting", "running", "closing", "done"}]
  BY DEF ConsoleInv, AuditInv, AuditTypeOK
<1>1. ASSUME NEW a \in Actors, InAudit(a), a # r PROVE FALSE
  BY <1>0, <1>1 DEF InAudit, AuditStep, AppendBegin, AppendWrite, AppendFails,
     CheckpointBegin, CheckpointWrite, CheckpointFails
<1>2. ASSUME NEW a \in Actors, Receive(a) \/ Refuse(a) \/ Close(a), a # r PROVE FALSE
  BY <1>0, <1>2 DEF Receive, Refuse, Close, Log, Finish
<1>3. ASSUME NEW q \in Requests, q # r,
             StartJob(q) \/ RejectJob(q) \/ OperationReturns(q) \/ JobEnds(q)
      PROVE  FALSE
  BY <1>0, <1>3 DEF StartJob, RejectJob, OperationReturns, JobEnds, Log, Finish
<1>4. ASSUME NEW c \in Cancels, CancelJob(c) PROVE FALSE
  BY <1>0, <1>4 DEF CancelJob, Log
<1>5. ASSUME NEW p \in Commands, CommandReturns(p) PROVE FALSE
  BY <1>0, <1>5 DEF CommandReturns, Log
<1>6. ASSUME \/ \E q \in Requests : OperationLogs(q) \/ Reply(q)
             \/ \E b \in Browsers : Connect(b) \/ Disconnect(b) \/ Poll(b) \/ Observe(b)
             \/ UNCHANGED vars
      PROVE  FALSE
  BY <1>6 DEF OperationLogs, Reply, Connect, Disconnect, Poll, Observe, OnlyBrowser, vars
<1> QED
  BY <1>1, <1>2, <1>3, <1>4, <1>5, <1>6 DEF Next

LEMMA RecordInvNext ==
  ASSUME ConsoleInv, RecordInv, [Next]_vars
  PROVE  RecordInv'
<1> SUFFICES ASSUME SignManifests, NEW r \in Requests
             PROVE  /\ phase'[r] = "requesting" => RequestLogged(r)'
                    /\ phase'[r] = "running" /\ Required => OnRecord(r)'
  BY DEF RecordInv
<1>0. /\ AuditInv /\ [AuditNext]_auditVars /\ r \in Actors
      /\ call \in [Actors -> CallState]
      /\ phase \in [Actors -> {"new", "requesting", "running", "closing", "done"}]
  BY StepSimulation, ConsoleAssumption DEF ConsoleInv, AuditInv, AuditTypeOK
<1>1. /\ phase[r] = "requesting" => RequestLogged(r)
      /\ phase[r] = "running" /\ Required => OnRecord(r)
  BY DEF RecordInv
<1>2. CASE Idle(r)
  BY <1>0, <1>1, <1>2, RequestKept, OnRecordStays DEF Idle
<1>3. CASE InAudit(r)
  <2>1. phase'[r] = phase[r] /\ AuditStep(r)
    BY <1>3 DEF InAudit
  <2> QED
    BY <1>0, <1>1, <2>1, RequestSteps, OnRecordStays
<1>4. CASE Receive(r)
  <2>1. call'[r] = Calling("requested") /\ phase'[r] = "requesting"
    BY <1>0, <1>4 DEF Receive, Log
  <2> QED
    BY <2>1 DEF Calling, RequestLogged
<1>5. CASE Refuse(r) \/ Close(r) \/ RejectJob(r) \/ OperationReturns(r) \/ JobEnds(r)
  BY <1>0, <1>5 DEF Refuse, Close, RejectJob, OperationReturns, JobEnds, Finish
<1>6. CASE StartJob(r)
  <2>1. phase'[r] = "running" /\ phase[r] = "requesting" /\ call[r].at = "returned"
        /\ MayProceed(r)
    BY <1>0, <1>6 DEF StartJob, Answered
  <2>2. Required => OnRecord(r)
    BY <1>1, <2>1 DEF MayProceed, RequestLogged
  <2> QED
    BY <1>0, <2>1, <2>2, OnRecordStays
<1>7. CASE Restart
  BY <1>0, <1>7 DEF Restart, Handlers
<1> QED
  BY <1>2, <1>3, <1>4, <1>5, <1>6, <1>7, OneActorMoves

\* With audit.required and signed checkpoints, an operation that runs has the
\* record of its request on a line that parses: a record that was cut short,
\* or swallowed by one that another process left cut short, does not verify
\* under the checkpoint that follows, and startJob refuses.
THEOREM NothingRunsUnlogged == Spec => []RunsOnRecord
<1>1. Init => ConsoleInv /\ RecordInv
  BY ConsoleInvInit, ConsoleAssumption DEF Init, RecordInv
<1>2. ConsoleInv /\ RecordInv /\ [Next]_vars => ConsoleInv' /\ RecordInv'
  BY ConsoleInvNext, RecordInvNext
<1>3. RecordInv => RunsOnRecord
  BY DEF RecordInv, OnRecord, RunsOnRecord
<1> QED
  BY <1>1, <1>2, <1>3, PTL DEF Spec

-----------------------------------------------------------------------------
(* The history                                                             *)

\* Records stay where they are, and a request gains one only at the end, with
\* the status it is logging.
LEMMA LinesGrow ==
  ASSUME AuditInv, [AuditNext]_auditVars, NEW r \in Requests, NEW S
  PROVE  /\ \A i \in Lines(r, S) : i \in Lines(r, S)' /\ ledger'[i].status = ledger[i].status
         /\ \A i \in Lines(r, S)' :
              \/ i \in Lines(r, S) /\ ledger'[i].status = ledger[i].status
              \/ /\ i = Len(ledger) + 1 /\ call[r].at = "writing"
                 /\ ledger'[i].status = call[r].status
<1>1. CASE UNCHANGED <<ledger, open>>
  BY <1>1 DEF Lines
<1>2. ASSUME NEW a \in Actors, NEW w \in BOOLEAN, call[a].at = "writing",
             ledger' = WithLine(a, call[a].head, w)
      PROVE  /\ \A i \in Lines(r, S) : i \in Lines(r, S)' /\ ledger'[i].status = ledger[i].status
             /\ \A i \in Lines(r, S)' :
                  \/ i \in Lines(r, S) /\ ledger'[i].status = ledger[i].status
                  \/ /\ i = Len(ledger) + 1 /\ call[r].at = "writing"
                     /\ ledger'[i].status = call[r].status
  <2>1. /\ Len(ledger) \in Nat
        /\ \A i \in 1 .. Len(ledger) : ledger'[i].by = ledger[i].by
                                       /\ ledger'[i].status = ledger[i].status
        /\ \/ Len(ledger') = Len(ledger)
           \/ /\ Len(ledger') = Len(ledger) + 1
              /\ ledger'[Len(ledger) + 1] = NextLine(a, Len(ledger), w)
    BY <1>2, LinesAfterWrite
  <2>2. \A i \in 1 .. Len(ledger) : i \in 1 .. Len(ledger')
    BY <2>1
  <2>3. \A i \in 1 .. Len(ledger') :
          \/ i \in 1 .. Len(ledger)
          \/ i = Len(ledger) + 1 /\ ledger'[i] = NextLine(a, Len(ledger), w)
    BY <2>1
  <2>4. NextLine(a, Len(ledger), w).by = a /\ NextLine(a, Len(ledger), w).status = call[a].status
    BY DEF NextLine
  <2>5. \A i \in Lines(r, S) : i \in Lines(r, S)' /\ ledger'[i].status = ledger[i].status
    BY <2>1, <2>2 DEF Lines
  <2>6. ASSUME NEW i \in Lines(r, S)'
        PROVE  \/ i \in Lines(r, S) /\ ledger'[i].status = ledger[i].status
               \/ /\ i = Len(ledger) + 1 /\ call[r].at = "writing"
                  /\ ledger'[i].status = call[r].status
    <3>1. i \in 1 .. Len(ledger') /\ ledger'[i].by = r /\ ledger'[i].status \in S
      BY DEF Lines
    <3>2. CASE i \in 1 .. Len(ledger)
      BY <2>1, <3>1, <3>2 DEF Lines
    <3>3. CASE i = Len(ledger) + 1 /\ ledger'[i] = NextLine(a, Len(ledger), w)
      BY <1>2, <2>4, <3>1, <3>3
    <3> QED
      BY <2>3, <3>1, <3>2, <3>3
  <2> QED
    BY <2>5, <2>6
<1> QED
  BY <1>1, <1>2, LedgerWrites

\* Only the request itself sets its result.
LEMMA ResultKept ==
  ASSUME JobInv, [Next]_vars, NEW r \in Requests, ~RejectJob(r), ~OperationReturns(r)
  PROVE  result'[r] = result[r]
<1>1. ASSUME NEW q \in Requests, RejectJob(q) \/ OperationReturns(q) PROVE result'[r] = result[r]
  BY <1>1 DEF RejectJob, OperationReturns, JobInv
<1>2. ASSUME ~ \E q \in Requests : RejectJob(q) \/ OperationReturns(q) PROVE result' = result
  BY <1>2 DEF Next, vars, InAudit, Receive, Refuse, Close, StartJob, OperationLogs, JobEnds, Reply,
     CancelJob, CommandReturns, Connect, Disconnect, Poll, Observe, OnlyBrowser, Restart
<1> QED
  BY <1>1, <1>2

\* While a request is at its audit call, and when it leaves, its records fit
\* its result: a line that is added has the status of its phase.
LEMMA EndKept ==
  ASSUME ConsoleInv, [AuditNext]_auditVars, NEW r \in Requests, EndOnRecord(r),
         result'[r] = result[r],
         phase'[r] = "done" \/ (phase'[r] = phase[r] /\ call'[r].status = call[r].status)
  PROVE  EndOnRecord(r)'
<1>0. /\ AuditInv /\ r \in Actors /\ Len(ledger) \in Nat
      /\ phase[r] \in {"new", "requesting", "running", "closing", "done"}
  BY ConsoleAssumption DEF ConsoleInv, AuditInv, AuditTypeOK
<1>1. call[r].at = "writing" => phase[r] \in {"requesting", "closing"}
  BY <1>0 DEF ConsoleInv, CallsMatchPhases
<1>2. "requested" \notin Closing
  BY DEF Closing, Outcome
<1>3. ASSUME NEW j \in Lines(r, Closing)'
      PROVE  /\ phase[r] \in {"closing", "done"}
             /\ ledger'[j].status = result[r]
             /\ j \in Lines(r, Closing) \/ j = Len(ledger) + 1
  <2>1. CASE j \in Lines(r, Closing) /\ ledger'[j].status = ledger[j].status
    BY <2>1 DEF EndOnRecord
  <2>2. CASE /\ j = Len(ledger) + 1 /\ call[r].at = "writing"
             /\ ledger'[j].status = call[r].status
    <3>1. ledger'[j].status \in Closing
      BY DEF Lines
    <3> QED
      BY <1>1, <1>2, <2>2, <3>1 DEF EndOnRecord
  <2> QED
    BY <1>0, <2>1, <2>2, LinesGrow
<1>4. ASSUME NEW i \in Lines(r, {"requested"})', NEW j \in Lines(r, Closing)'
      PROVE  i < j
  <2>1. ASSUME i \notin Lines(r, {"requested"}) PROVE FALSE
    <3>1. call[r].at = "writing" /\ ledger'[i].status = call[r].status
      BY <1>0, <2>1, LinesGrow
    <3>2. ledger'[i].status = "requested"
      BY DEF Lines
    <3>3. phase[r] = "closing"
      BY <1>1, <1>3, <3>1
    <3> QED
      BY <1>2, <3>1, <3>2, <3>3 DEF EndOnRecord
  <2>2. CASE j \in Lines(r, Closing)
    BY <2>1, <2>2 DEF EndOnRecord
  <2>3. CASE j = Len(ledger) + 1
    <3>1. i \in 1 .. Len(ledger)
      BY <2>1 DEF Lines
    <3> QED
      BY <1>0, <2>3, <3>1
  <2> QED
    BY <1>3, <2>2, <2>3
<1>5. Lines(r, Closing)' # {} => phase'[r] \in {"closing", "done"}
  BY <1>3
<1>6. /\ phase'[r] = "requesting" => call'[r].status = "requested"
      /\ phase'[r] = "closing" => result'[r] \in Closing /\ call'[r].status = result'[r]
  BY DEF EndOnRecord
<1> QED
  BY <1>3, <1>4, <1>5, <1>6 DEF EndOnRecord

\* A request begins without an end on record.
LEMMA EndBegins ==
  ASSUME NEW r \in Requests, EndOnRecord(r), UNCHANGED ledger,
         phase[r] \notin {"closing", "done"},
         phase'[r] = "requesting" => call'[r].status = "requested",
         phase'[r] = "closing" => result'[r] \in Closing /\ call'[r].status = result'[r]
  PROVE  EndOnRecord(r)'
<1>1. Lines(r, Closing) = {}
  BY DEF EndOnRecord
<1>2. Lines(r, Closing)' = {}
  BY <1>1 DEF Lines
<1> QED
  BY <1>2 DEF EndOnRecord

\* Every step of the console keeps the records of a request true.
LEMMA EndNext ==
  ASSUME ConsoleInv, JobInv, [Next]_vars, NEW r \in Requests, EndOnRecord(r)
  PROVE  EndOnRecord(r)'
<1>0. /\ [AuditNext]_auditVars /\ r \in Actors /\ call \in [Actors -> CallState]
      /\ phase \in [Actors -> {"new", "requesting", "running", "closing", "done"}]
      /\ result \in [Requests -> Outcome \cup {"none", "rejected"}]
  BY StepSimulation, ConsoleAssumption DEF ConsoleInv, JobInv, AuditInv, AuditTypeOK
<1>1. CASE RejectJob(r)
  <2>1. /\ phase[r] = "requesting" /\ phase'[r] = "closing" /\ UNCHANGED ledger
        /\ result'[r] = "rejected" /\ call'[r] = Calling("rejected")
    BY <1>0, <1>1 DEF RejectJob, Answered, Log
  <2>2. result'[r] \in Closing /\ call'[r].status = result'[r]
    BY <2>1 DEF Closing, Calling
  <2> QED
    BY <2>1, <2>2, EndBegins
<1>2. CASE OperationReturns(r)
  <2>1. PICK s \in Outcome : result' = [result EXCEPT ![r] = s] /\ Log(r, s)
    BY <1>2 DEF OperationReturns, Outcome
  <2>2. /\ phase[r] = "running" /\ phase'[r] = "closing" /\ UNCHANGED ledger
        /\ result'[r] = s /\ call'[r] = Calling(s)
    BY <1>0, <1>2, <2>1 DEF OperationReturns, Log
  <2>3. result'[r] \in Closing /\ call'[r].status = result'[r]
    BY <2>1, <2>2 DEF Closing, Calling
  <2> QED
    BY <2>2, <2>3, EndBegins
<1>3. CASE ~RejectJob(r) /\ ~OperationReturns(r)
  <2>1. result'[r] = result[r]
    BY <1>3, ResultKept
  <2>2. CASE Receive(r)
    <3>1. /\ phase[r] = "new" /\ phase'[r] = "requesting" /\ UNCHANGED ledger
          /\ call'[r] = Calling("requested")
      BY <1>0, <2>2 DEF Receive, Log
    <3>2. call'[r].status = "requested"
      BY <3>1 DEF Calling
    <3> QED
      BY <3>1, <3>2, EndBegins
  <2>3. CASE StartJob(r)
    <3>1. phase[r] = "requesting" /\ phase'[r] = "running" /\ UNCHANGED ledger
      BY <1>0, <2>3 DEF StartJob, Answered
    <3> QED
      BY <3>1, EndBegins
  <2>4. CASE InAudit(r)
    <3>1. phase'[r] = phase[r]
      BY <2>4 DEF InAudit
    <3>2. ASSUME AppendBegin(r) \/ CheckpointBegin(r) PROVE call'[r].status = call[r].status
      BY <1>0, <3>2 DEF AppendBegin, CheckpointBegin, Stepped, Returned
    <3>3. ASSUME AppendWrite(r) PROVE call'[r].status = call[r].status
      BY <1>0, <3>3 DEF AppendWrite, Stepped, Returned
    <3>4. ASSUME AppendFails(r) \/ CheckpointWrite(r) \/ CheckpointFails(r)
          PROVE  call'[r].status = call[r].status
      BY <1>0, <3>4 DEF AppendFails, CheckpointWrite, CheckpointFails, Returned
    <3>5. call'[r].status = call[r].status
      BY <2>4, <3>2, <3>3, <3>4 DEF InAudit, AuditStep
    <3> QED
      BY <1>0, <2>1, <3>1, <3>5, EndKept
  <2>5. CASE Refuse(r) \/ Close(r) \/ JobEnds(r)
    <3>1. phase'[r] = "done"
      BY <1>0, <2>5 DEF Refuse, Close, JobEnds, Finish
    <3> QED
      BY <1>0, <2>1, <3>1, EndKept
  <2>6. CASE Restart
    <3>1. phase'[r] = "done" \/ (phase'[r] = phase[r] /\ call'[r] = call[r])
      BY <1>0, <2>6 DEF Restart, Handlers, Die
    <3> QED
      BY <1>0, <2>1, <3>1, EndKept
  <2>7. CASE Idle(r)
    BY <1>0, <2>1, <2>7, EndKept DEF Idle
  <2> QED
    BY <1>3, <2>2, <2>3, <2>4, <2>5, <2>6, <2>7, OneActorMoves
<1> QED
  BY <1>1, <1>2, <1>3

\* Without a fault every line is whole, so no audit call of a request fails,
\* and one that has written its record has added a line.
LEMMA AuditCallSucceeds ==
  ASSUME ConsoleInv, LinesAreWhole, NEW r \in Requests, EndOnRecord(r), EndLogged(r),
         InAudit(r), faults = 0, faults' = 0
  PROVE  EndLogged(r)'
<1>0. /\ AuditInv /\ [AuditNext]_auditVars /\ r \in Actors /\ Len(ledger) \in Nat
      /\ call \in [Actors -> CallState] /\ phase' = phase /\ AuditStep(r)
      /\ phase[r] \in {"new", "requesting", "running", "closing", "done"}
  BY ConsoleAssumption DEF ConsoleInv, AuditInv, AuditTypeOK, InAudit, AuditNext
<1>1. Verified /\ ~open
  BY <1>0 DEF AuditInv, LedgerChained, Verified, LinesAreWhole
<1>2. phase[r] # "done"
  BY <1>0 DEF AuditStep, AppendBegin, AppendWrite, AppendFails, CheckpointBegin,
     CheckpointWrite, CheckpointFails, ConsoleInv, CallsMatchPhases
<1>3. ~AppendFails(r) /\ ~CheckpointFails(r)
  BY DEF AppendFails, CheckpointFails
<1>4. CASE AppendBegin(r)
  BY <1>0, <1>1, <1>2, <1>4 DEF AppendBegin, Stepped, EndLogged
<1>5. CASE AppendWrite(r)
  <2>1. call'[r].at = "returned" => call'[r].ok
    BY <1>0, <1>5 DEF AppendWrite, Stepped, Returned
  <2>2. ASSUME phase[r] = "closing" PROVE Lines(r, Closing)' # {}
    <3>1. /\ Len(ledger') = Len(ledger) + 1
          /\ ledger'[Len(ledger) + 1] = NextLine(r, Len(ledger), TRUE)
      BY <1>0, <1>1, <1>5, LinesAfterWrite DEF AppendWrite
    <3>2. call[r].status \in Closing
      BY <2>2 DEF EndOnRecord
    <3>3. /\ ledger'[Len(ledger) + 1].by = r
          /\ ledger'[Len(ledger) + 1].status \in Closing
      BY <3>1, <3>2 DEF NextLine
    <3>4. Len(ledger) + 1 \in 1 .. Len(ledger')
      BY <1>0, <3>1
    <3> QED
      BY <3>3, <3>4 DEF Lines
  <2> QED
    BY <1>0, <1>2, <2>1, <2>2 DEF EndLogged
<1>6. CASE CheckpointBegin(r)
  <2>1. call'[r].at = "signing" /\ call[r].at = "checkpoint" /\ UNCHANGED ledger
    BY <1>0, <1>1, <1>6 DEF CheckpointBegin, Stepped
  <2>2. Lines(r, Closing)' = Lines(r, Closing)
    BY <2>1 DEF Lines
  <2> QED
    BY <1>0, <1>2, <2>1, <2>2 DEF EndLogged
<1>7. CASE CheckpointWrite(r)
  <2>1. /\ call'[r].at = "returned" /\ call'[r].ok
        /\ call[r].at = "signing" /\ UNCHANGED ledger
    BY <1>0, <1>7 DEF CheckpointWrite, Returned
  <2>2. Lines(r, Closing)' = Lines(r, Closing)
    BY <2>1 DEF Lines
  <2> QED
    BY <1>0, <1>2, <2>1, <2>2 DEF EndLogged
<1> QED
  BY <1>0, <1>3, <1>4, <1>5, <1>6, <1>7 DEF AuditStep

\* Without a fault a request ends with its end on record: no audit call fails,
\* so none is refused, and the others have logged how they ended.
LEMMA EndLoggedNext ==
  ASSUME ConsoleInv, LinesAreWhole, [Next]_vars, NEW r \in Requests,
         EndOnRecord(r), faults = 0 => EndLogged(r), faults' = 0
  PROVE  EndLogged(r)'
<1>0. /\ AuditInv /\ [AuditNext]_auditVars /\ r \in Actors
      /\ call \in [Actors -> CallState] /\ faults \in Nat
      /\ phase \in [Actors -> {"new", "requesting", "running", "closing", "done"}]
  BY StepSimulation, ConsoleAssumption, AuditAssumption DEF ConsoleInv, AuditInv, AuditTypeOK
<1>1. faults = 0
  <2>1. faults' = faults \/ faults' = faults + 1
    BY <1>0 DEF AuditNext, auditVars, Call, Leave, AuditStep, AppendBegin, AppendWrite, AppendFails,
       CheckpointBegin, CheckpointWrite, CheckpointFails, Die
  <2> QED
    BY <1>0, <2>1
<1>2. ~Restart
  BY <1>1 DEF Restart, Die
<1>3. CASE Idle(r)
  <2>1. Lines(r, Closing) # {} => Lines(r, Closing)' # {}
    BY <1>0, LinesGrow
  <2> QED
    BY <1>1, <1>3, <2>1 DEF Idle, EndLogged
<1>4. CASE InAudit(r)
  BY <1>1, <1>4, AuditCallSucceeds
<1>5. CASE Receive(r)
  <2>1. call'[r] = Calling("requested") /\ phase'[r] = "requesting"
    BY <1>0, <1>5 DEF Receive, Log
  <2> QED
    BY <2>1 DEF Calling, EndLogged
<1>6. CASE Refuse(r)
  BY <1>1, <1>6 DEF Refuse, Answered, MayProceed, EndLogged
<1>7. CASE Close(r) \/ JobEnds(r)
  <2>1. /\ phase[r] = "closing" /\ call[r].at = "returned" /\ UNCHANGED ledger
        /\ phase'[r] = "done" /\ call'[r] = NoCall
    BY <1>0, <1>7 DEF Close, JobEnds, Answered, Finish
  <2>2. Lines(r, Closing)' # {}
    BY <1>1, <2>1 DEF EndLogged, Lines
  <2> QED
    BY <2>1, <2>2 DEF NoCall, EndLogged
<1>8. CASE StartJob(r)
  <2>1. phase'[r] = "running" /\ call'[r] = NoCall
    BY <1>0, <1>8 DEF StartJob
  <2> QED
    BY <2>1 DEF NoCall, EndLogged
<1>9. CASE RejectJob(r) \/ OperationReturns(r)
  <2>1. phase'[r] = "closing" /\ \E s : call'[r] = Calling(s)
    BY <1>0, <1>9 DEF RejectJob, OperationReturns, Log
  <2> QED
    BY <2>1 DEF Calling, EndLogged
<1> QED
  BY <1>2, <1>3, <1>4, <1>5, <1>6, <1>7, <1>8, <1>9, OneActorMoves

\* Of the records of one request the newer are kept at least as long: the
\* ring buffer drops the end only after the request.
LEMMA NewerIsRecent ==
  ASSUME NEW i \in Recent, NEW j \in WebRecords, i < j, Len(ledger) \in Nat
  PROVE  j \in Recent
<1> DEFINE After(k) == {m \in WebRecords : m > k}
<1>1. After(j) \subseteq After(i) /\ After(i) \subseteq 1 .. Len(ledger)
  BY DEF WebRecords, Recent
<1>2. IsFiniteSet(After(i))
  <2>1. 1 \in Int /\ Len(ledger) \in Int
    OBVIOUS
  <2>2. IsFiniteSet(1 .. Len(ledger))
    BY <2>1, FS_Interval
  <2> HIDE DEF After
  <2> QED
    BY <1>1, <2>2, FS_Subset
<1>3. /\ Cardinality(After(j)) <= Cardinality(After(i))
      /\ Cardinality(After(i)) \in Nat /\ Cardinality(After(j)) \in Nat
  BY <1>1, <1>2, FS_Subset, FS_CardinalityType
<1>4. Cardinality(After(i)) < HistoryScan
  BY DEF Recent
<1> HIDE DEF After
<1>5. Cardinality(After(j)) < HistoryScan
  BY <1>3, <1>4, ConsoleAssumption
<1> QED
  BY <1>5 DEF Recent, After

\* What the history page says of a request follows from its records.
LEMMA HistoryOfRecords ==
  ASSUME AuditInv, NEW r \in Requests, EndOnRecord(r), faults = 0 => EndLogged(r)
  PROVE  /\ HistoryState(r) \in Closing => HistoryState(r) = result[r]
         /\ HistoryState(r) = "incomplete" /\ phase[r] = "done" => faults > 0
<1>0. Len(ledger) \in Nat /\ faults \in Nat
  BY AuditAssumption DEF AuditInv, AuditTypeOK
<1>1. "incomplete" \notin Closing /\ "absent" \notin Closing
  BY DEF Closing, Outcome
<1>2. ASSUME InRecent(r, Closing) PROVE HistoryState(r) \in Closing /\ HistoryState(r) = result[r]
  <2>1. \E s \in Closing : InRecent(r, {s})
    BY <1>2 DEF InRecent
  <2>2. HistoryState(r) \in Closing /\ InRecent(r, {HistoryState(r)})
    BY <1>2, <2>1 DEF HistoryState
  <2>3. PICK i \in Recent : ledger[i].by = r /\ ledger[i].status = HistoryState(r)
    BY <2>2 DEF InRecent
  <2>4. i \in Lines(r, Closing)
    BY <2>2, <2>3 DEF Recent, WebRecords, Lines
  <2> QED
    BY <2>2, <2>3, <2>4 DEF EndOnRecord
<1>3. ASSUME HistoryState(r) = "incomplete", phase[r] = "done" PROVE faults > 0
  <2>1. ~InRecent(r, Closing) /\ InRecent(r, {"requested"})
    BY <1>1, <1>2, <1>3 DEF HistoryState
  <2>2. PICK i \in Recent : ledger[i].by = r /\ ledger[i].status = "requested"
    BY <2>1 DEF InRecent
  <2>3. ASSUME faults = 0 PROVE FALSE
    <3>1. PICK j \in Lines(r, Closing) : TRUE
      BY <1>3, <2>3 DEF EndLogged
    <3>2. i < j
      BY <2>2, <3>1 DEF EndOnRecord, Lines, Recent, WebRecords
    <3>3. j \in WebRecords /\ ledger[j].by = r /\ ledger[j].status \in Closing
      BY DEF Lines, WebRecords
    <3>4. j \in Recent
      BY <1>0, <3>2, <3>3, NewerIsRecent
    <3> QED
      BY <2>1, <3>3, <3>4 DEF InRecent
  <2> QED
    BY <1>0, <2>3
<1>4. ASSUME ~InRecent(r, Closing) PROVE HistoryState(r) \notin Closing
  BY <1>1, <1>4 DEF HistoryState
<1> QED
  BY <1>2, <1>3, <1>4

\* The history page never shows another end than the operation had, whatever
\* was cut short, cancelled or restarted, and shows a request as incomplete
\* after its end only where a fault kept the end off the ledger; the ring
\* buffer of audit.Recent never separates an end from its request.
THEOREM HistoryStaysTrue == Spec => []HistoryIsTrue
<1> DEFINE I == ConsoleInv /\ JobInv /\ LinesAreWhole /\ HistoryInv
<1>1. Init => I
  <2> SUFFICES ASSUME Init PROVE I
    OBVIOUS
  <2>1. ledger = <<>> /\ open = FALSE
    BY DEF Init, AuditInit
  <2>2. LinesAreWhole
    BY <2>1 DEF LinesAreWhole
  <2>3. \A r \in Requests : \A S : Lines(r, S) = {}
    BY <2>1 DEF Lines
  <2>4. \A r \in Requests : phase[r] = "new" /\ call[r].at = "idle"
    BY ConsoleAssumption DEF Init, AuditInit, NoCall
  <2>5. HistoryInv
    BY <2>3, <2>4 DEF HistoryInv, EndOnRecord, EndLogged
  <2> QED
    BY <2>2, <2>5, ConsoleInvInit, JobInvInit
<1>2. I /\ [Next]_vars => I'
  <2> SUFFICES ASSUME ConsoleInv, JobInv, LinesAreWhole, HistoryInv, [Next]_vars PROVE I'
    OBVIOUS
  <2>1. ConsoleInv' /\ JobInv'
    BY ConsoleInvNext, JobInvNext
  <2>2. LinesAreWhole'
    BY StepSimulation, WholeNext DEF ConsoleInv
  <2>3. HistoryInv'
    BY EndNext, EndLoggedNext DEF HistoryInv
  <2> QED
    BY <2>1, <2>2, <2>3
<1>3. I => HistoryIsTrue
  BY HistoryOfRecords DEF ConsoleInv, HistoryInv, HistoryIsTrue
<1> HIDE DEF I
<1> QED
  BY <1>1, <1>2, <1>3, PTL DEF Spec
=============================================================================
