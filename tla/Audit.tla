------------------------------- MODULE Audit -------------------------------
(***************************************************************************)
(* The audit ledger and its signed checkpoint (internal/audit) as the      *)
(* processes of one installation use them: every caller appends a record   *)
(* (audit.Append) and then, when manifests are signed, has the head signed *)
(* (audit.WriteCheckpoint).  Each of the two takes the ledger guard, the   *)
(* process mutex and the advisory file lock, verifies the whole ledger and *)
(* writes; between the two the guard is free.                              *)
(*                                                                         *)
(* A line is one record.  "whole" says that the line parses as the record  *)
(* it was meant to be; "open" says that the file does not end in a         *)
(* newline, so that the next write continues its last line.  The hash of a *)
(* record stands for the record: no two have the same.                     *)
(***************************************************************************)
EXTENDS Naturals, Sequences

CONSTANTS
  Actors,         \* callers of the audit package: request handlers, commands
  NoOne,          \* nobody holds the guard
  SignManifests,  \* security.sign_manifests
  MaxFaults       \* bound: failed writes and dying processes

ASSUME AuditAssumption ==
  /\ NoOne \notin Actors
  /\ SignManifests \in BOOLEAN
  /\ MaxFaults \in Nat

VARIABLES
  ledger,      \* the lines of the ledger file
  open,        \* its last line is not ended
  checkpoint,  \* the signed (seq, hash), seq 0 when there is none yet
  guard,       \* who holds the ledger guard
  call,        \* what each actor is doing in the audit package
  faults       \* faults so far (bounded by MaxFaults)

auditVars == <<ledger, open, checkpoint, guard, call, faults>>

Status == {"none", "requested", "accepted", "rejected",
           "success", "ok", "error", "cancelled"}

NoHash == <<0, NoOne, "none">>

NoCheckpoint == [seq |-> 0, hash |-> NoHash]

Hash(r) == <<r.seq, r.by, r.status>>

HashAt(n) == IF n = 0 THEN NoHash ELSE Hash(ledger[n])

Hashes == Nat \X (Actors \cup {NoOne}) \X Status

LineType == [seq : Nat, by : Actors, status : Status, prev : Hashes, whole : BOOLEAN]

\* "head" is the last sequence number the scan under the guard has seen.
CallState == [at     : {"idle", "append", "writing", "checkpoint", "signing", "returned"},
              status : Status,
              ok     : BOOLEAN,
              head   : Nat]

NoCall == [at |-> "idle", status |-> "none", ok |-> FALSE, head |-> 0]

AuditTypeOK ==
  /\ ledger \in Seq(LineType)
  /\ open \in BOOLEAN
  /\ checkpoint \in [seq : Nat, hash : Hashes]
  /\ guard \in Actors \cup {NoOne}
  /\ call \in [Actors -> CallState]
  /\ faults \in 0 .. MaxFaults

AuditInit ==
  /\ ledger = <<>>
  /\ open = FALSE
  /\ checkpoint = NoCheckpoint
  /\ guard = NoOne
  /\ call = [a \in Actors |-> NoCall]
  /\ faults = 0

-----------------------------------------------------------------------------
(* The ledger file                                                         *)

\* scanVerifiedLocked: every line parses, sequence numbers count from 1 and
\* every record names the hash of the one before it.
Chained == \A i \in 1 .. Len(ledger) : /\ ledger[i].seq = i
                                       /\ ledger[i].prev = HashAt(i - 1)

Verified == Chained /\ \A i \in 1 .. Len(ledger) : ledger[i].whole

\* The record that follows record n, on a line of its own.
NextLine(a, n, whole) == [seq |-> n + 1, by |-> a, status |-> call[a].status,
                          prev |-> HashAt(n), whole |-> whole]

\* The file after that record was written at its end.  A last line without
\* its newline swallows the record, and neither parses any more.
WithLine(a, n, whole) ==
  IF open THEN [ledger EXCEPT ![Len(ledger)].whole = FALSE]
          ELSE Append(ledger, NextLine(a, n, whole))

\* What a write that ends early leaves: nothing of the record, a part of it,
\* the record without its newline, or all of it.
CutShort(a) ==
  \/ UNCHANGED <<ledger, open>>
  \/ \E whole \in BOOLEAN : ledger' = WithLine(a, call[a].head, whole) /\ open' = TRUE
  \/ ledger' = WithLine(a, call[a].head, TRUE) /\ open' = FALSE

\* What the replacement of the checkpoint leaves when it ends early: the old
\* one, or none, since a rename that fails is tried again after a removal.
NotReplaced == checkpoint' \in {checkpoint, NoCheckpoint}

-----------------------------------------------------------------------------
(* Append and WriteCheckpoint                                              *)

Calling(s) == [at |-> "append", status |-> s, ok |-> FALSE, head |-> 0]

Returned(a, ok) == [at |-> "returned", status |-> call[a].status, ok |-> ok, head |-> 0]

Stepped(a, at, n) == [at |-> at, status |-> call[a].status, ok |-> FALSE, head |-> n]

\* Mutant: the head is read before the guard is taken.
AppendBeginUnguarded(a) ==
  /\ call[a].at = "append"
  /\ guard' = a
  /\ call' = [call EXCEPT ![a] = Stepped(a, "writing", Len(ledger))]
  /\ UNCHANGED <<ledger, open, checkpoint, faults>>

\* The guard is taken and the ledger is read; one that does not verify is not
\* extended.
AppendBegin(a) ==
  /\ call[a].at = "append"
  /\ guard = NoOne
  /\ guard' = IF Verified THEN a ELSE NoOne
  /\ call' = [call EXCEPT ![a] = IF Verified THEN Stepped(a, "writing", Len(ledger))
                                             ELSE Returned(a, FALSE)]
  /\ UNCHANGED <<ledger, open, checkpoint, faults>>

\* The record and its newline are written and synced, the guard is released.
AppendWrite(a) ==
  /\ call[a].at = "writing"
  /\ ledger' = WithLine(a, call[a].head, TRUE)
  /\ open' = FALSE
  /\ guard' = NoOne
  /\ call' = [call EXCEPT ![a] = IF SignManifests THEN Stepped(a, "checkpoint", 0)
                                                  ELSE Returned(a, TRUE)]
  /\ UNCHANGED <<checkpoint, faults>>

\* Mutant: the error path keeps the guard.
AppendFailsLocked(a) ==
  /\ call[a].at = "writing"
  /\ faults < MaxFaults
  /\ faults' = faults + 1
  /\ call' = [call EXCEPT ![a] = Returned(a, FALSE)]
  /\ UNCHANGED <<ledger, open, checkpoint, guard>>

\* The write or the sync fails.
AppendFails(a) ==
  /\ call[a].at = "writing"
  /\ faults < MaxFaults
  /\ faults' = faults + 1
  /\ CutShort(a)
  /\ guard' = NoOne
  /\ call' = [call EXCEPT ![a] = Returned(a, FALSE)]
  /\ UNCHANGED checkpoint

\* Mutant: the head is read before the guard is taken.
CheckpointBeginUnguarded(a) ==
  /\ call[a].at = "checkpoint"
  /\ call' = [call EXCEPT ![a] = Stepped(a, "signing", Len(ledger))]
  /\ UNCHANGED <<ledger, open, checkpoint, guard, faults>>

CheckpointBegin(a) ==
  /\ call[a].at = "checkpoint"
  /\ guard = NoOne
  /\ guard' = IF Verified THEN a ELSE NoOne
  /\ call' = [call EXCEPT ![a] = IF Verified THEN Stepped(a, "signing", Len(ledger))
                                             ELSE Returned(a, FALSE)]
  /\ UNCHANGED <<ledger, open, checkpoint, faults>>

\* Mutant: the caller signs the record it has appended itself, as it is known
\* before the guard is taken, and not the head.
CheckpointWriteOwn(a) ==
  /\ call[a].at = "signing"
  /\ \E i \in 1 .. Len(ledger) :
       /\ ledger[i].by = a /\ ledger[i].status = call[a].status
       /\ checkpoint' = [seq |-> i, hash |-> HashAt(i)]
  /\ guard' = NoOne
  /\ call' = [call EXCEPT ![a] = Returned(a, TRUE)]
  /\ UNCHANGED <<ledger, open, faults>>

\* The checkpoint of the head that was read replaces the old one atomically.
CheckpointWrite(a) ==
  /\ call[a].at = "signing"
  /\ checkpoint' = [seq |-> call[a].head, hash |-> HashAt(call[a].head)]
  /\ guard' = NoOne
  /\ call' = [call EXCEPT ![a] = Returned(a, TRUE)]
  /\ UNCHANGED <<ledger, open, faults>>

\* The key or one of the files cannot be written.
CheckpointFails(a) ==
  /\ call[a].at = "signing"
  /\ faults < MaxFaults
  /\ faults' = faults + 1
  /\ NotReplaced
  /\ guard' = NoOne
  /\ call' = [call EXCEPT ![a] = Returned(a, FALSE)]
  /\ UNCHANGED <<ledger, open>>

\* The holder of the guard is among the actors in A, at step "at".
DiesAt(A, at) == guard \in A /\ call[guard].at = at

\* A process dies with the actors in A, perhaps in the middle of a write; the
\* operating system drops its lock.
Die(A) ==
  /\ faults < MaxFaults
  /\ faults' = faults + 1
  /\ IF DiesAt(A, "writing") THEN CutShort(guard) ELSE UNCHANGED <<ledger, open>>
  /\ IF DiesAt(A, "signing") THEN NotReplaced ELSE UNCHANGED checkpoint
  /\ guard' = IF guard \in A THEN NoOne ELSE guard
  /\ call' = [a \in Actors |-> IF a \in A THEN NoCall ELSE call[a]]

AuditStep(a) ==
  \/ AppendBegin(a)
  \/ AppendWrite(a)
  \/ AppendFails(a)
  \/ CheckpointBegin(a)
  \/ CheckpointWrite(a)
  \/ CheckpointFails(a)

\* Callers as such: any actor may log any status, again and again.
Call(a) ==
  /\ call[a].at \in {"idle", "returned"}
  /\ \E s \in Status \ {"none"} : call' = [call EXCEPT ![a] = Calling(s)]
  /\ UNCHANGED <<ledger, open, checkpoint, guard, faults>>

Leave(a) ==
  /\ call[a].at = "returned"
  /\ call' = [call EXCEPT ![a] = NoCall]
  /\ UNCHANGED <<ledger, open, checkpoint, guard, faults>>

AuditNext ==
  \/ \E a \in Actors : Call(a) \/ AuditStep(a) \/ Leave(a)
  \/ \E A \in SUBSET Actors : Die(A)

\* What every user of the package must keep to: a handler, a job or a command
\* of any process only ever extends a verified ledger under the guard, signs
\* the head it has read under the guard and leaves both alone otherwise.
AuditSpec == AuditInit /\ [][AuditNext]_auditVars

-----------------------------------------------------------------------------
(* Properties                                                              *)

\* Concurrent writers of several processes never fork the chain: sequence
\* numbers and prev_hash fit, whatever writes failed or were cut short.
LedgerChained == Chained

\* The signed checkpoint never goes back to an older head, also when callers
\* append and sign in different orders, and only names records that exist; a
\* fault may lose it, but never brings an older one back.
CheckpointAdvances ==
  [][\/ checkpoint'.seq \in checkpoint.seq .. Len(ledger')
     \/ checkpoint' = NoCheckpoint /\ faults' > faults]_auditVars

\* Between an append and the signature that follows it the checkpoint is
\* behind the head, and `audit verify` reports it as invalid; once every
\* caller has returned, without a fault, it is the head again.
SettledCheckpointIsHead ==
  SignManifests /\ faults = 0
    /\ (\A a \in Actors : call[a].at \notin {"checkpoint", "signing"}) =>
      checkpoint = [seq |-> Len(ledger), hash |-> HashAt(Len(ledger))]

-----------------------------------------------------------------------------
(* The inductive invariant behind these properties                         *)

\* The guard is held by the actor between its scan and its write, by nobody
\* else ...
GuardIsHeld ==
  \A a \in Actors : call[a].at \in {"writing", "signing"} <=> guard = a

\* ... so that what it has read is still the head, of a verified ledger.
HeadIsRead ==
  \A a \in Actors :
    call[a].at \in {"writing", "signing"} => call[a].head = Len(ledger)

\* Only faults leave a line that does not parse, or no newline at the end.
LinesAreWhole ==
  faults = 0 => ~open /\ \A i \in 1 .. Len(ledger) : ledger[i].whole

\* An unended line exists.
OpenHasLine == open => Len(ledger) > 0

CheckpointExists == checkpoint.seq \in 0 .. Len(ledger)

AuditInv ==
  /\ AuditTypeOK
  /\ GuardIsHeld
  /\ HeadIsRead
  /\ OpenHasLine
  /\ LedgerChained
  /\ CheckpointExists

SettledInv == LinesAreWhole /\ SettledCheckpointIsHead

=============================================================================
