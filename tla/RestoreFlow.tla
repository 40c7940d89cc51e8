----------------------------- MODULE RestoreFlow -----------------------------
(***************************************************************************)
(* The two-person restore workflow on top of the job queue: a request is   *)
(* approved, reserved and enqueued by the commands "restore-request",      *)
(* "approve" and "restore-approved" (internal/app, and the same three      *)
(* handlers of internal/observability), its job is run by an executor that *)
(* clones the generation into the restore target, and its completion       *)
(* consumes the approval.                                                  *)
(*                                                                         *)
(* Every key of this instance of JobQueue is a restore-generation job: one *)
(* approval routed to one storage node, which is the key's affinity.  The  *)
(* queue's own Complete is replaced by CompleteRestore, the branch         *)
(* SQLStore.Complete takes for that kind.                                  *)
(***************************************************************************)
EXTENDS JobQueue

CONSTANTS
  Approvals,    \* ids of restore requests
  ApprovalOf,   \* the approval a key carries in its payload
  Requesters,   \* restore_approval.requesters
  Approvers,    \* restore_approval.approvers
  Nobody,       \* the empty requested_by / approved_by column
  Sessions,     \* concurrent "restore-approved" commands and handlers
  ApprovalTTL   \* restore_approval.approval_ttl, in ticks

ASSUME RestoreAssumption ==
  /\ ApprovalOf \in [Keys -> Approvals]
  /\ Nobody \notin Requesters \cup Approvers
  /\ ApprovalTTL \in Nat \ {0}

VARIABLES
  approval,  \* the restore_approvals table
  session,   \* how far each scheduling command has come
  target,    \* the directory a key restores into, on its node
  ran        \* what Runner.Run returned to each executor

restoreVars == <<approval, session, target, ran>>
allVars == <<jobs, created, exec, retries, approval, session, target, ran>>

People == Requesters \cup Approvers

ApprovalRow ==
  [status : {"none", "pending", "approved", "scheduled", "executed", "expired"},
   requestedBy : People \cup {Nobody},
   approvedBy  : People \cup {Nobody},
   left        : 0 .. ApprovalTTL]

NoApproval == [status |-> "none", requestedBy |-> Nobody, approvedBy |-> Nobody, left |-> 0]

\* "checked": GetRestoreApproval returned an approved request; "reserved":
\* ScheduleRestore has marked it; "releasing": Enqueue returned an error.
SessionState == [phase : {"idle", "checked", "reserved", "releasing"},
                 approval : Approvals]

Session(p, a) == [phase |-> p, approval |-> a]

RestoreTypeOK ==
  /\ TypeOK
  /\ approval \in [Approvals -> ApprovalRow]
  /\ session \in [Sessions -> SessionState]
  /\ target \in [Keys -> {"missing", "partial", "whole"}]
  /\ ran \in [Executors -> {"no", "ok", "error"}]

RestoreInit ==
  /\ Init
  /\ approval = [a \in Approvals |-> NoApproval]
  /\ session \in [Sessions -> {Session("idle", a) : a \in Approvals}]
  /\ target = [k \in Keys |-> "missing"]
  /\ ran = [e \in Executors |-> "no"]

WithStatus(a, s) == [approval EXCEPT ![a] =
  [status |-> s, requestedBy |-> approval[a].requestedBy,
   approvedBy |-> approval[a].approvedBy, left |-> approval[a].left]]

-----------------------------------------------------------------------------
(* Request and approval                                                    *)

CreateRestoreApproval(a, p) ==
  /\ approval[a].status = "none"
  /\ approval' = [approval EXCEPT ![a] =
       [status |-> "pending", requestedBy |-> p, approvedBy |-> Nobody,
        left |-> ApprovalTTL]]
  /\ UNCHANGED <<vars, session, target, ran>>

\* Mutant: the requester may approve the own request.
ApproveRestoreBySelf(a, p) ==
  /\ approval[a].status = "pending"
  /\ IF approval[a].left = 0
       THEN approval' = WithStatus(a, "expired")
       ELSE approval' = [approval EXCEPT ![a] =
              [status |-> "approved", requestedBy |-> approval[a].requestedBy,
               approvedBy |-> p, left |-> approval[a].left]]
  /\ UNCHANGED <<vars, session, target, ran>>

\* With require_distinct_approver, the documented setting.
ApproveRestore(a, p) ==
  /\ approval[a].status = "pending"
  /\ IF approval[a].left = 0
       THEN approval' = WithStatus(a, "expired")
       ELSE /\ p # approval[a].requestedBy
            /\ approval' = [approval EXCEPT ![a] =
                 [status |-> "approved", requestedBy |-> approval[a].requestedBy,
                  approvedBy |-> p, left |-> approval[a].left]]
  /\ UNCHANGED <<vars, session, target, ran>>

-----------------------------------------------------------------------------
(* restore-approved: check, reserve, enqueue, release on error             *)

CheckApproved(s, a) ==
  /\ session[s].phase = "idle"
  /\ approval[a].status = "approved"
  /\ session' = [session EXCEPT ![s] = Session("checked", a)]
  /\ UNCHANGED <<vars, approval, target, ran>>

ScheduleRestore(s) ==
  LET a == session[s].approval
      reserved == approval[a].status = "approved" /\ approval[a].left > 0
  IN  /\ session[s].phase = "checked"
      /\ approval' = IF reserved THEN WithStatus(a, "scheduled") ELSE approval
      /\ session' = [session EXCEPT ![s] =
                       Session(IF reserved THEN "reserved" ELSE "idle", a)]
      /\ UNCHANGED <<vars, target, ran>>

\* The route is chosen among the nodes with a readable copy, and the job is
\* inserted, or the active job of the same key is returned.
EnqueueRestore(s, k) ==
  /\ session[s].phase = "reserved"
  /\ session[s].approval = ApprovalOf[k]
  /\ Enqueue(k) \/ (HasActive(k) /\ UNCHANGED vars)
  /\ session' = [session EXCEPT ![s] = Session("idle", ApprovalOf[k])]
  /\ UNCHANGED <<approval, target, ran>>

\* Enqueue returns an error: before its INSERT, or after the database has
\* taken the row but the answer, and that of the second SELECT, are lost.
EnqueueFails(s, k) ==
  /\ session[s].phase = "reserved"
  /\ session[s].approval = ApprovalOf[k]
  /\ Enqueue(k) \/ UNCHANGED vars
  /\ session' = [session EXCEPT ![s] = Session("releasing", ApprovalOf[k])]
  /\ UNCHANGED <<approval, target, ran>>

\* Mutant: the UPDATE names the request by id alone.
ReleaseRestoreScheduleById(s) ==
  LET a == session[s].approval IN
  /\ session[s].phase = "releasing"
  /\ approval' = WithStatus(a, "approved")
  /\ session' = [session EXCEPT ![s] = Session("idle", a)]
  /\ UNCHANGED <<vars, target, ran>>

ReleaseRestoreSchedule(s) ==
  LET a == session[s].approval IN
  /\ session[s].phase = "releasing"
  /\ approval' = IF approval[a].status = "scheduled"
                   THEN WithStatus(a, "approved") ELSE approval
  /\ session' = [session EXCEPT ![s] = Session("idle", a)]
  /\ UNCHANGED <<vars, target, ran>>

\* The command dies, or its request context is cancelled: the statements that
\* follow, the release among them, do not run, and their error is dropped.
SessionEnds(s) ==
  /\ session[s].phase # "idle"
  /\ session' = [session EXCEPT ![s] = Session("idle", session[s].approval)]
  /\ UNCHANGED <<vars, approval, target, ran>>

-----------------------------------------------------------------------------
(* The job: generation.Restore and the result                              *)

\* Restore refuses an existing target; a clone that succeeds may be followed
\* by a failure of the LFS step, which leaves the target behind.
RunRestore(e) ==
  LET k == jobs[exec[e].job].key IN
  /\ exec[e].phase = "running"
  /\ ran[e] = "no"
  /\ \/ /\ target[k] = "missing"
        /\ target' = [target EXCEPT ![k] = "whole"]
        /\ ran' = [ran EXCEPT ![e] = "ok"]
     \/ /\ target[k] = "missing"
        /\ target' = [target EXCEPT ![k] = "partial"]
        /\ ran' = [ran EXCEPT ![e] = "error"]
     \/ /\ ran' = [ran EXCEPT ![e] = "error"]
        /\ UNCHANGED target
  /\ UNCHANGED <<vars, approval, session>>

\* Mutant: the approval is consumed before the lease is looked at, outside
\* the transaction that completes the job.
CompleteRestoreEagerly(e) ==
  LET i == exec[e].job
      a == ApprovalOf[jobs[i].key]
  IN  /\ ran[e] = "ok"
      /\ Complete(e)
      /\ approval' = IF approval[a].status = "scheduled"
                       THEN WithStatus(a, "executed") ELSE approval
      /\ ran' = [ran EXCEPT ![e] = "no"]
      /\ UNCHANGED <<session, target>>

\* One transaction consumes the approval and completes the job, or does
\* neither; the caller drops the error.
CompleteRestore(e) ==
  LET i == exec[e].job
      a == ApprovalOf[jobs[i].key]
  IN  /\ ran[e] = "ok"
      /\ IF LeasedBy(i, OwnerOf[e]) /\ approval[a].status = "scheduled"
           THEN Complete(e) /\ approval' = WithStatus(a, "executed")
           ELSE Crash(e) /\ UNCHANGED approval
      /\ ran' = [ran EXCEPT ![e] = "no"]
      /\ UNCHANGED <<session, target>>

FailRestore(e) ==
  /\ \/ ran[e] = "error" /\ FailRead(e)
     \/ FailWrite(e)
     \/ Crash(e)
  /\ ran' = [ran EXCEPT ![e] = "no"]
  /\ UNCHANGED <<approval, session, target>>

Poll(e) ==
  /\ Lease(e) \/ LeaseNothing(e)
  /\ UNCHANGED restoreVars

Retry(i) == RetryJob(i) /\ UNCHANGED restoreVars

RestoreTick ==
  /\ Tick
  /\ approval' = [a \in Approvals |->
       [status |-> approval[a].status, requestedBy |-> approval[a].requestedBy,
        approvedBy |-> approval[a].approvedBy, left |-> Dec(approval[a].left)]]
  /\ UNCHANGED <<session, target, ran>>

RestoreNext ==
  \/ \E a \in Approvals :
       \/ \E p \in Requesters : CreateRestoreApproval(a, p)
       \/ \E p \in Approvers : ApproveRestore(a, p)
       \/ \E s \in Sessions : CheckApproved(s, a)
  \/ \E s \in Sessions :
       \/ ScheduleRestore(s)
       \/ \E k \in Keys : EnqueueRestore(s, k) \/ EnqueueFails(s, k)
       \/ ReleaseRestoreSchedule(s)
       \/ SessionEnds(s)
  \/ \E e \in Executors :
       \/ Poll(e)
       \/ RunRestore(e)
       \/ CompleteRestore(e)
       \/ FailRestore(e)
  \/ \E i \in JobIds : Retry(i)
  \/ RestoreTick

RestoreSpec == RestoreInit /\ [][RestoreNext]_allVars

-----------------------------------------------------------------------------
(* Properties                                                              *)

\* Jobs that carry approval a and have status s.
JobsOf(a, s) == {i \in 1 .. created : ApprovalOf[jobs[i].key] = a /\ jobs[i].status \in s}

\* Nothing is written to any restore target, by any path of leases, retries
\* and repeated scheduling, before a second person has approved its request.
TwoPeopleBehindEveryRestore ==
  \A k \in Keys : target[k] # "missing" =>
    /\ approval[ApprovalOf[k]].approvedBy \in Approvers
    /\ approval[ApprovalOf[k]].approvedBy # approval[ApprovalOf[k]].requestedBy

\* An approval is consumed exactly when a job of it succeeds, at most once,
\* and that job left a whole target.
ConsumedBySuccess ==
  \A a \in Approvals :
    /\ approval[a].status = "executed" <=> JobsOf(a, {"succeeded"}) # {}
    /\ \A i, j \in JobsOf(a, {"succeeded"}) : i = j
    /\ \A i \in JobsOf(a, {"succeeded"}) : target[jobs[i].key] = "whole"

\* A consumed or expired approval is never usable again, whatever release or
\* scheduling command is still on its way.
ConsumedIsFinal ==
  [][\A a \in Approvals :
       approval[a].status \in {"executed", "expired"} =>
         approval'[a].status = approval[a].status]_allVars

\* "scheduled" means reserved for one restore job: when no command is at work
\* on the approval, the job is there.
ScheduledHasJob ==
  \A a \in Approvals :
    /\ approval[a].status = "scheduled"
    /\ \A s \in Sessions : session[s].phase = "idle"
    => JobsOf(a, {"queued", "running", "succeeded", "failed"}) # {}

-----------------------------------------------------------------------------
(* The inductive invariant behind these properties                         *)

\* The request has been approved, and may have been reserved or consumed since.
Granted(a) == approval[a].status \in {"approved", "scheduled", "executed"}

\* A granted request names its approver, and a command at work on a request,
\* a job that carries it and a target written for it mean it is granted.
GrantInv ==
  /\ \A a \in Approvals : Granted(a) =>
       /\ approval[a].approvedBy \in Approvers
       /\ approval[a].approvedBy # approval[a].requestedBy
  /\ \A s \in Sessions : session[s].phase # "idle" => Granted(session[s].approval)
  /\ \A i \in JobIds : jobs[i].status # "absent" => Granted(ApprovalOf[jobs[i].key])
  /\ \A k \in Keys : target[k] # "missing" => Granted(ApprovalOf[k])

\* A result belongs to a run under way, and a good one left a whole target.
RanInv ==
  \A e \in Executors :
    /\ ran[e] # "no" => exec[e].phase = "running"
    /\ ran[e] = "ok" => target[jobs[exec[e].job].key] = "whole"

Succeeded(i) == jobs[i].status = "succeeded"

ConsumedInv ==
  /\ \A i \in JobIds : Succeeded(i) =>
       /\ approval[ApprovalOf[jobs[i].key]].status = "executed"
       /\ target[jobs[i].key] = "whole"
  /\ \A i, j \in JobIds :
       Succeeded(i) /\ Succeeded(j) /\ ApprovalOf[jobs[i].key] = ApprovalOf[jobs[j].key] => i = j
  /\ \A a \in Approvals : approval[a].status = "executed" =>
       \E i \in JobIds : Succeeded(i) /\ ApprovalOf[jobs[i].key] = a

RestoreInv == QueueInv /\ RestoreTypeOK /\ GrantInv /\ RanInv /\ ConsumedInv

=============================================================================
