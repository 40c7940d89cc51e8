------------------------------ MODULE Console ------------------------------
(***************************************************************************)
(* The operations console (internal/observability: startJob, cancelJob,    *)
(* consoleJobManager, the event stream and the audit-backed history) and   *)
(* the commands of other processes that log their result to the same       *)
(* ledger (app.auditResult).  Every handler is a sequence of audit calls,  *)
(* taken step by step in Audit, and of steps on the job manager, which are *)
(* atomic under its mutex.                                                 *)
(*                                                                         *)
(* The job manager lives in memory: after a restart there is no job, and   *)
(* its revision counter starts at 0 again.  A browser keeps the revision   *)
(* of the last event it has received and presents it when it reconnects.   *)
(***************************************************************************)
EXTENDS Audit, Integers, FiniteSets

CONSTANTS
  Requests,     \* POST /console/jobs/{name} requests
  Cancels,      \* POST /console/job/cancel requests
  Commands,     \* commands of other processes
  Browsers,     \* browsers that follow the event stream
  IssuedBy,     \* the browser a request comes from, NoOne for other clients
  Disabled,     \* requests for operations the configuration disables
  Required,     \* audit.required
  HistoryScan,  \* consoleHistoryAuditScan: records that history looks at
  MaxRev        \* bound: the revision up to which an operation logs lines

ASSUME ConsoleAssumption ==
  /\ Actors = Requests \cup Cancels \cup Commands
  /\ Requests \cap Cancels = {}
  /\ Commands \cap (Requests \cup Cancels) = {}
  /\ NoOne \notin Browsers
  /\ IssuedBy \in [Requests -> Browsers \cup {NoOne}]
  /\ Disabled \subseteq Requests
  /\ Required \in BOOLEAN
  /\ HistoryScan \in Nat \ {0}
  /\ MaxRev \in Nat

VARIABLES
  phase,      \* where each actor is
  result,     \* how the operation of each request ended
  current,    \* the job manager's job and its state
  cancelled,  \* the context of that job is cancelled
  rev,        \* the job manager's revision counter (seq)
  replies,    \* accepted requests whose HTTP answer is on its way
  browser,    \* what each browser shows and what it received last
  restarts    \* restarts so far

vars == <<ledger, open, checkpoint, guard, call, faults,
          phase, result, current, cancelled, rev, replies, browser, restarts>>

Outcome == {"success", "error", "cancelled"}

JobView == [job : Requests \cup {NoOne}, state : Outcome \cup {"none", "running"}]

NoJob == [job |-> NoOne, state |-> "none"]

\* The revision a new page starts from, which no counter ever reaches.
Fresh == -1

\* "last" is the id of the last event, "event" its snapshot and "epoch" the
\* process it came from; "view" is what the page shows.
BrowserState == [connected : BOOLEAN,
                 last  : Nat \cup {Fresh},
                 epoch : Nat,
                 event : JobView,
                 view  : JobView]

ConsoleTypeOK ==
  /\ AuditTypeOK
  /\ phase \in [Actors -> {"new", "requesting", "running", "closing", "done"}]
  /\ result \in [Requests -> Outcome \cup {"none", "rejected"}]
  /\ current \in JobView
  /\ cancelled \in BOOLEAN
  /\ rev \in Nat
  /\ replies \subseteq Requests
  /\ browser \in [Browsers -> BrowserState]
  /\ restarts \in 0 .. MaxFaults

Init ==
  /\ AuditInit
  /\ phase = [a \in Actors |-> "new"]
  /\ result = [r \in Requests |-> "none"]
  /\ current = NoJob
  /\ cancelled = FALSE
  /\ rev = 0
  /\ replies = {}
  /\ browser = [b \in Browsers |-> [connected |-> FALSE, last |-> Fresh, epoch |-> 0,
                                    event |-> NoJob, view |-> NoJob]]
  /\ restarts = 0

-----------------------------------------------------------------------------
(* Handlers and their audit calls                                          *)

\* The handler goes on to log status s; nothing else of the ledger changes.
Log(a, s) ==
  /\ call' = [call EXCEPT ![a] = Calling(s)]
  /\ UNCHANGED <<ledger, open, checkpoint, guard, faults>>

\* The handler's audit call has returned, with or without an error.
Answered(a, at) == phase[a] = at /\ call[a].at = "returned"

\* Mutant: the handler releases the guard a second time on its way out.
FinishUnlocking(a) ==
  /\ phase' = [phase EXCEPT ![a] = "done"]
  /\ call' = [call EXCEPT ![a] = NoCall]
  /\ guard' = NoOne
  /\ UNCHANGED <<ledger, open, checkpoint, faults>>

Finish(a) ==
  /\ phase' = [phase EXCEPT ![a] = "done"]
  /\ call' = [call EXCEPT ![a] = NoCall]
  /\ UNCHANGED <<ledger, open, checkpoint, guard, faults>>

\* One step of the audit call an actor is in.
InAudit(a) ==
  /\ AuditStep(a)
  /\ UNCHANGED <<phase, result, current, cancelled, rev, replies, browser, restarts>>

\* A request passes the authorization checks and is logged before anything
\* else happens.
Receive(a) ==
  /\ a \in Requests \cup Cancels
  /\ phase[a] = "new"
  /\ phase' = [phase EXCEPT ![a] = "requesting"]
  /\ Log(a, "requested")
  /\ UNCHANGED <<result, current, cancelled, rev, replies, browser, restarts>>

\* Mutant: the error of the audit call is ignored.
MayProceedAnyway(a) == TRUE

\* With audit.required a request that could not be logged goes no further.
MayProceed(a) == call[a].ok \/ ~Required

Refuse(a) ==
  /\ Answered(a, "requesting")
  /\ ~MayProceed(a)
  /\ Finish(a)
  /\ UNCHANGED <<result, current, cancelled, rev, replies, browser, restarts>>

-----------------------------------------------------------------------------
(* startJob and the operation                                              *)

\* Mutant: only the same operation is not started twice.
OccupiedBySame(r) == current = [job |-> r, state |-> "running"]

Occupied(r) == current.state = "running"

StartJob(r) ==
  /\ Answered(r, "requesting")
  /\ MayProceed(r)
  /\ r \notin Disabled /\ ~Occupied(r)
  /\ phase' = [phase EXCEPT ![r] = "running"]
  /\ call' = [call EXCEPT ![r] = NoCall]
  /\ current' = [job |-> r, state |-> "running"]
  /\ cancelled' = FALSE
  /\ rev' = rev + 1
  /\ replies' = IF IssuedBy[r] \in Browsers THEN replies \cup {r} ELSE replies
  /\ UNCHANGED <<ledger, open, checkpoint, guard, faults, result, browser, restarts>>

\* The operation is disabled, or another one is running.
RejectJob(r) ==
  /\ Answered(r, "requesting")
  /\ MayProceed(r)
  /\ r \in Disabled \/ Occupied(r)
  /\ phase' = [phase EXCEPT ![r] = "closing"]
  /\ result' = [result EXCEPT ![r] = "rejected"]
  /\ Log(r, "rejected")
  /\ UNCHANGED <<current, cancelled, rev, replies, browser, restarts>>

\* A log line of the operation.
OperationLogs(r) ==
  /\ phase[r] = "running"
  /\ rev < MaxRev
  /\ rev' = rev + 1
  /\ UNCHANGED <<ledger, open, checkpoint, guard, call, faults, phase, result,
                 current, cancelled, replies, browser, restarts>>

\* The operation returns; a cancelled one may still end in its own way.
OperationReturns(r) ==
  /\ phase[r] = "running"
  /\ \E s \in IF cancelled THEN Outcome ELSE Outcome \ {"cancelled"} :
       /\ result' = [result EXCEPT ![r] = s]
       /\ Log(r, s)
  /\ phase' = [phase EXCEPT ![r] = "closing"]
  /\ UNCHANGED <<current, cancelled, rev, replies, browser, restarts>>

\* What the manager makes of the wrapped operation's error: a failed audit
\* call joins it, and cancellation is still found in the joined error.
FinalState(r) ==
  IF ~MayProceed(r) /\ result[r] # "cancelled" THEN "error" ELSE result[r]

\* Mutant: the state is set and nobody is told.
JobEndsSilently(r) ==
  /\ Answered(r, "closing")
  /\ result[r] \in Outcome
  /\ Finish(r)
  /\ current' = [current EXCEPT !.state = FinalState(r)]
  /\ UNCHANGED <<rev, result, cancelled, replies, browser, restarts>>

\* The terminal record has been written, or not; a warning is logged if not,
\* and the job gets its final state.
JobEnds(r) ==
  /\ Answered(r, "closing")
  /\ result[r] \in Outcome
  /\ Finish(r)
  /\ current' = [current EXCEPT !.state = FinalState(r)]
  /\ rev' = IF call[r].ok THEN rev + 1 ELSE rev + 2
  /\ UNCHANGED <<result, cancelled, replies, browser, restarts>>

\* Rejections, cancel requests and commands end with their last audit call.
Close(a) ==
  /\ Answered(a, "closing")
  /\ a \in Requests => result[a] = "rejected"
  /\ Finish(a)
  /\ UNCHANGED <<result, current, cancelled, rev, replies, browser, restarts>>

-----------------------------------------------------------------------------
(* cancelJob, commands of other processes, restart                         *)

CancelJob(c) ==
  /\ c \in Cancels
  /\ Answered(c, "requesting")
  /\ MayProceed(c)
  /\ phase' = [phase EXCEPT ![c] = "closing"]
  /\ IF current.state = "running"
       THEN cancelled' = TRUE /\ rev' = rev + 1 /\ Log(c, "accepted")
       ELSE UNCHANGED <<cancelled, rev>> /\ Log(c, "rejected")
  /\ UNCHANGED <<result, current, replies, browser, restarts>>

\* auditResult: a command has done its work and logs how it ended.
CommandReturns(p) ==
  /\ p \in Commands
  /\ phase[p] = "new"
  /\ phase' = [phase EXCEPT ![p] = "closing"]
  /\ \E s \in {"ok", "error"} : Log(p, s)
  /\ UNCHANGED <<result, current, cancelled, rev, replies, browser, restarts>>

Handlers == {a \in Requests \cup Cancels : phase[a] # "new"}

\* The console process dies and is started again.
Restart ==
  /\ Handlers # {}
  /\ Die(Handlers)
  /\ phase' = [a \in Actors |-> IF a \in Handlers THEN "done" ELSE phase[a]]
  /\ current' = NoJob
  /\ cancelled' = FALSE
  /\ rev' = 0
  /\ browser' = [b \in Browsers |-> [browser[b] EXCEPT !.connected = FALSE]]
  /\ restarts' = restarts + 1
  /\ UNCHANGED <<result, replies>>

-----------------------------------------------------------------------------
(* Browsers                                                                *)

OnlyBrowser(b, s) ==
  /\ browser' = [browser EXCEPT ![b] = s]
  /\ UNCHANGED <<ledger, open, checkpoint, guard, call, faults, phase, result,
                 current, cancelled, rev, restarts>>

\* A new page, or the reconnect of an EventSource, which presents its last
\* event id.
Connect(b) ==
  /\ ~browser[b].connected
  /\ OnlyBrowser(b, [browser[b] EXCEPT !.connected = TRUE])
  /\ UNCHANGED replies

\* The connection breaks; the page polls the job until it is back.
Disconnect(b) ==
  /\ browser[b].connected
  /\ OnlyBrowser(b, [browser[b] EXCEPT !.connected = FALSE])
  /\ UNCHANGED replies

Poll(b) ==
  /\ ~browser[b].connected
  /\ OnlyBrowser(b, [browser[b] EXCEPT !.view = current])
  /\ UNCHANGED replies

\* Observe finds another revision than the last one sent: the snapshot goes
\* out with its revision.
Observe(b) ==
  /\ browser[b].connected
  /\ browser[b].last # rev
  /\ OnlyBrowser(b, [browser[b] EXCEPT !.last = rev, !.epoch = restarts,
                                       !.event = current, !.view = current])
  /\ UNCHANGED replies

\* The answer to the POST arrives, with the job as it was when it started.
Reply(r) ==
  /\ r \in replies
  /\ replies' = replies \ {r}
  /\ OnlyBrowser(IssuedBy[r],
       [browser[IssuedBy[r]] EXCEPT !.view = [job |-> r, state |-> "running"]])

-----------------------------------------------------------------------------

Next ==
  \/ \E a \in Actors : InAudit(a) \/ Receive(a) \/ Refuse(a) \/ Close(a)
  \/ \E r \in Requests :
       \/ StartJob(r)
       \/ RejectJob(r)
       \/ OperationLogs(r)
       \/ OperationReturns(r)
       \/ JobEnds(r)
       \/ Reply(r)
  \/ \E c \in Cancels : CancelJob(c)
  \/ \E p \in Commands : CommandReturns(p)
  \/ \E b \in Browsers : Connect(b) \/ Disconnect(b) \/ Poll(b) \/ Observe(b)
  \/ Restart

Spec == Init /\ [][Next]_vars

\* Handlers go on when they can.  Nobody is obliged to send a request, an
\* operation need not return and browsers do as they like.
Fairness ==
  \A a \in Actors :
    /\ WF_vars(InAudit(a))
    /\ WF_vars(Refuse(a) \/ Close(a))
    /\ a \in Requests => WF_vars(StartJob(a) \/ RejectJob(a)) /\ WF_vars(JobEnds(a))
    /\ a \in Cancels => WF_vars(CancelJob(a))

FairSpec == Spec /\ Fairness

-----------------------------------------------------------------------------
(* The history page                                                        *)

WebRecords == {i \in 1 .. Len(ledger) : ledger[i].by \in Requests}

\* Mutant: the scan stops when it has enough, and keeps the oldest records.
RecentFromTheStart == {i \in WebRecords : Cardinality({j \in WebRecords : j < i}) < HistoryScan}

\* audit.Recent: a ring buffer that keeps a record of the web operations until
\* HistoryScan others have followed it.
Recent == {i \in WebRecords : Cardinality({j \in WebRecords : j > i}) < HistoryScan}

InRecent(r, S) == \E i \in Recent : ledger[i].by = r /\ ledger[i].status \in S

Closing == Outcome \cup {"rejected"}

\* consoleHistoryFromAudit: what the history shows for a request.
HistoryState(r) ==
  IF InRecent(r, Closing) THEN CHOOSE s \in Closing : InRecent(r, {s})
  ELSE IF InRecent(r, {"requested"}) THEN "incomplete"
  ELSE "absent"

-----------------------------------------------------------------------------
(* Properties                                                              *)

\* Only one operation runs at a time, and the manager knows it: no request,
\* rejection, cancellation or failed audit call starts a second one.
SingleFlight ==
  \A r, q \in Requests :
    /\ phase[r] = "running" => current = [job |-> r, state |-> "running"]
    /\ phase[r] = "running" /\ phase[q] = "running" => r = q

\* With audit.required, and the checkpoint that verifies the ledger after the
\* write, nothing runs without a readable record of its request: failed and
\* cut writes, also those of other processes before it, stop it.
RunsOnRecord ==
  Required /\ SignManifests =>
    \A r \in Requests : phase[r] = "running" =>
      \E i \in 1 .. Len(ledger) : /\ ledger[i].by = r
                                  /\ ledger[i].status = "requested"
                                  /\ ledger[i].whole

\* The history never shows another end than the operation had, and a request
\* that was answered without a fault is not shown as incomplete, also when
\* only a part of its records is among the ones looked at.
HistoryIsTrue ==
  Verified =>
    \A r \in Requests :
      /\ HistoryState(r) \in Closing => HistoryState(r) = result[r]
      /\ HistoryState(r) = "incomplete" /\ phase[r] = "done" => faults > 0

\* A stream waits for the next revision: Observe has no other answer for it.
Waits(b) == browser[b].connected /\ browser[b].last = rev

\* A stream that waits has sent the current state, unless the event that its
\* browser presented came from an earlier process whose counter had reached the
\* number the new one is at, after at least one change of the new one.
StaleOnlyAcrossRestart ==
  \A b \in Browsers :
    Waits(b) => browser[b].event = current \/ (browser[b].epoch < restarts /\ rev > 0)

\* What the comment on events promises, reconnects included: complete snapshots
\* make them harmless.  It fails in the case just named (ConsoleReconnect.cfg).
StreamIsCurrent == \A b \in Browsers : Waits(b) => browser[b].event = current

\* The browser converges to the current server state: with the stream waiting
\* and no answer on its way, nothing will correct what the page shows.
BrowserConverges ==
  \A b \in Browsers :
    Waits(b) /\ replies = {} => browser[b].view = current

\* No handler hangs in the audit package: a failed write, a ledger that does
\* not verify or a process that dies with the guard leaves the others to go on.
NoHandlerHangs ==
  \A a \in Actors :
    phase[a] \in {"requesting", "closing"} ~> phase[a] \in {"running", "done"}

-----------------------------------------------------------------------------
(* Why every step of a handler is one of the audit package's               *)

\* A handler that has not logged anything yet, or whose operation is running,
\* is outside of the audit package, and so is one that has ended.
CallsMatchPhases ==
  \A a \in Actors :
    phase[a] \in {"new", "running", "done"} => call[a].at = "idle"

ConsoleInv ==
  /\ AuditInv
  /\ phase \in [Actors -> {"new", "requesting", "running", "closing", "done"}]
  /\ CallsMatchPhases

\* The operation of a request is in the manager's hands from Start until its
\* terminal record is written: no other job takes its place before that.
InFlight(r) == phase[r] = "running" \/ (phase[r] = "closing" /\ result[r] \in Outcome)

JobIsCurrent ==
  \A r \in Requests : InFlight(r) => current = [job |-> r, state |-> "running"]

JobInv ==
  /\ phase \in [Actors -> {"new", "requesting", "running", "closing", "done"}]
  /\ result \in [Requests -> Outcome \cup {"none", "rejected"}]
  /\ JobIsCurrent

-----------------------------------------------------------------------------
(* Why nothing runs without a record                                       *)

\* The record of the request is on a whole line that no later write touches:
\* another line follows it, or its newline is there.
OnRecord(r) ==
  \E i \in 1 .. Len(ledger) : /\ ledger[i].by = r
                              /\ ledger[i].status = "requested"
                              /\ ledger[i].whole
                              /\ i < Len(ledger) \/ ~open

\* An append that was swallowed by an unended line leaves a ledger that does
\* not verify, now or later, so the checkpoint that follows finds out.
RequestLogged(r) ==
  /\ call[r].status = "requested"
  /\ call[r].at = "checkpoint" /\ Verified => OnRecord(r)
  /\ call[r].at = "signing" \/ (call[r].at = "returned" /\ call[r].ok) => OnRecord(r)

RecordInv ==
  SignManifests =>
    \A r \in Requests :
      /\ phase[r] = "requesting" => RequestLogged(r)
      /\ phase[r] = "running" /\ Required => OnRecord(r)

-----------------------------------------------------------------------------
(* Why the history is true                                                 *)

\* Where the records of a request with one of these statuses are.
Lines(r, S) == {i \in 1 .. Len(ledger) : ledger[i].by = r /\ ledger[i].status \in S}

\* A request logs its end once it has one, after its request and never another.
EndOnRecord(r) ==
  /\ phase[r] = "requesting" => call[r].status = "requested"
  /\ phase[r] = "closing" => result[r] \in Closing /\ call[r].status = result[r]
  /\ Lines(r, Closing) # {} => phase[r] \in {"closing", "done"}
  /\ \A i \in Lines(r, Closing) : ledger[i].status = result[r]
  /\ \A i \in Lines(r, {"requested"}) : \A j \in Lines(r, Closing) : i < j

\* Without a fault no audit call fails, and its record is in the ledger.
EndLogged(r) ==
  /\ call[r].at = "returned" => call[r].ok
  /\ phase[r] = "done" => Lines(r, Closing) # {}
  /\ phase[r] = "closing" /\ call[r].at \in {"checkpoint", "signing", "returned"}
       => Lines(r, Closing) # {}

HistoryInv ==
  \A r \in Requests : EndOnRecord(r) /\ (faults = 0 => EndLogged(r))

-----------------------------------------------------------------------------
(* When the stream is current                                              *)

\* Within a process the revision only grows, and with every change of the job:
\* the event of the newest revision has the job as it is.  Revision 0 is the
\* same in every process: no job yet.
StreamInv ==
  /\ current \in JobView
  /\ rev \in Nat
  /\ restarts \in Nat
  /\ browser \in [Browsers -> BrowserState]
  /\ rev = 0 => current = NoJob
  /\ \A b \in Browsers :
       /\ browser[b].epoch <= restarts
       /\ browser[b].last = 0 => browser[b].event = NoJob
       /\ browser[b].epoch = restarts =>
            /\ browser[b].last <= rev
            /\ browser[b].last = rev => browser[b].event = current

=============================================================================
