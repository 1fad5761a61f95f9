---------------------------- MODULE BackgroundJobs ----------------------------
(***************************************************************************)
(* internal/jobs with the sub-agent scheduler: background tasks that the   *)
(* foreground turn starts, that queue for a slot inside their own          *)
(* goroutine and change the workspace, and what the manager tells of them: *)
(* their status, one completion note each, and the evidence of what they   *)
(* changed.  A turn leases that evidence into its ledger and the manager   *)
(* forgets it only when the turn is delivered.  A job record lives in the  *)
(* session's artifact directory and is read back after a restart.          *)
(*                                                                         *)
(* A job is one goroutine and one acquirer of the scheduler; the remaining *)
(* acquirers are sub-agents run synchronously, by the turn or inside a job.*)
(* Left out: bash jobs, which take no slot and carry no evidence, fleets   *)
(* in the background, output buffers and log files, the stall monitor, the *)
(* migration of artifacts and the cap of ReserveStartForSession.           *)
(***************************************************************************)
EXTENDS SubagentScheduler

CONSTANTS
  Jobs,          \* background tasks ever started; they are acquirers
  Sessions,      \* parent sessions
  MaxRestarts    \* bound: times the process dies

ASSUME JobsAssumption == Jobs \subseteq Acquirers /\ Sessions # {} /\ MaxRestarts \in Nat

Subagents == Acquirers \ Jobs

VARIABLES
  table,       \* jobs the manager knows
  gor,         \* job -> where its goroutine is; "closed": done is closed
  status,      \* job -> Job.status
  outcome,     \* job -> the status the goroutine settled on
  meta,        \* job -> its record on disk
  evidence,    \* jobs whose Job.evidence holds mutation receipts
  committed,   \* jobs with evidenceCommitted
  notes,       \* jobs whose completion note waits to be drained
  session,     \* job -> the session that owns it
  active,      \* the session of the controller
  open,        \* session -> "open", "destroying" or "gone"
  closed,      \* the manager's root context is cancelled
  turn,        \* a foreground turn runs
  leases,      \* jobs the ledger of the turn has noted
  merged,      \* jobs whose receipts are in that ledger
  restarts     \* counts restarts for the bound

VARIABLES wrote, reviewed, told
\* History: jobs that changed the workspace; jobs whose receipts a delivered
\* turn had in its ledger; jobs whose note was queued.

records == <<table, status, outcome, meta, session>>
receipts == <<evidence, committed, wrote, reviewed>>
ledger == <<turn, leases, merged>>
notices == <<notes, told>>
manager == <<active, open, closed, restarts>>
vars == <<schedulerVars, records, gor, receipts, ledger, notices, manager>>
jobVars == <<records, gor, receipts, ledger, notices, manager>>

NoRecord == [status |-> "none", evidence |-> FALSE]
Terminal == {"Done", "Failed", "Killed", "Interrupted"}

Init ==
  /\ SchedulerInit
  /\ table = {} /\ gor = [j \in Jobs |-> "none"]
  /\ status = [j \in Jobs |-> "none"] /\ outcome = [j \in Jobs |-> "none"]
  /\ meta = [j \in Jobs |-> NoRecord]
  /\ evidence = {} /\ committed = {} /\ wrote = {} /\ reviewed = {}
  /\ notes = {} /\ told = {}
  /\ active \in Sessions /\ session = [j \in Jobs |-> active]
  /\ open = [s \in Sessions |-> "open"]
  /\ closed = FALSE /\ restarts = 0
  /\ turn = FALSE /\ leases = {} /\ merged = {}

Goto(j, label) == gor' = [gor EXCEPT ![j] = label]
Mine == {j \in table : session[j] = active}

-----------------------------------------------------------------------------
(* The goroutine of a job *)

\* StartForSession, called by a tool of the foreground turn: the job is in the
\* table and its record on disk before the goroutine runs.
StartForSession(j) ==
  /\ turn /\ gor[j] = "none"
  /\ table' = table \cup {j} /\ session' = [session EXCEPT ![j] = active]
  /\ status' = [status EXCEPT ![j] = "Running"]
  /\ meta' = [meta EXCEPT ![j] = [status |-> "Running", evidence |-> FALSE]]
  /\ Goto(j, "running")
  /\ UNCHANGED <<schedulerVars, outcome, receipts, ledger, notices, manager>>

\* The run waits for its slot, ...
AcquireSlot(j, r) ==
  /\ gor[j] = "running" /\ Acquire(j, r, None)
  /\ UNCHANGED jobVars

\* ... changes the workspace while it has it ...
Work(j) ==
  /\ gor[j] = "running" /\ pc[j] = "holding" /\ req[j].writer
  /\ wrote' = wrote \cup {j}
  /\ UNCHANGED <<schedulerVars, records, gor, evidence, committed, reviewed, ledger, notices,
                 manager>>

\* ... and returns: the slot goes back first, then PublishEvidence.
PublishEvidence(j) ==
  /\ gor[j] = "running" /\ pc[j] = "done"
  /\ evidence' = evidence \cup ({j} \cap wrote)
  /\ Goto(j, "returned")
  /\ UNCHANGED <<schedulerVars, records, committed, wrote, reviewed, ledger, notices, manager>>

\* The outcome and the record on disk, whose rewrite may fail.
Settle(j) ==
  /\ gor[j] = "returned" /\ Goto(j, "settled")
  /\ \E st \in IF j \in ended THEN {"Killed"} ELSE {"Done", "Failed"} :
       /\ outcome' = [outcome EXCEPT ![j] = st]
       /\ \/ meta' = [meta EXCEPT ![j] = [status |-> st, evidence |-> j \in evidence]]
          \/ UNCHANGED meta
  /\ UNCHANGED <<schedulerVars, table, status, session, receipts, ledger, notices, manager>>

Queue(j) ==
  IF open[session[j]] = "destroying" THEN UNCHANGED notices
  ELSE notes' = notes \cup {j} /\ told' = told \cup {j}

\* Wrong on purpose: the status is published before the note is queued.
RecordAfterStatus(j) ==
  \/ /\ gor[j] = "settled" /\ Goto(j, "recorded")
     /\ status' = [status EXCEPT ![j] = IF @ = "Killed" THEN @ ELSE outcome[j]]
     /\ UNCHANGED <<schedulerVars, table, outcome, meta, session, receipts, ledger, notices,
                    manager>>
  \/ /\ gor[j] = "recorded" /\ Goto(j, "published") /\ Queue(j)
     /\ UNCHANGED <<schedulerVars, records, receipts, ledger, manager>>

\* recordCompletion; a session being destroyed wants no notes.
RecordCompletion(j) ==
  /\ gor[j] = "settled" /\ Goto(j, "recorded") /\ Queue(j)
  /\ UNCHANGED <<schedulerVars, records, receipts, ledger, manager>>

\* The terminal status, unless a kill has published its own.
PublishStatus(j) ==
  /\ gor[j] = "recorded" /\ Goto(j, "published")
  /\ status' = [status EXCEPT ![j] = IF @ = "Killed" THEN @ ELSE outcome[j]]
  /\ UNCHANGED <<schedulerVars, table, outcome, meta, session, receipts, ledger, notices, manager>>

\* done is closed and the goroutine ends; its own copy of the outcome goes.
CloseDone(j) ==
  /\ gor[j] = "published" /\ Goto(j, "closed")
  /\ outcome' = [outcome EXCEPT ![j] = "none"]
  /\ UNCHANGED <<schedulerVars, table, status, meta, session, receipts, ledger, notices, manager>>

\* KillForSession: the status is Killed at once, the goroutine takes its time.
Kill(j) ==
  /\ j \in table /\ status[j] = "Running"
  /\ status' = [status EXCEPT ![j] = "Killed"]
  /\ EndContext(j)
  /\ UNCHANGED <<table, outcome, meta, session, gor, receipts, ledger, notices, manager>>

-----------------------------------------------------------------------------
(* The foreground turn *)

\* PendingEvidenceJobIDsForSession
Pending == {j \in Mine : gor[j] = "closed" /\ j \in evidence \ committed}

\* The notes of the session are folded into the prompt, and what earlier turns
\* leased and never delivered is leased again.
StartTurn ==
  /\ ~turn /\ ~closed /\ turn' = TRUE
  /\ leases' = Pending /\ merged' = Pending
  /\ notes' = {j \in notes : session[j] # active}
  /\ UNCHANGED <<schedulerVars, records, gor, receipts, told, manager>>

\* wait and bash_output: collectBackgroundEvidence, once the job has exited.
Collect(j) ==
  /\ turn /\ j \in Mine \ leases /\ status[j] # "Running" /\ gor[j] = "closed"
  /\ leases' = leases \cup {j}
  /\ merged' = merged \cup ({j} \cap (evidence \ committed))
  /\ UNCHANGED <<schedulerVars, records, gor, receipts, turn, notices, manager>>

\* A turn ends when its sub-agents and its write calls have returned.
Idle(label) == label \in {"idle", "done"}
TurnIsQuiet ==
  /\ \A a \in Subagents : under[a] \notin Jobs => Idle(pc[a])
  /\ \A w \in Writes : Idle(wpc[w])

EndTurn == turn /\ TurnIsQuiet /\ turn' = FALSE /\ leases' = {} /\ merged' = {}

\* The turn delivers: CommitEvidenceForSession for every lease of a job that has
\* exited, in memory for good and on disk if the rewrite succeeds.
Deliver ==
  LET Committed == {j \in leases \cap Mine : gor[j] = "closed" /\ j \notin committed}
  IN /\ EndTurn
     /\ reviewed' = reviewed \cup merged
     /\ committed' = committed \cup Committed
     /\ evidence' = evidence \ Committed
     /\ \E rewritten \in SUBSET (Committed \cap evidence) :
          meta' = [j \in Jobs |-> IF j \in rewritten
                                  THEN [status |-> status[j], evidence |-> FALSE] ELSE meta[j]]
     /\ UNCHANGED <<schedulerVars, table, status, outcome, session, gor, wrote, notices, manager>>

\* Wrong on purpose: a failed turn commits what it leased.
FailTurnCommitting ==
  /\ EndTurn
  /\ committed' = committed \cup leases /\ evidence' = evidence \ leases
  /\ UNCHANGED <<schedulerVars, records, gor, wrote, reviewed, notices, manager>>

\* The turn fails or is cancelled; its ledger goes with it.
FailTurn == EndTurn /\ UNCHANGED <<schedulerVars, records, gor, receipts, notices, manager>>

-----------------------------------------------------------------------------
(* Sessions, close and restart *)

\* Whoever owns the turn gate may go to another session.
SwitchSession(s) ==
  /\ ~turn /\ ~closed /\ open[s] = "open" /\ s # active
  /\ active' = s
  /\ UNCHANGED <<schedulerVars, records, gor, receipts, ledger, notices, open, closed, restarts>>

Running(js) == {j \in js : status[j] = "Running"}
Killing(js) ==
  /\ status' = [j \in Jobs |-> IF j \in Running(js) THEN "Killed" ELSE status[j]]
  /\ ended' = ended \cup Running(js)
  /\ UNCHANGED <<counts, parentClaims, waiters, mu, scan, ready, pc, req, under, writeCalls>>

\* BeginDestroySession: no more notes, the jobs are cancelled; the controller
\* goes on with another session.
BeginDestroySession(s) ==
  /\ ~turn /\ ~closed /\ s # active /\ open[s] = "open"
  /\ open' = [open EXCEPT ![active] = "destroying"] /\ active' = s
  /\ notes' = {j \in notes : session[j] # active}
  /\ Killing(Mine)
  /\ UNCHANGED <<table, outcome, meta, session, gor, receipts, ledger, told, closed, restarts>>

Of(s) == {j \in table : session[j] = s}

\* Wrong on purpose: the session is purged although its jobs still unwind.
FinishDestroyEarly(s) ==
  /\ open[s] = "destroying" /\ open' = [open EXCEPT ![s] = "gone"]
  /\ table' = table \ Of(s)
  /\ UNCHANGED <<schedulerVars, status, outcome, meta, session, gor, receipts, ledger, notices,
                 active, closed, restarts>>

\* FinishDestroySession, after WaitTeardown or WaitAll: the killed jobs have
\* exited; the table forgets the session and its artifacts are gone.
FinishDestroySession(s) ==
  /\ open[s] = "destroying" /\ open' = [open EXCEPT ![s] = "gone"]
  /\ \A j \in Of(s) : status[j] = "Killed" => gor[j] = "closed"
  /\ table' = table \ Of(s)
  /\ UNCHANGED <<schedulerVars, status, outcome, meta, session, gor, receipts, ledger, notices,
                 active, closed, restarts>>

\* Close: every job is cancelled; those that are not told so by their status
\* (CloseAsync) settle as killed all the same.
Close ==
  /\ ~turn /\ ~closed /\ closed' = TRUE
  /\ ended' = ended \cup {j \in Jobs : gor[j] # "none"}
  /\ \E told_ \in {Running(table), {}} :
       status' = [j \in Jobs |-> IF j \in told_ THEN "Killed" ELSE status[j]]
  /\ UNCHANGED <<counts, parentClaims, waiters, mu, scan, ready, pc, req, under, writeCalls,
                 table, outcome, meta, session, gor, receipts, ledger, notices, active, open,
                 restarts>>

\* The process dies and starts again.  Calls and goroutines are gone; a record
\* still Running becomes Interrupted, on disk too.  A session whose removal was
\* under way may still be there.
Restart ==
  \E left \in SUBSET {s \in Sessions : open[s] = "destroying"} :
  LET Left == {s \in Sessions : open[s] = "open"} \cup left
      Known == {j \in Jobs : meta[j].status # "none" /\ session[j] \in Left}
  IN /\ restarts < MaxRestarts /\ restarts' = restarts + 1
     /\ activeTotal' = 0 /\ activeWriters' = 0
     /\ activeClaims' = NoClaims /\ parentClaims' = NoClaims
     /\ waiters' = <<>> /\ mu' = None /\ scan' = 1 /\ ready' = {}
     /\ pc' = [a \in Acquirers |-> IF pc[a] = "idle" /\ (a \in Jobs => gor[a] = "none")
                                   THEN "idle" ELSE "done"]
     /\ wpc' = [w \in Writes |-> IF wpc[w] = "idle" THEN "idle" ELSE "done"]
     /\ table' = Known
     /\ gor' = [j \in Jobs |-> IF gor[j] = "none" THEN "none" ELSE "closed"]
     /\ meta' = [j \in Jobs |-> IF meta[j].status = "Running"
                                THEN [meta[j] EXCEPT !.status = "Interrupted"] ELSE meta[j]]
     /\ status' = [j \in Jobs |-> meta'[j].status]
     /\ evidence' = {j \in Known : meta[j].evidence} /\ committed' = {}
     /\ notes' = {} /\ turn' = FALSE /\ leases' = {} /\ merged' = {}
     /\ open' = [s \in Sessions |-> IF s \in Left THEN "open" ELSE "gone"]
     /\ closed' = FALSE
     /\ req' = [a \in Acquirers |-> NoRequest] /\ under' = [a \in Acquirers |-> None]
     /\ claim' = [w \in Writes |-> {}] /\ ended' = {}
     /\ outcome' = [j \in Jobs |-> "none"]
     /\ UNCHANGED <<session, wrote, reviewed, told, active>>

-----------------------------------------------------------------------------
Goroutine(j) ==
  \/ \E r \in Requests : AcquireSlot(j, r)
  \/ PublishEvidence(j) \/ Settle(j) \/ RecordCompletion(j) \/ PublishStatus(j) \/ CloseDone(j)

\* Sub-agents run synchronously, under the turn or inside a job's run; a batch of
\* read-only calls and a fleet run several at a time, write calls run alone.
Delegate(a, r, h) ==
  /\ h = None => turn /\ \A w \in Writes : Idle(wpc[w])
  /\ Acquire(a, r, h)
  /\ UNCHANGED jobVars

\* The write calls of the turn.
Write(w, paths) ==
  /\ turn /\ TurnIsQuiet
  /\ ReserveParentWrite(w, paths)
  /\ UNCHANGED jobVars

Turn == StartTurn \/ (\E j \in Jobs : StartForSession(j) \/ Collect(j)) \/ Deliver \/ FailTurn

Next ==
  \/ \E j \in Jobs : Goroutine(j) \/ Work(j) \/ Kill(j)
  \/ \E a \in Acquirers : Proceed(a) /\ UNCHANGED jobVars
  \/ \E a \in Subagents, r \in Requests, h \in Holders \cup {None} : Delegate(a, r, h)
  \/ \E a \in Subagents : pc[a] = "queued" /\ EndContext(a) /\ UNCHANGED jobVars
  \/ \E w \in Writes, paths \in SUBSET Paths : Write(w, paths)
  \/ \E w \in Writes : ReleaseParentWrite(w) /\ UNCHANGED jobVars
  \/ (Pump \/ Pumped) /\ UNCHANGED jobVars
  \/ Turn
  \/ \E s \in Sessions : SwitchSession(s) \/ BeginDestroySession(s) \/ FinishDestroySession(s)
  \/ Close \/ Restart

\* Goroutines are scheduled, runs and write calls return, scans end.
Fairness ==
  /\ \A j \in Jobs : WF_vars(Goroutine(j))
  /\ \A a \in Acquirers : WF_vars(Proceed(a) /\ UNCHANGED jobVars)
  /\ \A w \in Writes : WF_vars(ReleaseParentWrite(w) /\ UNCHANGED jobVars)
  /\ WF_vars((Pump \/ Pumped) /\ UNCHANGED jobVars)

Spec == Init /\ [][Next]_vars /\ Fairness

-----------------------------------------------------------------------------
(* Properties *)

\* Every variable has its type.
TypeOK ==
  /\ SchedulerTypeOK
  /\ table \subseteq Jobs /\ evidence \subseteq Jobs /\ committed \subseteq Jobs
  /\ gor \in [Jobs -> {"none", "running", "returned", "settled", "recorded", "published",
                       "closed"}]
  /\ status \in [Jobs -> Terminal \cup {"none", "Running"}]
  /\ outcome \in [Jobs -> {"none", "Done", "Failed", "Killed"}]
  /\ meta \in [Jobs -> [status : Terminal \cup {"none", "Running"}, evidence : BOOLEAN]]
  /\ notes \subseteq Jobs /\ told \subseteq Jobs
  /\ wrote \subseteq Jobs /\ reviewed \subseteq Jobs
  /\ active \in Sessions /\ session \in [Jobs -> Sessions]
  /\ open \in [Sessions -> {"open", "destroying", "gone"}] /\ closed \in BOOLEAN
  /\ turn \in BOOLEAN /\ leases \subseteq Jobs /\ merged \subseteq Jobs
  /\ restarts \in 0..MaxRestarts

Exited(j) == j \in table /\ gor[j] = "closed" /\ status[j] \in Terminal

\* What a background task changed is reviewed by a turn that was delivered or
\* still waits to be: no failed turn, kill, lease or restart loses it (the lease
\* and commit protocol of the evidence).  A task that a restart interrupted is
\* the exception, see MutationsAwaitReview.
EvidenceKept ==
  \A j \in wrote : Exited(j) /\ status[j] # "Interrupted" =>
    j \in reviewed \/ j \in evidence \ committed

\* Every task in the table that changed the workspace is reviewed or waits to
\* be, interrupted ones too: a record without a summary means that the task
\* made no changes (mutationEvidenceFromArtifact).
MutationsAwaitReview ==
  \A j \in wrote : Exited(j) => j \in reviewed \/ j \in evidence \ committed

\* Whoever sees a job done or failed finds its completion note queued, or was
\* told already (recordCompletion comes before the status).
TerminalImpliesNoted ==
  \A j \in table :
    status[j] \in {"Done", "Failed"} /\ open[session[j]] = "open" /\ restarts = 0 => j \in told

\* No note is queued for a job the manager has forgotten: a destroyed session
\* does not speak up in a later one (BeginDestroySession, FinishDestroySession).
NotesHaveJobs == notes \subseteq table

\* Every job comes to its end: killed or not, queued for a slot or running, its
\* done channel is closed, so wait, teardown and close return.
JobsEnd == \A j \in Jobs : gor[j] = "running" ~> gor[j] = "closed"
=============================================================================
