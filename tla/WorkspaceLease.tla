--------------------------- MODULE WorkspaceLease ---------------------------
(***************************************************************************)
(* internal/workspacelease: one workspace, written by Delivery sessions of *)
(* several processes.  An Owner is shared by the runs of a session; its    *)
(* first writer acquires the lease, the others wait for it or re-enter,    *)
(* and the last run or retained background job to end gives it back.       *)
(* Underneath, the owners of one process share a one-token channel, and    *)
(* processes exclude each other by an advisory file lock.                  *)
(*                                                                         *)
(* The owner's fields change under its mutex; the waits, the file lock and *)
(* the release happen outside it, so each of those is a step of its own.   *)
(* Not modelled: workspace canonicalisation and the lease directory.       *)
(***************************************************************************)
EXTENDS Naturals, FiniteSets

CONSTANTS
  Owners,    \* sessions: pairs of a process and a session of it
  Callers,   \* agent runs of a session: the root agent and its subagents
  MaxRuns,   \* bound: runs ever begun
  MaxJobs,   \* bound: retained jobs of one owner at a time
  None       \* nobody

Runs == Owners \X Callers
OwnerOf(r) == r[1]
Process(o) == o[1]
Processes == {Process(o) : o \in Owners}
RunsOf(o) == {r \in Runs : OwnerOf(r) = o}

ASSUME ConstantsAssumption ==
  /\ IsFiniteSet(Owners) /\ IsFiniteSet(Callers) /\ None \notin Owners
  /\ MaxRuns \in Nat /\ MaxJobs \in Nat

VARIABLES
  activeRuns, background, acquired, acquiring, waiting,   \* Owner's fields
  releasing,   \* how far the release of an owner has come outside the mutex
  token,       \* process -> the token is in the channel of localRegistry
  flock,       \* the owner whose descriptor holds the lock file
  pc,          \* run -> where it is in AcquireWrite; "out" when not running
  granted,     \* history: runs whose AcquireWrite returned nil
  begun        \* counts runs for the bound

fields == <<activeRuns, background, acquired, acquiring, waiting>>
vars == <<fields, releasing, token, flock, pc, granted, begun>>

Init ==
  /\ activeRuns = [o \in Owners |-> 0] /\ background = [o \in Owners |-> 0]
  /\ acquired = [o \in Owners |-> FALSE] /\ acquiring = [o \in Owners |-> FALSE]
  /\ waiting = [o \in Owners |-> FALSE] /\ releasing = [o \in Owners |-> "no"]
  /\ token = [p \in Processes |-> TRUE] /\ flock = None
  /\ pc = [r \in Runs |-> "out"] /\ granted = {} /\ begun = 0

Goto(r, label) == pc' = [pc EXCEPT ![r] = label]
Decrement(n) == IF n > 0 THEN n - 1 ELSE 0

\* Wrong on purpose: retained jobs do not count.
ReleaseIfRunsEnded(o, holds) ==
  IF holds /\ ~acquiring'[o] /\ activeRuns'[o] = 0
  THEN acquired' = [acquired EXCEPT ![o] = FALSE] /\ releasing' = [releasing EXCEPT ![o] = "file"]
  ELSE acquired' = [acquired EXCEPT ![o] = holds] /\ UNCHANGED releasing

\* releaseIfIdleLocked, at the end of a critical section that leaves acquired
\* at holds: with no run and no job left the lease is taken from the owner,
\* and the caller gives it back once it has left the mutex.
ReleaseIfIdle(o, holds) ==
  IF holds /\ ~acquiring'[o] /\ activeRuns'[o] = 0 /\ background'[o] = 0
  THEN acquired' = [acquired EXCEPT ![o] = FALSE] /\ releasing' = [releasing EXCEPT ![o] = "file"]
  ELSE acquired' = [acquired EXCEPT ![o] = holds] /\ UNCHANGED releasing

-----------------------------------------------------------------------------
(* Runs *)

BeginRun(r) ==
  /\ pc[r] = "out" /\ begun < MaxRuns /\ Goto(r, "running")
  /\ activeRuns' = [activeRuns EXCEPT ![OwnerOf(r)] = @ + 1]
  /\ begun' = begun + 1
  /\ UNCHANGED <<background, acquired, acquiring, waiting, releasing, token, flock,
                 granted>>

EndRun(r) ==
  /\ pc[r] = "running" /\ Goto(r, "out")
  /\ granted' = granted \ {r}
  /\ activeRuns' = [activeRuns EXCEPT ![OwnerOf(r)] = Decrement(@)]
  /\ UNCHANGED <<background, acquiring, waiting, token, flock, begun>>
  /\ ReleaseIfIdle(OwnerOf(r), acquired[OwnerOf(r)])

\* AcquireWrite, entered or woken up: the three ways its loop goes.
Entering(r) == pc[r] \in {"running", "woken"}

Reenter(r) ==
  /\ Entering(r) /\ acquired[OwnerOf(r)]
  /\ granted' = granted \cup {r} /\ Goto(r, "running")
  /\ UNCHANGED <<fields, releasing, token, flock, begun>>

Queue(r) ==
  /\ Entering(r) /\ ~acquired[OwnerOf(r)] /\ acquiring[OwnerOf(r)]
  /\ Goto(r, "queued")
  /\ UNCHANGED <<fields, releasing, token, flock, granted, begun>>

\* Wrong on purpose: the first writer does not claim the acquisition.
LeadUnclaimed(r) ==
  /\ Entering(r) /\ ~acquired[OwnerOf(r)]
  /\ Goto(r, "token")
  /\ UNCHANGED <<fields, releasing, token, flock, granted, begun>>

Lead(r) ==
  /\ Entering(r) /\ ~acquired[OwnerOf(r)] /\ ~acquiring[OwnerOf(r)]
  /\ acquiring' = [acquiring EXCEPT ![OwnerOf(r)] = TRUE] /\ Goto(r, "token")
  /\ UNCHANGED <<activeRuns, background, acquired, waiting, releasing, token, flock,
                 granted, begun>>

\* The context of a queued run ends.
CancelQueued(r) ==
  /\ pc[r] = "queued" /\ Goto(r, "running")
  /\ UNCHANGED <<fields, releasing, token, flock, granted, begun>>

-----------------------------------------------------------------------------
(* acquire: the leading run alone, outside the mutex *)

\* notifyWait, when the token or the file is not free at once.
NotifyWait(r) ==
  /\ \/ pc[r] = "token" /\ ~token[Process(OwnerOf(r))]
     \/ pc[r] = "file" /\ flock # None
  /\ waiting' = [waiting EXCEPT ![OwnerOf(r)] = TRUE]
  /\ UNCHANGED <<activeRuns, background, acquired, acquiring, releasing, token, flock,
                 pc, granted, begun>>

TakeToken(r) ==
  /\ pc[r] = "token" /\ token[Process(OwnerOf(r))] /\ Goto(r, "file")
  /\ token' = [token EXCEPT ![Process(OwnerOf(r))] = FALSE]
  /\ UNCHANGED <<fields, releasing, flock, granted, begun>>

\* Wrong on purpose: the lock is recorded for the run, not for its session.
LockFileForRun(r) ==
  /\ pc[r] = "file" /\ flock = None /\ Goto(r, "won")
  /\ flock' = r
  /\ UNCHANGED <<fields, releasing, token, granted, begun>>

LockFile(r) ==
  /\ pc[r] = "file" /\ flock = None /\ Goto(r, "won")
  /\ flock' = OwnerOf(r)
  /\ UNCHANGED <<fields, releasing, token, granted, begun>>

\* Wrong on purpose: a cancelled wait for the file keeps the token.
CancelLeadKeepingToken(r) ==
  /\ pc[r] \in {"token", "file"} /\ Goto(r, "lost")
  /\ UNCHANGED <<fields, token, releasing, flock, granted, begun>>

\* The context ends, or the file lock fails for another reason.
CancelLead(r) ==
  /\ pc[r] \in {"token", "file"} /\ Goto(r, "lost")
  /\ token' = IF pc[r] = "file" THEN [token EXCEPT ![Process(OwnerOf(r))] = TRUE]
              ELSE token
  /\ UNCHANGED <<fields, releasing, flock, granted, begun>>

\* Wrong on purpose: the queued runs are not woken up.
SettleQuietly(r) ==
  LET o == OwnerOf(r)
  IN /\ pc[r] \in {"won", "lost"} /\ Goto(r, "running")
     /\ acquiring' = [acquiring EXCEPT ![o] = FALSE]
     /\ waiting' = [waiting EXCEPT ![o] = FALSE]
     /\ granted' = IF pc[r] = "won" THEN granted \cup {r} ELSE granted
     /\ UNCHANGED <<activeRuns, background, token, flock, begun>>
     /\ ReleaseIfIdle(o, acquired[o] \/ pc[r] = "won")

\* acquire has returned: publish the outcome, close acquireDone, and release at
\* once if nobody is left.
Settle(r) ==
  LET o == OwnerOf(r)
  IN /\ pc[r] \in {"won", "lost"}
     /\ pc' = [q \in Runs |-> IF q = r THEN "running"
                              ELSE IF OwnerOf(q) = o /\ pc[q] = "queued" THEN "woken"
                              ELSE pc[q]]
     /\ acquiring' = [acquiring EXCEPT ![o] = FALSE]
     /\ waiting' = [waiting EXCEPT ![o] = FALSE]
     /\ granted' = IF pc[r] = "won" THEN granted \cup {r} ELSE granted
     /\ UNCHANGED <<activeRuns, background, token, flock, begun>>
     /\ ReleaseIfIdle(o, acquired[o] \/ pc[r] = "won")

-----------------------------------------------------------------------------
(* Background jobs, the release, and the death of a process *)

\* RetainUntil, called when a run starts a job.
RetainUntil(r) ==
  /\ pc[r] = "running" /\ acquired[OwnerOf(r)] /\ background[OwnerOf(r)] < MaxJobs
  /\ background' = [background EXCEPT ![OwnerOf(r)] = @ + 1]
  /\ UNCHANGED <<activeRuns, acquired, acquiring, waiting, releasing, token, flock, pc,
                 granted, begun>>

JobDone(o) ==
  /\ background[o] > 0
  /\ background' = [background EXCEPT ![o] = Decrement(@)]
  /\ UNCHANGED <<activeRuns, acquiring, waiting, token, flock, pc, granted, begun>>
  /\ ReleaseIfIdle(o, acquired[o])

\* releaseSystem: the file lock first, then the token.
ReleaseFile(o) ==
  /\ releasing[o] = "file"
  /\ flock' = None /\ releasing' = [releasing EXCEPT ![o] = "token"]
  /\ UNCHANGED <<fields, token, pc, granted, begun>>

ReleaseToken(o) ==
  /\ releasing[o] = "token"
  /\ token' = [token EXCEPT ![Process(o)] = TRUE]
  /\ releasing' = [releasing EXCEPT ![o] = "no"]
  /\ UNCHANGED <<fields, flock, pc, granted, begun>>

Crash(p) ==
  LET Dead(o) == Process(o) = p
      Reset(f, v) == [o \in Owners |-> IF Dead(o) THEN v ELSE f[o]]
  IN /\ activeRuns' = Reset(activeRuns, 0) /\ background' = Reset(background, 0)
     /\ acquired' = Reset(acquired, FALSE) /\ acquiring' = Reset(acquiring, FALSE)
     /\ waiting' = Reset(waiting, FALSE) /\ releasing' = Reset(releasing, "no")
     /\ token' = [token EXCEPT ![p] = TRUE]
     /\ flock' = IF flock # None /\ Dead(flock) THEN None ELSE flock
     /\ pc' = [r \in Runs |-> IF Dead(OwnerOf(r)) THEN "out" ELSE pc[r]]
     /\ granted' = {r \in granted : ~Dead(OwnerOf(r))}
     /\ UNCHANGED begun

-----------------------------------------------------------------------------
\* What a goroutine does without anybody's decision.
Proceed(r) ==
  \/ pc[r] = "woken" /\ (Reenter(r) \/ Queue(r) \/ Lead(r))
  \/ TakeToken(r) \/ LockFile(r) \/ Settle(r)
Return(o) == ReleaseFile(o) \/ ReleaseToken(o)

Next ==
  \/ \E r \in Runs :
       \/ BeginRun(r) \/ EndRun(r) \/ Reenter(r) \/ Queue(r) \/ Lead(r)
       \/ CancelQueued(r) \/ NotifyWait(r) \/ TakeToken(r) \/ LockFile(r)
       \/ CancelLead(r) \/ Settle(r) \/ RetainUntil(r)
  \/ \E o \in Owners : JobDone(o) \/ ReleaseFile(o) \/ ReleaseToken(o)
  \/ \E p \in Processes : Crash(p)

\* Goroutines go on, the retry timer fires, runs and jobs come to an end.
Fairness ==
  /\ \A r \in Runs : WF_vars(Proceed(r)) /\ WF_vars(EndRun(r))
  /\ \A o \in Owners : WF_vars(Return(o)) /\ WF_vars(JobDone(o))

Spec == Init /\ [][Next]_vars /\ Fairness

-----------------------------------------------------------------------------
(* Properties *)

\* Every variable has its type.
TypeOK ==
  /\ activeRuns \in [Owners -> Nat] /\ background \in [Owners -> 0..MaxJobs]
  /\ acquired \in [Owners -> BOOLEAN] /\ acquiring \in [Owners -> BOOLEAN]
  /\ waiting \in [Owners -> BOOLEAN] /\ releasing \in [Owners -> {"no", "file", "token"}]
  /\ token \in [Processes -> BOOLEAN] /\ flock \in Owners \cup {None}
  /\ pc \in [Runs -> {"out", "running", "woken", "queued", "token", "file", "won", "lost"}]
  /\ granted \subseteq Runs /\ begun \in 0..MaxRuns

\* Sessions that may be writing: a run was granted the lease and has not ended,
\* or a job retains it.
Writing == {OwnerOf(r) : r \in granted} \cup {o \in Owners : background[o] > 0}

\* At most one session writes to the workspace, and it holds the file lock: a
\* lease is never given back under a granted run or a retained job, whichever
\* run or job ends first (EndRun, RetainUntil, releaseIfIdleLocked).
WritersExclusive == \A o \in Writing : flock = o /\ acquired[o]

\* A session without a run or a job, whose release is through, holds nothing;
\* the token is home when no owner of the process has it.
NothingLeaks ==
  \A o \in Owners :
    activeRuns[o] = 0 /\ background[o] = 0 /\ releasing[o] = "no" =>
      /\ flock # o /\ ~acquired[o] /\ ~acquiring[o]
      /\ (\A q \in Owners : Process(q) = Process(o) =>
            activeRuns[q] = 0 /\ background[q] = 0 /\ releasing[q] = "no")
         => token[Process(o)]

\* One run of an owner leads an acquisition, exactly while acquiring is set, so
\* queued runs always have somebody to wake them (AcquireWrite).
OneLeader ==
  \A o \in Owners :
    LET leaders == {r \in RunsOf(o) : pc[r] \in {"token", "file", "won", "lost"}}
    IN /\ acquiring[o] <=> leaders # {}
       /\ Cardinality(leaders) <= 1

Patient == ~\E r \in Runs : CancelLead(r) \/ CancelQueued(r)

\* Once nobody cancels, a run that asks for the lease gets it: runs and jobs
\* end, so the lease comes back to whoever waits, and queued runs are woken
\* (AcquireWrite, EndRun, RetainUntil).
Answered ==
  <>[][Patient]_vars => \A r \in Runs : []<>(pc[r] \in {"out", "running"})
=============================================================================
