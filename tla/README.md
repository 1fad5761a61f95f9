# Verification of Patty Code

Patty Code is a coding agent written in Go. One `control.Controller` drives an agent loop behind several frontends (a terminal
UI, an HTTP/SSE server, a desktop application, an editor protocol); the agent edits files of a workspace through tools, runs
background jobs and sub-agents, keeps checkpoints of every turn, and can rewind files and conversation to the start of an
earlier turn. Several processes may work on one workspace.

This directory holds TLA+ models of the parts of it whose correctness depends on orders nobody writes tests for: what may run at
the same time, and what is left behind when a call fails or the process dies. Paths below are relative to the repository's `src/`.

    tlc -workers 2 -config RewindFiles.cfg MCRewind.tla      # a run; PROJECT.json lists them all
    tlapm FileLockProofs.tla                                         # proofs; they are in the modules named ...Proofs

## 1. Inventory

What each component keeps, does, and must get right; bold names are modelled. `PROJECT.json` has the same list with the sources and the status.

| component | state | operations | hard because | correct when |
|---|---|---|---|---|
| **checkpoint: rewind transactions** (`internal/checkpoint/transaction.go`, `internal/control/rewind.go`) | manifests on disk, temporaries and backups beside the targets, the conversation in memory and on disk, checkpoint files, the undo slot | prepare, commit, undo, compensate, recover at startup | a sequence of renames and saves over three stores, any of which may fail, with a crash between any two | files, conversation and checkpoints move together or not at all; nobody else's content is replaced |
| **checkpoint: barrier, observer, plan tokens** (`barrier.go`, `observer.go`) | writer count, exclusive flag, generation; registry of background writers and its copy in the store | enter and exit write, try exclusive, register, unregister, preview, commit | previews and commits of several frontends against tool calls and background writers | a rewind is alone, and only commits what its preview showed |
| **filelock** | per process a registry of one-token channels, and the advisory lock of the system | acquire, try, release | entries are reclaimed at zero and remade while someone remembers the old one | one holder in all processes; no token and no entry is lost |
| **workspacelease** | per session run and job counts, the acquisition in flight; per process a token; the file lock | begin and end run, acquire, retain | the leader of an acquisition is cancelled, the session ends, jobs outlive runs | one writing session, no leak, everyone who asks is answered |
| checkpoint: capture, blobs, retention | content-addressed blobs, per-turn revisions | observe before/after, expire | retention deletes what a plan may need | an expired payload makes a preview refuse |
| **control: turn admission** (`controller.go`, `admission_guard.go`) | running, finishing, rotating, closed, parked turns | run turn, park, finish, begin rotation, close | completion, queue, rotation and close race | one turn at a time; a parked turn starts exactly once or is refused |
| control: approvals and asks | pending prompts and their waiters | ask, answer, drain, reconnect | answers that arrive late or twice | every waiter gets one answer |
| **sessiontemp** | current and retired generations, owner and lease counts, sealed | retain, release, rotate, acquire, clean stale | a command outlives its session | a directory goes after its last lease and never comes back |
| **agent: sub-agent scheduler** | active counts, write claims, waiters | acquire, release, reserve parent write | cancellation meets activation | claims do not overlap, slots do not leak |
| agent: run loop, session save | messages, recovery copies | turn, compact, save | optimistic save against a changed file | no message is lost silently |
| **jobs** | jobs with status and output, completion notes, evidence leases | start, kill, wait, drain, destroy session, lease and commit evidence | kill against completion, teardown against start, restarts | one terminal status; a note and its evidence are delivered once |
| **extension: rpcwire** | write queue, pending requests, closed | request, notify, cancel, shutdown | shutdown against queued writes and answers | every request returns once |
| extension: sidecar, dispatch, UI hub; plugin (MCP) | processes, connections | start, restart, call | reconnect races | a call goes to one live connection |
| recovery gate; guardian breaker | small state machines | block, approve, trip | repeated failures, cooldowns | no continued work past a blocked gate |
| event, serve (SSE), bot, remote | queues and replays | publish, subscribe, reconnect | slow or reconnecting readers | no gap, no duplicate |
| **serve: hot reload and model switch** (`internal/serve/serve.go`, `internal/boot/reload.go`) | the serving controller, the published generation | rebuild or build anew, publish, swap, close the old one | steps may fail after the new generation has been published | the old controller stays live until the new one has taken over |
| repair, update, install layout | the active version, its marker | activate, roll back | a crash in the middle of an update | an installed version is always whole |
| config, permission, sandbox, provider, tools, UI, workers | data and I/O | — | mostly sequential | not a matter for a model checker |

How they interact. The controller admits a turn when neither `running` nor `rotating` is set. The turn opens a checkpoint
(`beginCheckpoint`), and every write tool call of the agent enters the mutation barrier, after the write lease of the
workspace has been acquired (`workspacelease`, for sessions that share a workspace) and, for sub-agents, a slot of the
scheduler. Background writers register with the observer, which enters the barrier for them. A frontend that asks for a rewind
takes the rotation gate, which excludes turns, and the exclusive side of the barrier, which excludes writers; under both, the
transaction runs alone. A background task is a
goroutine of `jobs` that queues for a slot of the same scheduler; what it changed comes back as evidence, which a turn leases into its ledger and
confirms when it is delivered. Controllers of one session share its temporary directory (`sessiontemp`); a hot reload builds a second
controller that becomes an owner before the first one lets go, and the generation gate of `boot` decides which of them admits work.
`filelock` carries the same two-layer protocol (an in-process token, then a file lock) for configuration,
statistics, updates, session directories and the owner locks of temporary directories.

## 2. Plan

Order: what could lose a user's work first, then what keeps two actors apart, then what only stalls.

1. `RewindTransaction`, `AtomicRewind`, `RewindRefinement` — done, with single-file reverts and truncations that stop
   halfway. Remaining: content-addressed payloads that expire.
2. `WriterBarrier` — done: it justifies the single program counter of module 1.
3. `FileLock`, `WorkspaceLease` — done.
4. `TurnAdmission`, composed with `SessionTemp` in `HotReload` — done, model switches included. Remaining: the composition with `WriterBarrier`,
   whose two gates it would replace.
5. `SubagentScheduler`, and `BackgroundJobs` which composes it with the jobs — done. Remaining: bash jobs and background fleets.
6. `RpcConnection` — done. Next on top of it: the restart of a sidecar.
7. Then approvals, session save, the recovery gate, event replay and update activation, as far as their code is stateful.

Theorems, in the order of worth: the exclusion of `FileLock`; the inductive invariant of `RewindTransaction` and `CommitIsWhole`;
`RewindAlone` and `CommitsWhatWasPreviewed` of `WriterBarrier`; `WritersExclusive`, `NothingLeaks` and `OneLeader` of `WorkspaceLease`; claims,
slots and wake-ups of `SubagentScheduler`; the evidence and the notes of `BackgroundJobs`; `ConnectionSound` of `RpcConnection`;
`OneTurnAtATime` and `DirectoryShared` of the hot reload; `AbortIsWhole`, `TemporariesOwned`, `ForeignContentKept`, `CheckpointsMatchConversation` and
`OneFaultSettles` of the transaction, and that it implements `AtomicRewind` (all done). Left: that `FileLock` implements an abstract lock.

## 3. Modules

### RewindTransaction, AtomicRewind, RewindRefinement, MCRewind, RewindTransactionProofs and RewindRefinementProofs

State: `disk` is the workspace, one image per path; an image stands for what the code's fingerprint identifies (bytes and mode).
`tmp` and `bak` are the `.patty-publish` temporaries and `.bak` siblings of each transaction. `txs` is the sequence of durable
manifests and `mem` the copy the running code mutates: `Persist` writes one over the other, `PersistFails` changes only the copy.
`conv` and `convDisk` are the transcript in memory and as saved; `ckpt` the checkpoint list, with the boundary and the pre- and
post-images of each turn, and `ckptDisk` the files it is loaded from at a restart. A checkpoint says which files the turn captured (`touched`) and which it identified after
writing (`owned`); that it was the n-th turn ever (`began`) and that its last save went through (`saved`) is history, as are `when` in a manifest (how many turns had begun), `litter` (the
temporaries that were left by an ignored error) and `orderly` (section 4). `TruncateFrom` and `restoreCheckpointBackup` change the list in one
step but the files one by one, so a call that fails, or a crash, may leave any part of them removed or a first part of them written (`HalfDone`). `pc`, `at`, `todo`, `pass` say where `commitTransaction`, `compensatePublished` or `recoverTransactions` is.
The code numbers turns from 0, the model from 1.

| actions | code |
|---|---|
| `PrepareTransaction`, `UndoRewind` | plan, precheck, manifest, temporaries (`prepareTransaction`, `UndoRewind`) |
| `FileRevert` | `CommitFileRevert`: one file back to its first preimage, over a conflict if the user says so; no conversation on any path |
| `Abandon`, in each of these | a call fails before the manifest is written, or the undo's is aborted: temporaries are removed as far as that goes, or, by `CommitFileRevert`, not at all (`transaction.go:1749`, `1758`) |
| `BeginCommit`, `PersistIntent`, `BackupTarget`, `PublishTarget`, `PersistProgress`, `FilesDone` | `commitTransaction` over the targets in path order, each with the intent persisted before and the progress after the two renames of `publishTarget` |
| `CommitConversation`, `CommitCheckpoints`, `Finalize`, `MarkUndone` | the conversation applier, `TruncateFrom` or `restoreCheckpointBackup`, the commit point, the parent of an undo |
| `CompensateConversation` … `CompensateMove`, `Verdict` | `failTransaction*`, `compensatePublished` in reverse path order, with its case split on what the target looks like now; `CompensateUnread` is a target that cannot be fingerprinted, and `CompensateNothing` may fail to remove the temporary without anybody asking (`transaction.go:979`, `996`) |
| `Start`, `RecoverPrepared`, `RecoverCommitting`, `PassDone` | the two passes of `recoverTransactions` at startup: files only, then with the conversation; `RecoverPrepared` ignores failed removals (`transaction.go:1228`) |
| `Turn` | a turn that runs to its end: `Store.Begin`, the captures, the message, and the save of the transcript. Any of the saves of its checkpoint may fail (`persistBestEffort`: the file is as an earlier save left it, or missing) or that of the transcript |
| `BlockedTurn` | the `UserPromptSubmit` hook blocks the prompt: a checkpoint and no message (`turn_orchestrator.go:256`) |
| `BrokenTurn` | the process dies in the middle of a turn: some files captured, some of them written, some of those identified, the prompt saved or not |
| `ExternalEdit`, `Crash`, `Shutdown` | the user's editor, the end of the process |

Every step that makes a system call or a save has an outcome in which it fails (`Fault`), those included whose error the code ignores, bounded together with the crashes by
`MaxDisturbances`. A turn is one step because the rotation gate and the barrier keep every request out until it is over, so that only its end, or where it was cut
short, can be seen by a transaction; the outcomes above are the ways it may end. A file mode that cannot be set after a publish is the failure of `PersistProgress`: the target is published and the
transaction compensates. Recovery visits manifests in the order of their file names, which is the order of creation.

`AtomicRewind` is what a user may expect: files, conversation and the list of rewind points move in one step; an undo moves them
back; a single file moves alone. `RewindRefinement` maps the transaction to it: while a manifest is `committing`, the paths it may have published count
as their forward images and the conversation as what it was, so the persist of `Finalize` is the abstract step. The mapping holds for orderly
histories (section 4) without outside edits: the abstract specification knows no other author.

### WriterBarrier and WriterBarrierProofs

The two gates of the controller (`running`, `rotating`), the `MutationBarrier`, the registry of background writers with its copy
`listed` in the store, and the plan a frontend holds between preview and commit. Frontends are concurrent. The registry mutex is
`regMu`: `RegisterWriter` waits for the barrier while it holds it, exactly as the code does. `version` is a history variable that
counts changes of the workspace; `plan.version` remembers its value at the precheck of the preview. A plan for the
conversation alone carries `files = FALSE`: the code compares the generation only for plans that restore files.

### FileLock and FileLockProofs

Goroutines of several processes acquire one canonical path. A registry entry is an object with an identity: `AcquireLocal` finds
the registered entry or makes one and counts itself, `TakeToken` receives from its channel, `LockFile` is the advisory lock
(at once or at a retry of the timer), `GiveUp` and `AbandonFile` are the ends of the context, `UnlockFile` and `Release` the returned function.
`Crash` drops a process with its registry; the system drops its file lock.

### WorkspaceLease, MCWorkspaceLease and WorkspaceLeaseProofs

`Owner` is a session; its runs call `AcquireWrite`, one of them leads (`Lead`, `TakeToken`, `LockFile`, `CancelLead`, `Settle`), the others
queue. `ReleaseIfIdle` is `releaseIfIdleLocked`: with the last run and the last retained job gone, the file and then the token are given
back outside the mutex (`ReleaseFile`, `ReleaseToken`), so another acquisition may already be under way.

### SubagentScheduler (theorems in BackgroundJobsProofs)

An acquirer is one call of `Acquire` with the run behind it, a write one call of `ReserveParentWrite`. A claim is the set of paths it covers, so
that two claims overlap when they intersect; lists of claims are bags. `Acquire` starts at once, waits in `waiters`, or fails at once when it is made inside a
run that holds a slot. Who gives something back (`Release`, `RemoveWaiter`, `ReleaseParentWrite`) scans the queue: the mutex `mu` names the scanner,
`Pump` starts one waiter, `Pumped` ends the scan. A started waiter learns it later (`Started`), and its context may end in between (`Cancelled`).

### BackgroundJobs, MCBackgroundJobs and BackgroundJobsProofs

Extends the scheduler. A job is one goroutine and one acquirer: `StartForSession`, `AcquireSlot`, `Work`, then the stages of its
completion, in the order of the code: the evidence is published (`PublishEvidence`), the outcome settled against a kill (`Settle`), the
record written and the note queued (`RecordCompletion`), the status published (`PublishStatus`), `done` closed (`CloseDone`). `Kill`, `SwitchSession`, `BeginDestroySession`,
`FinishDestroySession` and `Close` come in at any of these. `StartTurn` and `Collect` lease evidence into the ledger of the turn, `Deliver` commits it,
`FailTurn` forgets the ledger. `Restart` loses everything but the records (`meta`), which `loadArtifact` reads back, a running job as interrupted. `wrote`,
`reviewed` and `told` are history.

### SessionTemp, TurnAdmission, HotReload and HotReloadProofs

`SessionTemp` has the owners, the current generation, the lease of every command and the directories on disk with their owner locks; its
operations run under one mutex and are single steps. `SweepFinds` and `SweepRemoves` are the stale sweep of another process, two steps with the lock held between.
`TurnAdmission` is one controller's admission, an action for each critical section of `Controller.mu`: an input is refused, started or parked (`Submit`),
or runs in its caller (`RunTurn`); the end of a body clears `running` and sets `finishing` (`BodyEnds`); the end of the delivery of `TurnDone` opens the gate and starts the
oldest parked input in one section (`Delivered`); rotations and close. `HotReload` composes the two for all controllers of a
lineage and adds `reloadExtensions`: checks, `boot.Rebuild`, publication of the generation, swap, close of the old controller, with
a failure possible at each; `switchModel`, whose `boot.Build` gives the replacement a gate of its own (`SwitchBuilds`); and the death of the process. Callers reach a
controller from its boot or the swap on, and may hold the outgoing one until it is gone.

### RpcConnection and RpcConnectionProofs

One side of a connection. A writer is a request, the handler of a peer's call, or a `TryNotify`; it reserves a slot of the write queue, queues its frame
and waits for the result; `writerLoop` is `Take`, `Begin`, the write, `Complete`. A write may fail or never end; a caller may be cancelled while it waits for a slot, while its frame is queued or on the wire, or
while it waits for the answer. `Seal`, `CloseChannel` and `Sweep` are the three parts of `shutdown`, separate because others run in between; whoever meets an error
calls it, and so does the stall watchdog. The read loop is one process, and while it refuses a call for want of a handler it writes the refusal itself.

## 4. Runs

| run | what it shows | bounds, and why they are enough |
|---|---|---|
| `rewind_files` | an aborted transaction put every file back (`AbortIsWhole`); no temporary outlives its manifest but by a removal the code ignores (`TemporariesOwned`); content no manifest recorded is never replaced (`ForeignContentKept`); everything that begins ends (`Completes`); the whole is an atomic rewind (`ImplementsAtomicRewind`) | two files, since the cases are "this target and one before or after it"; one turn, whole, blocked, broken or unsaved; a rewind and its undo or a second rewind, of files and conversation; two disturbances, so a crash may fall into the compensation of a failure, or one and an outside edit (`EditsAreDisturbances`); checkpoint files half removed or half restored |
| `rewind_turns` | the rewind points cut the conversation where their turns began, and their files are there (`CheckpointsMatchConversation`); one fault never strands a manifest (`OneFaultSettles`); a commit is whole (`CommitIsWhole`); the refinement again, for sequences of rewinds | up to three transactions over up to two turns of all scopes, a single file included: rewind, undo, rewind again, a file touched twice, a blocked turn before or after a whole one; one disturbance, which `NotAllAtOnce` keeps out of the histories with both turns and all three transactions |
| `filelock` | one goroutine past the token, one holder, entries reclaimed, no lost token, progress | two processes with two goroutines: a holder and a waiter on each side; three entries, so a reclaimed one can be remade beside a remembered one |
| `workspace_lease` | one writing session, one leader, no leak, an answer to everyone | two processes, one of them with two sessions; two runs each, three runs in all, a job each: leader, queued run, retained job and a rival at once |
| `writer_barrier` | a rewind is alone and commits what was previewed; nobody waits for ever | two frontends, a background writer, a tool call; four operations are enough for a preview, a write or a turn, a second rewind and the commit |
| `background` | slots and claims are given out and taken back exactly once (`SlotsAccounted`, `ClaimsDisjoint`); no waiter is overlooked (`NoLostWakeup`); evidence is reviewed or waits (`EvidenceKept`); notes come before statuses and go with their jobs (`TerminalImpliesNoted`, `NotesHaveJobs`); jobs end (`JobsEnd`) | a background task, a sub-agent and a parent write that compete for one slot and one path, so that each blocks the others; two sessions, so that a job outlives a switch; one restart |
| `turns` | one turn at a time, no session exchanged under it, no parked input forgotten (`OneTurnAtATime`) or overtaken (`NoSlippingIn`); a directory is there and locked while a command uses it, and goes with the last owner (`DirectoryShared`) | two controllers, for one reload or model switch; three inputs: one running, one parked, one newcomer; a command that outlives its turn; two directories, a retired generation beside a current one; one crash |
| `rpc` | no send blocks under a mutex, nobody waits unregistered, success means written (`ConnectionSound`); every wait ends (`EveryWaitEnds`) | a queue of one frame and one handler, so that a request, two calls (one of them refused by the read loop) and a notification meet every limit |

The four violation runs are in section 7. Deadlock checking is off where the bounds (or the end of the user's requests) let the system
stop; `filelock` checks it.

*Orderly histories.* Five properties of the transaction assume `orderly` (`AbortIsWhole`, `TemporariesOwned`, `CheckpointsMatchConversation`, `OneFaultSettles`, `ImplementsAtomicRewind`):
nothing new was begun while a manifest was still `committing`; no undo was begun after a later turn; no transaction was begun over messages that a failed save had kept off the
disk; and no restart lost what such a save had missed, or loaded the file of a checkpoint that had been dropped (`Resumable`). All of them do happen in the code, when recovery cannot settle a manifest, when
an undo outlives a restart, and after a best-effort save that failed; what goes wrong then is the subject of `LaterWorkKept` and of the observations in section 7. A turn that is blocked, broken or
unsaved leaves the history orderly, as long as no restart comes after an unsaved one.

*What `CheckpointsMatchConversation` says.* That checkpoints and messages are the same list would be false: a blocked turn leaves a checkpoint without a message, a
broken one may, and two checkpoints may share a boundary. What a conversation rewind needs is that the boundary of every listed checkpoint, applied to the conversation
as it is now, keeps exactly the messages of earlier turns; that a message has a checkpoint at which it can be dropped; that the turn numbers, which are reused after truncations, follow the
order in which the turns began; and that a restart finds the checkpoints that were saved. `TemporariesOwned` likewise does not claim that nothing is orphaned: it names the places at which the code
passes over a temporary (`litter`) and excludes every other.

*Joint bounds.* `MCRewind` bounds two combinations for TLC. A constraint cuts the successors that exceed it; since every commit and recovery step has an outcome without a fault, no
behaviour is stopped by it that fairness would carry on, and `Completes` means the same. The theorems of section 5 have no bounds.

*Fairness.* `RewindTransaction` assumes weak fairness of the commit and of the recovery, because a goroutine that runs a
transaction, and the startup, run to their end; turns, edits, crashes and requests have none. `FileLock` assumes that goroutines run, that the
retry timer fires and that a holder releases; `SomeoneGetsIn` further considers only behaviours in which, from some point on, callers
do not give up. `WorkspaceLease` and `WriterBarrier` assume that calls proceed and that runs, jobs and registered writers end, which is what the code's
defers and contexts ensure; nobody is assumed to ask for anything. `BackgroundJobs` assumes
that goroutines are scheduled, that runs and write calls return and that a scan of the queue ends; nobody has to kill or collect a job. `RpcConnection`
assumes that callers, `writerLoop`, the parts of a shutdown and the stall watchdog proceed. It does not assume that a write ends, that the peer answers, or that a caller gives up: a request that
waits for a slow peer may wait for ever, and `EveryWaitEnds` is about all other waits. `HotReload` has no fairness and only safety properties; that a parked
input is not forgotten is the clause of `OneTurnAtATime` by which somebody will come back for it.

## 5. Proofs

A run checks one small instance; the theorems hold for every value of the constants. They use no assumption but the named ones of
the module they are about: for `FileLock` that processes and callers are finite sets without `None`, for `WorkspaceLease` the same of owners and callers, for
`WriterBarrier` that background writers and tool calls are finite and disjoint sets, for `RewindTransaction` that paths are
finitely many numbers (they stand for a sorted order) and that the scopes are the three of the code and that of a single file; for the scheduler that its acquirers and writes are finite and disjoint
sets and requests name paths of the workspace, for `BackgroundJobs` that jobs are acquirers, for `RpcConnection` that its writers are finite and disjoint sets and its limits
positive; and that the bounds are naturals.

**`FileLockProofs`** proves `FileLockTypes` (`TypeOK`), `OneOwner` (`OneOwnerPerProcess`), `Exclusive` (`HeldMeansLocked`), `Reclaimed` (`RegistryReclaimed`)
and `TokenReaches` (`TokenReachesWaiters`). None of the five is inductive alone. The inductive invariant says of every process that each entry somebody
remembers is the registered one (`Registered`), that entries have identities of their own (`Separate`), that the count of an
entry is the number of goroutines that remember it (`Counted`), that its token is in the channel unless exactly one of them has it (`TokenOnce`), and that
the file belongs to who was told so (`HeldMeansLocked`). Forgetting an entry at count zero is safe only because of the first and the third together: nobody who could
still wait on its channel is left.

**`RewindTransactionProofs`** proves `Types` (`TypeOK`). Its inductive invariant `IInv` adds three facts to the types: a step of a transaction has its manifest in
memory and a slot on disk; a path being moved is a path of the workspace; and turn numbers are bounded by the turns run, those of the
checkpoints a manifest may bring back included. Without the last, the number of the next turn (the maximum plus one) would not be a number.
`MinFacts` and `MaxFacts` give the community modules' `Min` and `Max` their meaning, from the well-foundedness of the naturals.

It also proves `CommitsWhole` (`CommitIsWhole`). The property speaks of the one step that persists `committed`; what makes it true was done
by all the steps before. `Underway` follows a manifest from its preparation to the commit point: the copy in memory is the durable one; what is not yet
published waits in a temporary; what is published, except the path in hand between two renames, is in the workspace; at the conversation no path is left; and the conversation is where the
manifest found it until it is moved, and at the other end from then on. Any failure leaves these steps for the compensation, which
never returns to them (`ElsewhereUnderway`), and no other step writes `committed` (`OnlyFinalizeCommits`).

Its larger half is about the way back. It has four invariants, each used by the next.

- `JInv` (theorem `JournalAgrees`) holds in every history: a temporary holds the image its manifest restores, a backup the one it found (`Siblings`); memory and disk disagree
  only about the state of the manifest (`InStep`); on the way forward an unpublished path is as it was found (`Ahead`); on the way back a path once visited is as it was found, or an
  error is on record (`Back`). A manifest only evolves: its data never changes and its state never goes back (`Evolves`). From this alone `ForeignKept` proves `ForeignContentKept`, orderly or not:
  every branch that renames or removes has seen an image the manifest recorded.
- `OInv` (`OrderlyStore`) holds in orderly histories: at most one manifest is committing and it is the one in hand (`Alone`), a published path is as it was found, in its backup,
  or replaced (`Placed`), and a visit takes the temporary of its path away, or passes over it, or leaves an error on record (`Swept`). `TemporariesHaveOwners` (`TemporariesOwned`) follows. Without
  `Alone` it would not: a second transaction over the same paths moves them from under the first. Only removals that fail add to `litter`.
- `LInv` says which rewind an undo follows: it has the scope, boundary and transcript of its parent (`Inherited`), and what may be undone is the newest rewind that stands (`Newest`).
- `TInv` (`OrderlyTranscripts`) says where the conversation is: at one end or the other of what is committing (`AtAnEnd`), at the end the step in hand counts on or with an error on record
  (`AtTheEnd`), and where the newest standing rewind left it, unless a turn began since (`Chain`). What is in hand was asked for after the last turn (`AtTheEnd`), and only a turn leaves
  more in memory than on disk (`AtAnEnd`). The last clause needs a statement about every two consecutive
  standing rewinds, because an undo that commits takes away the newest and makes the one before it count.

`AbortsWhole` (`AbortIsWhole`) puts them together: a committing manifest is given up by a verdict alone, with no error on record (`AbortsByVerdict`); then `Back` has the files and `AtTheEnd` the conversation.

**`RewindRefinementProofs`** builds on these, and shows what they come to in orderly histories.

- `KInv` (`OrderlyCheckpoints`) is about the list of checkpoints. Checkpoints tell a conversation (`Tells`) when each boundary cuts it where the turn began (`Dated`), each message has the checkpoint
  of its turn (`Covered`) and the numbers follow the turns (`InOrder`). A manifest that truncates, and is not given up, has saved checkpoints that tell the part it drops (`BackupsSound`). Unless such a manifest is
  committing, the list tells the conversation, and what was saved is on disk (`Whole`); while one is, the list below its turn tells it together with its backup, and what is listed above is some of
  that backup (`Parted`); and the step in hand finds all of the backup listed or none of it (`ListedInHand`). `Parted` is all that survives a crash in the middle of the files, and it is enough: the restart loads
  what is there, and the compensation writes all of the backup or nothing. An undo puts its backup back on top of whatever is listed; that this keeps the order needs `Stacked`: as long as no turn has begun since, all
  that is listed, and all that later rewinds dropped, comes before what a standing rewind dropped. `CheckpointsMatch` (`CheckpointsMatchConversation`) is `Whole`, read with nothing pending.
- `FInv` (`OrderlyFaults`) counts faults. Without one, nothing turns back (`Undisturbed`). With one, nothing is left committing while the program is idle, and the compensation has
  recorded no error (`OnceDisturbed`); it records none because every published path is in place, in its backup or has its temporary (`Retraceable`), which is how
  `CompensateFile` tells its own moves from those of others; and a recovery has what is left still ahead of it (`Recovering`). `OneFaultRecovers` (`OneFaultSettles`) follows. With two faults it
  would be false: a crash in the middle of a compensation is among the observations of section 7.
- `MapInv` says what the refinement mapping shows: the workspace and the conversation as they are or, while a manifest is committing, as that manifest found them.
  Hence no step of a commit, a compensation or a recovery is seen, apart from `Finalize`.
- `RInv` (`RewindsFit`) says that what `Finalize` makes visible is what was asked for. An undo is its parent the other way round (`Mirrored`). Where nobody else has edited the files, a turn
  has one checkpoint, in the list and in each backup that may return (`EachOnce`); a rewind in hand was prepared for the very files, conversation and checkpoints that are seen (`Fitting`); and the files are as the newest
  standing rewind left them, and each standing rewind found them as the one before it had left them, unless there were turns in between (`FilesFollow`). The last clause is what an undo rests on, as with `Chain`.

`RewindsAtomically` (`ImplementsAtomicRewind`) takes the steps one by one. A step is a turn, a commit point, or not seen (`StepSeen`); a turn, however it ends, is the abstract one (`AbstractTurn`), and a commit point
is the abstract rewind, revert of a file or undo (`AbstractRewind`, `AbstractRevert`, `AbstractUndo`), with the preimage of each path that `EarliestPre` finds being what the
abstract `Before` chooses. As in `AtomicRewind` itself, the promise holds for as long as the history is orderly and nobody else edits the files.

**`WriterBarrierProofs`** proves `BarrierTypes` (`TypeOK`), `Alone` (`RewindAlone`) and `AsPreviewed` (`CommitsWhatWasPreviewed`). The count of the barrier is the
number of actors inside (`Counted`), so a frontend that finds it zero knows that nobody is (`Excluded`), and whoever comes later waits until `exclusive` is cleared. The gate makes
the frontend that rewinds unique and stops turns (`Rotation`), so the session's revision cannot move under it (`Revisions`). The generation is harder: it moves when
somebody leaves, not when they write, so a plan with the current generation describes the workspace only if nobody inside has changed it (`Versions`). That
is why the check of the generation has to come after the exclusive side is entered, and not before.

**`WorkspaceLeaseProofs`** proves `LeaseTypes` (`TypeOK`), `Exclusive` (`WritersExclusive`), `GivenBack` (`NothingLeaks`) and `LedByOne` (`OneLeader`). The token of a process
and the file each have one holder at a time, but the holder changes its form: it is a run on its way to the lease, then the owner that has acquired it, then the
owner that is giving it back outside the mutex. `Tokens` and `Files` say so, and that a token or a file without a holder is home. `Settled` says that an owner with
the lease is neither acquiring nor releasing and is needed by a run or a job, which with the count of the runs (`Counted`) and the one leader (`Led`) makes the
release in `EndRun`, at the end of a job and in `Settle` safe (`Grants`): at count zero no granted run is left.

**`BackgroundJobsProofs`** has two parts. For the scheduler it proves `SchedulerTypeCorrect` (`SchedulerTypeOK`), `EverySlotAccounted` (`SlotsAccounted`), `NoTwoClaimOnePath` (`ClaimsDisjoint`) and
`NobodyWaitsForWhatIsFree` (`NoLostWakeup`). The counts are the cardinalities of the sets of acquirers that own a slot, those included whom the scan has started and
who have not noticed (`Owns`); the bag of the parent's claims is that of the writes under way; the queue has each waiter once and nobody who was given a slot. The last theorem
needs the scan in progress: nobody it has passed could start, and a release that makes room always starts a new scan.

For the jobs it proves `JobsTypeCorrect` (`TypeOK`), `NoEvidenceLost` (`EvidenceKept`), `NotedBeforeTerminal` (`TerminalImpliesNoted`), `NoNoteSurvivesItsJob` (`NotesHaveJobs`) and
`PoolSoundInside` (the scheduler's theorems under the steps of the jobs). A goroutine before its publication has its job in the table, unless its session is no longer open and the job is killed;
one past `recordCompletion` has told; receipts that were published wait in memory and on disk alike until they are committed. The scheduler's
invariant is used as it is: a job's step is a step of the scheduler or leaves it alone, and a restart empties it.

**`RpcConnectionProofs`** proves `ConnectionTypeCorrect` (`TypeOK`) and `ConnectionIsSound` (`ConnectionSound`). It keeps two books. One says that the slots taken are those of the
frames in the queue and of the writers who have reserved and not yet queued, which is why a send to the queue finds room although it is made under a
mutex. The other says who is served: whoever waits for a result has a frame in the queue or in the hands of `writerLoop`, or has a result, or will be woken by the closed channel;
a result `ok`, and an answer, only follow the frame.

**`HotReloadProofs`** proves `TypeCorrect` (`TypeOK`), `TurnsOneByOne` (`OneTurnAtATime`), `DirectorySafe` (`DirectoryShared`) and `NobodySlipsIn` (`NoSlippingIn`) for any number of controllers, inputs, commands and
directories, for the turns, the directories and the reload together. `TurnInv` places every input on the controller it waits for or runs on; the cardinalities of `OneTurnAtATime` are replaced by "any two are the same", which
is inductive. It needs one fact the property does not mention: while a caller's own turn (`RunTurn`) is in its body, nothing is parked, since an input is parked only on the goroutine that will report. `TempInv` adds to `DirectoryShared` that a
sweep has nothing in hand that is in use, without which its removal would take a directory that was locked meanwhile. `ReloadInv` says that a reload has the controllers it works on; that its steps
own the directory without a gap, the new controller before the old one lets go, is then the counting of the owners (`OwnersCounted`).

## 6. Only model-checked, and not modelled

Liveness (`Completes`, `SomeoneGetsIn`, `Answered`, `EverybodyReturns`, `JobsEnd`, `EveryWaitEnds`) rests on TLC alone: it is beyond the proof system. All other
properties of the passing runs are theorems of section 5.

Not modelled in the transaction: file modes and text encodings, expired and legacy payloads (they make the preview refuse), compaction (`Summarize` rewrites the conversation and clears the
boundaries, `control/checkpoint.go:161`, so that a conversation rewind is refused until new turns record some), more than one write of a file in one turn, inputs that an interceptor blocks
before `Store.Begin` (they change nothing), edits by the user in the milliseconds between a comparison and its rename, and the
second copy of a checkpoint under `expired/`. In the barrier: `EnterExclusive`, `TryEnterWrite` and `Close`, which only
tests call. In the locks: path canonicalisation. In the scheduler: the normalisation of paths in claims. In the jobs: bash jobs and background fleets, output buffers and log files, the stall
monitor, the migration of artifacts, and `ReserveStartForSession`. In `sessiontemp`: the symlink checks and the 24 hours after which a
directory is stale. In turn admission: `Steer` and its parking while a turn runs (no frontend calls it), the forced expiry of a drain (it only cancels turns), a sink that panics in the delivery of
`TurnDone`, and the history and authorizations a replacement inherits. In the connection: frame validation and sizes, `Notify` and inbound notifications but for the
overflow of their queue. The other components of section 1 are not modelled, for the reasons `PROJECT.json` gives.

## 7. Findings

Each of the first four is a run that TLC ends with a counterexample, of a statement that the repository itself makes.

- `rewind_stale_undo` (`LaterWorkKept`): a new turn invalidates the undo slot in memory only; after a restart the newest committed rewind is offered again
  (`transaction.go:1285`), and taking it drops the turn. The comment in `checkpoint.go:342` says "new turn invalidates undo".
- `rewind_forgotten_edits` (`CodeRewindUndoesEveryEdit`): a rewind of the conversation alone deletes the checkpoints of the turns it drops (`checkpoint.go:924`). A later
  code rewind to an earlier turn leaves the edits of those turns in place; `docs/reference/CHECKPOINTS.md:94-96` promises to undo all edits at or after the turn.
- `interrupted_unreviewed` (`MutationsAwaitReview`): `StartForSession` writes the record of a running job without an evidence summary (`jobs.go:450`) and nothing
  rewrites it before the job returns. If the process dies meanwhile, the restart takes the missing summary for "no mutations", as the comment in `jobs.go:659-662` says
  it may, and the changes are never reviewed.
- `reload_strands` (`ReloadIsFailAtomic`): `boot.Rebuild` publishes the new generation as its last step. If the snapshot of the migrated session or its lease fails after that
  (`serve.go:361`), the old controller stays, as the comment in `serve.go:336-339` says, but refuses every input: its generation is draining.

Further observations, made with the same models and other bounds or while writing them:

- A manifest that stays `committing` because its compensation was refused or failed is tried again at every later startup (`transaction.go:1267`), over the files, and
  with the conversation (`transaction.go:1252`) over the turns, of what was done since. `LaterWorkKept` shows the first with `Scopes = {"code"}`, `MaxTurns = 1`, `MaxTransactions = 2`, `MaxDisturbances = 2` and the second with
  `Scopes = {"both"}`, `MaxTurns = 2`, `MaxTransactions = 1`, `MaxDisturbances = 2` (one file suffices for both).
- An undo whose `restoreCheckpointBackup` fails after some files (`transaction.go:1497`) is compensated by `TruncateFrom`, which removes the files of the turns listed in
  memory (`checkpoint.go:927-935`); those just written are not listed. They stay, and after a restart they are rewind points of turns that the conversation does not have, although
  the comment in `checkpoint.go:920-923` says that they must not remain visible. Without `Leftover = {}` in `Resumable`, `CheckpointsMatchConversation` shows
  it, with `Scopes = {"conversation"}`, `MaxTurns = 2`, `MaxTransactions = 2` and one disturbance.
- A checkpoint whose save failed (`checkpoint.go:661`) is only in memory. A restart finds it missing, or as an earlier save left it: without the captures that followed, a later code rewind does not know those
  files; missing altogether while its message was saved, the message has no checkpoint of its own, and its number is used again.
- A transcript whose save failed at the end of a turn is reported in a log line; a restart then finds checkpoints whose boundaries are beyond the conversation, and the rewind to them is refused
  (`control/rewind.go:41`).
- Temporaries are orphaned for good by a removal that fails (`transaction.go:661`, `979`, `996`, `1228`), since the manifest is aborted all the same, and by `CommitFileRevert`, which returns without
  removing its temporary when a blob or the manifest cannot be written (`transaction.go:1749`, `1758`). They are what `litter` holds.
- `Summarize` clears the boundaries in memory only; the checkpoint files keep them, and `rebind` reads them back at a restart (`control/checkpoint.go:38-50`), although the comment in
  `control/checkpoint.go:17-23` says that they are dropped so that a rewind is unavailable rather than mis-truncating. Found while reading; compaction is not modelled.
- `precheckFiles` skips a file whose last toucher did not record how it left it (`transaction.go:1322`, "handled at plan level"), but the plan is legacy only for old checkpoints (`transaction.go:1412`). A turn that died between a
  write and its capture therefore lets a later rewind replace an edit of the user, against the comment at `transaction.go:1362` ("deliberately clears an older proof instead of authorizing an unsafe restore"). The
  manifest records what was there, so an undo brings it back, and `ForeignContentKept` holds.
- A compensation removes a published target and then renames the backup into place (`transaction.go:1048`). A crash between the two leaves a state that the next
  recovery does not recognise and reports as an external modification; the manifest never settles.
- A preview copies the list of background writers outside the registry mutex (`rewind.go:118`) and can overwrite a registration, so it does not report busy. The commit still does, because the barrier counts the writer.
- `Kill` publishes the status `Killed` before the completion note exists; only an exited goroutine guarantees its note, which is how `TerminalImpliesNoted` is stated.
- The read loop of a connection writes its "server busy" refusals itself, although `conn.go:48-52` says that response dispatch is not blocked. The wait ends because the
  watchdog fails a stalled write; a connection without `MaxWriteStall` would wait as long as the write.
