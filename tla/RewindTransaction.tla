-------------------------- MODULE RewindTransaction --------------------------
(***************************************************************************)
(* The durable rewind transaction of internal/checkpoint/transaction.go,   *)
(* with the conversation side of internal/control/rewind.go.               *)
(*                                                                         *)
(* A rewind restores files, the conversation and the checkpoint list to    *)
(* the start of an earlier turn; an undo restores them to what they were   *)
(* before that rewind.  Both run under the exclusive workspace barrier and *)
(* the rotation gate (see WriterBarrier), so one transaction is in flight  *)
(* at a time and a single program counter suffices.  What is interleaved   *)
(* here is the transaction with crashes, failing system calls, restarts,   *)
(* new turns and the user's own edits.                                     *)
(*                                                                         *)
(* Every persisted manifest, every rename and every conversation rewrite   *)
(* is a step of its own; a crash may fall between any two.  A turn is one  *)
(* step, because the gate keeps everything else out of it, with a step for *)
(* each way it may end: whole, blocked by a hook, or with the process dead *)
(* in the middle.  Not modelled: file modes, encodings, expired or legacy  *)
(* payloads (they only make PrepareRewind refuse), compaction, which drops *)
(* the recorded boundaries, and user edits inside the milliseconds in      *)
(* which a transaction runs (the code checks and then renames).            *)
(***************************************************************************)
EXTENDS Naturals, Sequences, FiniteSetsExt, Functions

CONSTANTS
  Files,            \* workspace-relative paths; numbers, for the sorted order
  Scopes,           \* what may be rewound: "code", "conversation", "both", or one "file"
  MaxTurns,         \* bound: turns ever run
  MaxTransactions,  \* bound: transactions ever started
  MaxEdits,         \* bound: edits by the user outside the program
  MaxDisturbances   \* bound: crashes plus failing system calls

ASSUME BoundsAssumption ==
  /\ Files \subseteq Nat /\ IsFiniteSet(Files)
  /\ Scopes \subseteq {"code", "conversation", "both", "file"}
  /\ MaxTurns \in Nat /\ MaxTransactions \in Nat
  /\ MaxEdits \in Nat /\ MaxDisturbances \in Nat

\* An image stands for the bytes and mode a fingerprint identifies; every
\* write makes a fresh one, so equal images mean equal fingerprints.
Absent == 0                          \* the path does not exist
Base == 1                            \* what the file held before the session
TurnImage(n) == 1 + n                \* what the n-th turn wrote
EditImage(n) == 1 + MaxTurns + n     \* what the n-th outside edit wrote
Image == 0..EditImage(MaxEdits)

VARIABLES
  disk,       \* path -> image
  tmp, bak,   \* transaction -> path -> image: PublishTmp and BackupPath siblings
  txs,        \* the durable manifests, in creation order
  cur,        \* the transaction in flight or under recovery; 0 when none
  mem,        \* its manifest in memory, a sequence of length at most one
  lastUndo,   \* Store.lastUndo, a transaction or 0; not durable
  conv,       \* the live conversation, one message per turn
  convDisk,   \* the conversation as last persisted by SnapshotRewrite
  ckpt,       \* the checkpoints: per turn its boundary and captured revisions;
              \* history: when it began, and whether its last save went through
  ckptDisk,   \* ... as the files a restart will load
  pc,         \* the next step of the transaction or of the recovery
  at,         \* the path being published
  todo,       \* the paths compensatePublished has still to visit
  pass,       \* "run", or which recovery pass is running
  stateErr,   \* the conversation or checkpoint compensation failed
  compErr,    \* the compensation of some file failed
  turns, edits, disturbed,  \* counters for the bounds
  litter,     \* history: the temporaries whose removal failed and was ignored,
              \* or which were left with no manifest that names them
  orderly     \* history: nothing else was begun while a manifest was committing,
              \* no undo was begun after a later turn, no transaction over
              \* messages a failed save kept off the disk, and no restart lost
              \* what such a save had missed or revived a dropped checkpoint

store == <<disk, tmp, bak>>
checkpoints == <<ckpt, ckptDisk>>
session == <<conv, convDisk, checkpoints>>
control == <<pc, at, todo, pass, stateErr, compErr>>
counters == <<turns, edits, orderly, litter>>
vars == <<store, txs, cur, mem, lastUndo, session, control, counters,
          disturbed>>

-----------------------------------------------------------------------------
(* Manifests *)

TxIds == 1..MaxTransactions
WantsFiles(scope) == scope \in {"code", "both"}
WantsConversation(scope) == scope \in {"conversation", "both"}

M == mem[1]                            \* the manifest being executed
IsWrite(f) == M.restore[f] # Absent    \* Action "write"; otherwise "delete"
Unpublished == M.paths \ M.published

\* Committed rewinds that no committed undo names as its parent; the newest of
\* them is what a restart offers for undo.
UndoCandidates ==
  {n \in DOMAIN txs :
     /\ txs[n].state = "committed" /\ txs[n].kind = "rewind"
     /\ \A u \in DOMAIN txs : ~(txs[u].kind = "undo" /\ txs[u].state = "committed"
                                /\ txs[u].parent = n)}

(* Checkpoints: earliestRevisionsLocked keeps the first preimage and the last
   ownership identity of every path touched at or after a turn. *)
TurnsOf(cs) == {c.turn : c \in cs}
CheckpointOf(t) == CHOOSE c \in ckpt : c.turn = t
Touching(t, f) == {c.turn : c \in {d \in ckpt : d.turn >= t /\ f \in d.touched}}
TouchedFrom(t) == {f \in Files : Touching(t, f) # {}}
\* Wrong on purpose: the last preimage instead of the first.
LatestPre(t, f) == CheckpointOf(Max(Touching(t, f))).pre[f]
EarliestPre(t, f) == CheckpointOf(Min(Touching(t, f))).pre[f]
LastOwned(t, f) == CheckpointOf(Max(Touching(t, f))).post[f]
\* The last turn to touch f recorded how it left it: CaptureAfter ran.
Identified(t, f) == f \in CheckpointOf(Max(Touching(t, f))).owned

CheckpointsFrom(t) == {c \in ckpt : c.turn >= t}       \* backupCheckpointsFrom
\* Wrong on purpose: keeps the checkpoint of the turn itself.
TruncatedAfter(t) == {c \in ckpt : c.turn <= t}
TruncatedAt(t) == {c \in ckpt : c.turn < t}             \* TruncateFrom
\* TruncateFrom removes the files of the listed turns, in no particular order.
Truncate(t) ==
  /\ ckpt' = TruncatedAt(t)
  /\ ckptDisk' = {c \in ckptDisk : c.turn \notin TurnsOf(CheckpointsFrom(t))}
HalfTruncated(t) ==
  {{c \in ckptDisk : c.turn \notin gone} : gone \in SUBSET TurnsOf(CheckpointsFrom(t))}
\* restoreCheckpointBackup: by turn, the backed-up checkpoint wins.
Over(backup, cs) == backup \cup {c \in cs : c.turn \notin TurnsOf(backup)}
Merge(backup) == Over(backup, ckpt)
Restore(backup) == ckpt' = Merge(backup) /\ ckptDisk' = Over(backup, ckptDisk)
HalfRestored(backup) ==
  {Over({c \in backup : c.turn <= t}, ckptDisk) : t \in TurnsOf(backup) \cup {0}}
NextTurn == 1 + Max(TurnsOf(ckpt) \cup {0})
Upto(seq, n) == SubSeq(seq, 1, n)

-----------------------------------------------------------------------------
(* Outcomes of a system call *)

Calm == UNCHANGED disturbed
Fault == disturbed < MaxDisturbances /\ disturbed' = disturbed + 1

Persist(m) == mem' = <<m>> /\ txs' = [txs EXCEPT ![cur] = m]
PersistFails(m) == mem' = <<m>> /\ UNCHANGED txs

\* failTransaction: compensate every target, last path first.
\* Wrong on purpose: the target that was being published is not revisited.
CompensateOthers == pc' = "comp" /\ todo' = M.paths \ {at}
Compensate == pc' = "comp" /\ todo' = M.paths
\* ... after first compensating the conversation and the checkpoints.
\* Wrong on purpose: conversation and checkpoints are not put back.
CompensateFilesOnly == pc' = "comp" /\ todo' = M.paths
CompensateState == pc' = "stateConv" /\ todo' = M.paths

Init ==
  /\ disk \in [Files -> {Absent, Base}]
  /\ tmp = [n \in TxIds |-> [f \in Files |-> Absent]]
  /\ bak = [n \in TxIds |-> [f \in Files |-> Absent]]
  /\ txs = <<>> /\ cur = 0 /\ mem = <<>> /\ lastUndo = 0
  /\ conv = <<>> /\ convDisk = <<>> /\ ckpt = {} /\ ckptDisk = {}
  /\ pc = "idle" /\ at = 0 /\ todo = {} /\ pass = "run"
  /\ stateErr = FALSE /\ compErr = FALSE
  /\ turns = 0 /\ edits = 0 /\ disturbed = 0
  /\ litter = {} /\ orderly = TRUE

-----------------------------------------------------------------------------
(* The environment: turns, the user's edits, crashes and restarts *)

NoManifestCommitting == \A n \in DOMAIN txs : txs[n].state # "committing"
NoTurnSince(m) == turns = m.when

\* What a turn makes of the files, and the checkpoint Begin opens for it: every
\* file is captured before it is touched, and identified when that is done.
Worked(written, deleted) ==
  [f \in Files |-> IF f \in deleted THEN Absent
                  ELSE IF f \in written THEN TurnImage(turns + 1) ELSE disk[f]]
Opened(touched, owned, saved) ==
  [turn |-> NextTurn, boundary |-> Len(conv), began |-> turns + 1,
   touched |-> touched, owned |-> owned, pre |-> disk, post |-> disk', saved |-> saved]

\* persistBestEffort, at Begin and at every capture.  When it fails the
\* file is as an earlier save left it, with fewer captures, or missing.
Save(c) == ckpt' = ckpt \cup {c} /\ ckptDisk' = Over({c}, ckptDisk)
SaveFails(c) ==
  /\ ckpt' = ckpt \cup {c}
  /\ \/ UNCHANGED ckptDisk
     \/ \E some \in SUBSET c.touched, those \in SUBSET c.owned :
          ckptDisk' = Over({[c EXCEPT !.touched = some, !.owned = some \cap those]}, ckptDisk)

\* A turn runs to its end.  Begin also drops the undo slot; the transcript is
\* saved when all is over.
Turn(touched, deleted) ==
  /\ pc = "idle" /\ turns < MaxTurns /\ turns' = turns + 1
  /\ \A f \in deleted : disk[f] # Absent
  /\ disk' = Worked(touched, deleted)
  /\ conv' = Append(conv, turns + 1)
  /\ \/ Calm /\ Save(Opened(touched, touched, TRUE)) /\ convDisk' = conv'
     \/ Fault /\ SaveFails(Opened(touched, touched, FALSE)) /\ convDisk' = conv'
     \/ Fault /\ Save(Opened(touched, touched, TRUE)) /\ UNCHANGED convDisk
  /\ lastUndo' = 0
  /\ orderly' = (orderly /\ NoManifestCommitting)
  /\ UNCHANGED <<tmp, bak, txs, cur, mem, control, edits, litter>>

\* The UserPromptSubmit hook blocks the prompt: the checkpoint is there, and
\* no message.
BlockedTurn ==
  /\ pc = "idle" /\ turns < MaxTurns /\ turns' = turns + 1
  /\ UNCHANGED <<disk, conv, convDisk>>
  /\ \/ Calm /\ Save(Opened({}, {}, TRUE))
     \/ Fault /\ SaveFails(Opened({}, {}, FALSE))
  /\ lastUndo' = 0
  /\ orderly' = (orderly /\ NoManifestCommitting)
  /\ UNCHANGED <<tmp, bak, txs, cur, mem, control, edits, litter>>

\* The user edits, creates or deletes a file while no transaction is running:
\* between two operations, or while the program is down.
ExternalEdit(f, image) ==
  /\ pc \in {"idle", "down"} /\ edits < MaxEdits
  /\ disk' = [disk EXCEPT ![f] = image]
  /\ edits' = edits + 1
  /\ orderly' = (orderly /\ NoManifestCommitting)
  /\ UNCHANGED <<tmp, bak, txs, cur, mem, lastUndo, session, control, turns,
                 litter, disturbed>>

\* The step in hand rewrites the checkpoint files: forwards or compensating.
Truncating ==
  WantsConversation(M.scope) /\ pc = (IF M.kind = "undo" THEN "stateCkpt" ELSE "ckpts")
Restoring ==
  WantsConversation(M.scope) /\ pc = (IF M.kind = "undo" THEN "ckpts" ELSE "stateCkpt")
HalfDone ==
  IF pc \notin {"ckpts", "stateCkpt"} THEN {ckptDisk}
  ELSE IF Truncating THEN HalfTruncated(M.turn)
  ELSE IF Restoring THEN HalfRestored(M.backup) ELSE {ckptDisk}

\* The checkpoints a recovery will restore or remove.
BackedUp == UNION {txs[n].backup : n \in {i \in DOMAIN txs : txs[i].state = "committing"}}
\* Files of checkpoints that are not listed: what an undo leaves behind that failed
\* halfway through restoring them, or a turn that could not save.
Leftover == ckptDisk \ (ckpt \cup BackedUp)
Lost == ckpt \ (ckptDisk \cup BackedUp)
\* A restart finds what the program had in memory.
Resumable == Leftover = {} /\ Lost = {} /\ (pc = "idle" => convDisk = conv)

Stop(files) ==
  /\ pc' = "down" /\ cur' = 0 /\ mem' = <<>> /\ lastUndo' = 0
  /\ at' = 0 /\ todo' = {} /\ pass' = "run" /\ stateErr' = FALSE /\ compErr' = FALSE
  /\ conv' = convDisk
  /\ ckptDisk' \in files /\ ckpt' = ckptDisk'
  /\ orderly' = (orderly /\ Resumable)
  /\ UNCHANGED <<store, txs, convDisk, turns, edits, litter>>

\* The process dies; only what is on disk survives.
Crash == pc \notin {"idle", "down"} /\ Fault /\ Stop(HalfDone)

\* The store is rebuilt with nothing in flight: a restart, or a rebuilt tab.
Shutdown == pc = "idle" /\ Calm /\ Stop({ckptDisk})

\* The process dies in the middle of a turn.  Some of the files it had captured
\* are written, some of those identified; the prompt may have been saved.
BrokenTurn(touched, written, deleted, owned) ==
  /\ pc = "idle" /\ turns < MaxTurns /\ turns' = turns + 1 /\ Fault
  /\ \A f \in deleted : disk[f] # Absent
  /\ disk' = Worked(written, deleted)
  /\ ckptDisk' = Over({Opened(touched, owned, TRUE)}, ckptDisk) /\ ckpt' = ckptDisk'
  /\ convDisk' \in {convDisk, Append(conv, turns + 1)} /\ conv' = convDisk'
  /\ pc' = "down" /\ lastUndo' = 0
  /\ orderly' = (orderly /\ NoManifestCommitting /\ Resumable)
  /\ UNCHANGED <<tmp, bak, txs, cur, mem, at, todo, pass, stateErr, compErr, edits,
                 litter>>

\* New loads the checkpoints and runs the files-only recovery pass.
Start ==
  /\ pc = "down" /\ pc' = "scan" /\ pass' = "filesOnly"
  /\ UNCHANGED <<store, txs, cur, mem, lastUndo, session, at, todo, stateErr,
                 compErr, counters, disturbed>>

-----------------------------------------------------------------------------
(* Preparing *)

\* Wrong on purpose: the boundary is one message short.
RewindManifestShort(t, scope) ==
  [kind |-> "rewind", state |-> "prepared", parent |-> 0, scope |-> scope,
   turn |-> t, boundary |-> CheckpointOf(t).boundary - 1, forward |-> conv, when |-> turns,
   backup |-> IF WantsConversation(scope) THEN CheckpointsFrom(t) ELSE {},
   paths |-> IF WantsFiles(scope) THEN TouchedFrom(t) ELSE {}, published |-> {},
   restore |-> disk, fwd |-> disk]

RewindManifest(t, scope) ==
  [kind |-> "rewind", state |-> "prepared", parent |-> 0, scope |-> scope,
   turn |-> t, boundary |-> CheckpointOf(t).boundary, forward |-> conv, when |-> turns,
   backup |-> IF WantsConversation(scope) THEN CheckpointsFrom(t) ELSE {},
   paths |-> IF WantsFiles(scope) THEN TouchedFrom(t) ELSE {}, published |-> {},
   restore |-> [f \in Files |-> IF f \in TouchedFrom(t) THEN EarliestPre(t, f)
                                ELSE disk[f]],
   fwd |-> disk]

\* One file back to its first preimage.  The code saves no transcript with it.
FileRevertManifest(f) ==
  [kind |-> "rewind", state |-> "prepared", parent |-> 0, scope |-> "file",
   turn |-> 1, boundary |-> 0, forward |-> conv, when |-> turns, backup |-> {},
   paths |-> {f}, published |-> {},
   restore |-> [disk EXCEPT ![f] = EarliestPre(1, f)], fwd |-> disk]

UndoManifest(n) ==
  [txs[n] EXCEPT !.kind = "undo", !.state = "prepared", !.parent = n,
                 !.published = {}, !.restore = txs[n].fwd, !.fwd = txs[n].restore]

\* What PrepareRewind and precheckFiles demand before anything is written.  A file
\* whose last toucher did not identify it is not compared.
RewindAllowed(t, scope) ==
  /\ WantsFiles(scope) =>
       \A f \in TouchedFrom(t) : Identified(t, f) => disk[f] = LastOwned(t, f)
  /\ scope = "code" => TouchedFrom(t) # {}

\* What UndoRewind demands: every file is still as the rewind published it.
UndoAllowed(n) ==
  /\ n # 0 /\ txs[n].state = "committed"
  /\ \A f \in txs[n].paths : disk[f] = txs[n].restore[f]

\* Write the manifest and the publish temporaries of its write targets.
StageAs(m) ==
  LET n == Len(txs) + 1
  IN /\ pc = "idle" /\ n <= MaxTransactions
     /\ txs' = Append(txs, m)
     /\ tmp' = [tmp EXCEPT ![n] = [f \in Files |->
                  IF f \in m.paths THEN m.restore[f] ELSE Absent]]
     /\ orderly' = (orderly /\ NoManifestCommitting /\ convDisk = conv
                    /\ (m.kind = "undo" => NoTurnSince(m)))
     /\ UNCHANGED <<disk, bak, lastUndo, session, at, todo, pass, stateErr, compErr,
                    turns, edits, litter>>

Begin(m) == StageAs(m) /\ Calm /\ pc' = "prepared" /\ cur' = Len(txs) + 1 /\ mem' = <<m>>

\* A call fails while the temporaries are written or before the manifest is.  They
\* are removed as far as that goes; no manifest, or an aborted one, names
\* the rest.  With a Shutdown after it, this is also a crash at such a moment.
Abandon(m, states) ==
  LET n == Len(txs) + 1
  IN /\ pc = "idle" /\ n <= MaxTransactions /\ Fault
     /\ \E state \in states : txs' = Append(txs, [m EXCEPT !.state = state])
     /\ \E left \in SUBSET {f \in m.paths : m.restore[f] # Absent} :
          /\ tmp' = [tmp EXCEPT ![n] = [f \in Files |->
                       IF f \in left THEN m.restore[f] ELSE Absent]]
          /\ litter' = litter \cup ({n} \X left)
     /\ UNCHANGED <<disk, bak, cur, mem, lastUndo, session, control, turns, edits, orderly>>

PrepareTransaction(t, scope) ==
  /\ RewindAllowed(t, scope)
  /\ \/ Begin(RewindManifest(t, scope))
     \/ Abandon(RewindManifest(t, scope), {"aborted"})
     \* The second persist, which adds the forward transcript, fails: the
     \* prepared manifest and its temporaries stay behind for recovery.
     \/ StageAs(RewindManifest(t, scope)) /\ Fault /\ UNCHANGED <<pc, cur, mem>>

\* CommitFileRevert.  The user may resolve a conflict by overwriting what is there,
\* so nothing is asked of the file but that the session has identified it.  Its
\* error returns remove nothing.
FileRevert(f) ==
  /\ "file" \in Scopes /\ f \in TouchedFrom(1) /\ Identified(1, f)
  /\ Begin(FileRevertManifest(f)) \/ Abandon(FileRevertManifest(f), {"aborted"})

\* The undo persists its manifest before it stages anything; the persist that
\* aborts it after a failure may fail as well.
UndoRewind(n) ==
  /\ n = lastUndo /\ UndoAllowed(n)
  /\ Begin(UndoManifest(n)) \/ Abandon(UndoManifest(n), {"aborted", "prepared"})

-----------------------------------------------------------------------------
(* Committing: files first, one path at a time *)

BeginCommit ==
  /\ pc = "prepared"
  /\ LET m == [M EXCEPT !.state = "committing"]
     IN \/ Calm /\ Persist(m) /\ pc' = "intent" /\ UNCHANGED todo
        \/ Fault /\ PersistFails(m) /\ Compensate
  /\ UNCHANGED <<store, cur, lastUndo, session, at, pass, stateErr, compErr,
                 counters>>

\* Persist "may have published" before the first rename of the next path.
PersistIntent ==
  /\ pc = "intent" /\ Unpublished # {}
  /\ LET f == Min(Unpublished)
     IN \/ /\ Calm /\ Persist([M EXCEPT !.published = @ \cup {f}])
           /\ at' = f /\ pc' = "backup" /\ UNCHANGED todo
        \/ Fault /\ PersistFails(M) /\ Compensate /\ UNCHANGED at
  /\ UNCHANGED <<store, cur, lastUndo, session, pass, stateErr, compErr,
                 counters>>

\* publishTarget, first rename: the target moves to its backup path.
BackupTarget ==
  /\ pc = "backup"
  /\ \/ /\ Calm
        /\ disk' = [disk EXCEPT ![at] = Absent]
        /\ bak' = [bak EXCEPT ![cur][at] = disk[at]]
        /\ pc' = IF IsWrite(at) THEN "publish" ELSE "progress"
        /\ UNCHANGED todo
     \/ Fault /\ Compensate /\ UNCHANGED <<disk, bak>>
  /\ UNCHANGED <<tmp, txs, cur, mem, lastUndo, session, at, pass, stateErr, compErr,
                 counters>>

\* publishTarget, second rename: the temporary becomes the target.  When it
\* fails the backup is moved back, which may fail as well.
PublishTarget ==
  /\ pc = "publish"
  /\ \/ /\ Calm /\ pc' = "progress" /\ UNCHANGED <<bak, todo>>
        /\ disk' = [disk EXCEPT ![at] = tmp[cur][at]]
        /\ tmp' = [tmp EXCEPT ![cur][at] = Absent]
     \/ /\ Fault /\ Compensate /\ UNCHANGED tmp
        /\ \/ /\ disk' = [disk EXCEPT ![at] = bak[cur][at]]
              /\ bak' = [bak EXCEPT ![cur][at] = Absent]
           \/ UNCHANGED <<disk, bak>>
  /\ UNCHANGED <<txs, cur, mem, lastUndo, session, at, pass, stateErr, compErr,
                 counters>>

\* The persist after each published path, which also detects a dead disk.
PersistProgress ==
  /\ pc = "progress"
  /\ \/ Calm /\ pc' = "intent" /\ UNCHANGED todo
     \/ Fault /\ Compensate
  /\ UNCHANGED <<store, txs, cur, mem, lastUndo, session, at, pass, stateErr, compErr,
                 counters>>

\* All published; a rewind persists once more before it goes on.
FilesDone ==
  /\ pc = "intent" /\ Unpublished = {}
  /\ \/ /\ Calm /\ UNCHANGED todo
        /\ pc' = IF WantsConversation(M.scope) \/ (M.kind = "undo" /\ M.scope # "file")
                 THEN "convo" ELSE "finalize"
     \/ M.kind = "rewind" /\ Fault /\ Compensate
  /\ UNCHANGED <<store, txs, cur, mem, lastUndo, session, at, pass, stateErr, compErr,
                 counters>>

-----------------------------------------------------------------------------
(* Committing: conversation, then checkpoints, then the verdict *)

\* ApplyConversationTruncate.  A conversation shorter than the boundary is
\* refused untouched; when the truncated one cannot be saved the forward
\* transcript is reinstalled in memory, and the disk still holds the old one.
TooShort == M.boundary > Len(conv)
TruncateConversation ==
  ~TooShort /\ Calm /\ conv' = Upto(conv, M.boundary) /\ convDisk' = conv'
TruncateFails ==
  \/ ~TooShort /\ Fault /\ conv' = M.forward /\ UNCHANGED convDisk
  \/ TooShort /\ Calm /\ UNCHANGED <<conv, convDisk>>

\* RestoreConversation; when it cannot save, only memory has the transcript.
RestoreConversation == Calm /\ conv' = M.forward /\ convDisk' = M.forward
RestoreFails == Fault /\ conv' = M.forward /\ UNCHANGED convDisk

\* A rewind truncates, an undo restores; compensating does the opposite.
\* Wrong on purpose: an undo truncates like a rewind.
ForwardsAlways == TruncateConversation
Forwards == IF M.kind = "undo" THEN RestoreConversation ELSE TruncateConversation
ForwardsFails == IF M.kind = "undo" THEN RestoreFails ELSE TruncateFails
Backwards == IF M.kind = "undo" THEN TruncateConversation ELSE RestoreConversation
BackwardsFails == IF M.kind = "undo" THEN TruncateFails ELSE RestoreFails

CommitConversation ==
  /\ pc = "convo"
  /\ \/ Forwards /\ pc' = "ckpts" /\ UNCHANGED todo
     \/ ForwardsFails /\ CompensateState
  /\ UNCHANGED <<store, txs, cur, mem, lastUndo, checkpoints, at, pass, stateErr, compErr,
                 counters>>

CommitCheckpoints ==
  /\ pc = "ckpts"
  /\ \/ /\ Calm /\ pc' = "finalize" /\ UNCHANGED todo
        /\ \/ Truncating /\ Truncate(M.turn)
           \/ Restoring /\ Restore(M.backup)
           \/ ~WantsConversation(M.scope) /\ UNCHANGED checkpoints
     \/ /\ Fault /\ CompensateState /\ WantsConversation(M.scope)
        /\ ckptDisk' \in HalfDone /\ UNCHANGED ckpt
  /\ UNCHANGED <<store, txs, cur, mem, lastUndo, conv, convDisk, at, pass, stateErr,
                 compErr, counters>>

\* The commit point: the manifest becomes "committed".
Finalize ==
  /\ pc = "finalize"
  /\ LET m == [M EXCEPT !.state = "committed"]
     IN \/ /\ Calm /\ txs' = [txs EXCEPT ![cur] = m] /\ UNCHANGED todo
           /\ IF M.kind = "undo"
              THEN pc' = "mark" /\ mem' = <<m>> /\ UNCHANGED <<cur, lastUndo>>
              ELSE pc' = "idle" /\ mem' = <<>> /\ cur' = 0 /\ lastUndo' = cur
        \/ Fault /\ PersistFails(m) /\ CompensateState /\ UNCHANGED <<cur, lastUndo>>
  /\ UNCHANGED <<store, session, at, pass, stateErr, compErr, counters>>

\* A committed undo marks its parent; a failure here is only logged.
MarkUndone ==
  /\ pc = "mark"
  /\ \/ Calm /\ txs' = [txs EXCEPT ![M.parent].state = "undone"]
     \/ Fault /\ UNCHANGED txs
  /\ pc' = "idle" /\ cur' = 0 /\ mem' = <<>> /\ lastUndo' = 0
  /\ UNCHANGED <<store, session, at, todo, pass, stateErr, compErr, counters>>

-----------------------------------------------------------------------------
(* Compensation, in the process that failed or in a later one *)

\* Conversation: back to the forward transcript for a rewind, truncated again
\* for an undo.
CompensateConversation ==
  /\ pc = "stateConv" /\ pc' = "stateCkpt"
  /\ IF ~WantsConversation(M.scope) /\ (M.kind = "undo" \/ M.scope = "file")
     THEN Calm /\ UNCHANGED <<conv, convDisk, stateErr>>
     ELSE \/ Backwards /\ UNCHANGED stateErr
          \/ BackwardsFails /\ stateErr' = TRUE
  /\ UNCHANGED <<store, txs, cur, mem, lastUndo, checkpoints, at, todo, pass, compErr,
                 counters>>

\* Checkpoints likewise; both are attempted and the errors joined.  A recovery
\* whose state side failed leaves the files for the next startup.
CompensateCheckpoints ==
  /\ pc = "stateCkpt"
  /\ IF ~WantsConversation(M.scope)
     THEN Calm /\ UNCHANGED <<checkpoints, stateErr>>
     ELSE \/ /\ Calm /\ UNCHANGED stateErr
             /\ \/ Truncating /\ Truncate(M.turn)
                \/ Restoring /\ Restore(M.backup)
          \/ Fault /\ stateErr' = TRUE /\ ckptDisk' \in HalfDone /\ UNCHANGED ckpt
  /\ pc' = IF pass # "run" /\ stateErr' THEN "verdict" ELSE "comp"
  /\ UNCHANGED <<store, txs, cur, mem, lastUndo, conv, convDisk, at, todo, pass,
                 compErr, counters>>

\* compensatePublished visits the targets from the last to the first.
Visiting(f) == pc = "comp" /\ todo # {} /\ f = Max(todo)
Visited(f) == pc' = "comp" /\ todo' = todo \ {f}
Untouched == <<txs, cur, mem, lastUndo, session, at, pass, stateErr, counters>>

AtForward(f) == disk[f] = M.fwd[f]
\* Wrong on purpose: whatever is there counts as published by the transaction.
AtAnything(f) == TRUE
AtRestore(f) == disk[f] = M.restore[f]
\* Between the two renames of publishTarget: target absent, its image in the
\* backup, the temporary still waiting.
\* Wrong on purpose: the state between the two renames is not recognised.
NeverBetweenRenames(f) == FALSE
BetweenRenames(f) ==
  /\ M.fwd[f] # Absent /\ disk[f] = Absent /\ bak[cur][f] = M.fwd[f]
  /\ IsWrite(f) => tmp[cur][f] # Absent

\* Never published, or already back at its forward image: drop the temporary.
\* Wrong on purpose: the temporary is forgotten.
CompensateNothingAtAll(f) ==
  /\ Visiting(f) /\ (f \notin M.published \/ AtForward(f))
  /\ Visited(f) /\ Calm /\ UNCHANGED <<store, compErr, Untouched>>

CompensateNothing(f) ==
  /\ Visiting(f) /\ (f \notin M.published \/ AtForward(f))
  /\ \/ Calm /\ tmp' = [tmp EXCEPT ![cur][f] = Absent] /\ UNCHANGED litter
     \* The removal fails, and nobody asks.
     \/ tmp[cur][f] # Absent /\ Fault /\ UNCHANGED tmp /\ litter' = litter \cup {<<cur, f>>}
  /\ Visited(f)
  /\ UNCHANGED <<disk, bak, compErr, txs, cur, mem, lastUndo, session, at, pass,
                 stateErr, turns, edits, orderly>>

\* The target cannot be fingerprinted: an error, and the manifest stays pending.
CompensateUnread(f) ==
  /\ Visiting(f) /\ f \in M.published
  /\ Fault /\ compErr' = TRUE
  /\ Visited(f) /\ UNCHANGED <<store, Untouched>>

CompensateRename(f) ==
  /\ Visiting(f) /\ f \in M.published /\ ~AtForward(f) /\ BetweenRenames(f)
  /\ \/ /\ Calm /\ UNCHANGED compErr
        /\ disk' = [disk EXCEPT ![f] = bak[cur][f]]
        /\ bak' = [bak EXCEPT ![cur][f] = Absent]
        /\ tmp' = [tmp EXCEPT ![cur][f] = Absent]
     \* The rename fails, or the removal of the temporary after it.
     \/ /\ Fault /\ compErr' = TRUE /\ UNCHANGED tmp
        /\ \/ UNCHANGED <<disk, bak>>
           \/ /\ IsWrite(f)
              /\ disk' = [disk EXCEPT ![f] = bak[cur][f]]
              /\ bak' = [bak EXCEPT ![cur][f] = Absent]
  /\ Visited(f) /\ UNCHANGED Untouched

\* Neither image: someone else's content, preserved, with a recovery copy
\* beside it; the manifest stays pending.
CompensateForeign(f) ==
  /\ Visiting(f) /\ f \in M.published
  /\ ~AtForward(f) /\ ~BetweenRenames(f) /\ ~AtRestore(f)
  /\ compErr' = TRUE
  /\ Visited(f) /\ Calm /\ UNCHANGED <<store, Untouched>>

\* The restore image was published: remove it, then move the backup (or a
\* rewritten forward image) into place.  Two system calls.
CompensateRemove(f) ==
  /\ Visiting(f) /\ f \in M.published
  /\ ~AtForward(f) /\ ~BetweenRenames(f) /\ AtRestore(f)
  /\ \/ /\ Calm /\ disk' = [disk EXCEPT ![f] = Absent] /\ UNCHANGED compErr
        /\ IF M.fwd[f] = Absent
           THEN Visited(f) /\ UNCHANGED at
           ELSE pc' = "compMove" /\ at' = f /\ UNCHANGED todo
     \/ Fault /\ compErr' = TRUE /\ Visited(f) /\ UNCHANGED <<disk, at>>
  /\ UNCHANGED <<tmp, bak, txs, cur, mem, lastUndo, session, pass, stateErr, counters>>

CompensateMove ==
  /\ pc = "compMove"
  /\ \/ /\ Calm /\ UNCHANGED compErr
        /\ disk' = [disk EXCEPT ![at] = IF bak[cur][at] # Absent THEN bak[cur][at]
                                        ELSE M.fwd[at]]
        /\ bak' = [bak EXCEPT ![cur][at] = Absent]
     \/ Fault /\ compErr' = TRUE /\ UNCHANGED <<disk, bak>>
  /\ Visited(at)
  /\ UNCHANGED <<tmp, Untouched>>

CompensationDone ==
  /\ pc = "comp" /\ todo = {} /\ pc' = "verdict"
  /\ UNCHANGED <<store, txs, cur, mem, lastUndo, session, at, todo, pass, stateErr,
                 compErr, counters, disturbed>>

\* Aborted when every side was compensated; otherwise the manifest stays
\* committing for the next startup.
Verdict ==
  /\ pc = "verdict"
  /\ LET m == [M EXCEPT !.state = IF stateErr \/ compErr THEN "committing" ELSE "aborted"]
     IN \/ Calm /\ txs' = [txs EXCEPT ![cur] = m]
        \/ Fault /\ UNCHANGED txs
  /\ mem' = <<>> /\ stateErr' = FALSE /\ compErr' = FALSE /\ todo' = {}
  /\ IF pass = "run" THEN pc' = "idle" /\ cur' = 0 ELSE pc' = "scan" /\ UNCHANGED cur
  /\ UNCHANGED <<store, lastUndo, session, at, pass, counters>>

-----------------------------------------------------------------------------
(* Startup recovery: a files-only pass, then one with the conversation *)

\* What a pass of recoverTransactions acts on, in the order of the ids.
Recoverable(n) ==
  \/ txs[n].state = "prepared"
  \/ /\ txs[n].state = "committing"
     /\ pass = "withConversation" \/ ~WantsConversation(txs[n].scope)
\* Wrong on purpose: a pass does not move past a manifest it could not settle.
RemainingForever == {n \in DOMAIN txs : Recoverable(n)}
Remaining == {n \in DOMAIN txs : n > cur /\ Recoverable(n)}

\* Never published: discard the temporaries and abort.  A removal that fails is
\* ignored.
RecoverPrepared ==
  /\ pc = "scan" /\ Remaining # {}
  /\ LET n == Min(Remaining)
     IN /\ txs[n].state = "prepared"
        /\ cur' = n
        /\ \E left \in SUBSET {f \in Files : tmp[n][f] # Absent} :
             /\ tmp' = [tmp EXCEPT ![n] = [f \in Files |->
                          IF f \in left THEN tmp[n][f] ELSE Absent]]
             /\ litter' = litter \cup ({n} \X left)
             /\ \/ Calm /\ left = {} /\ txs' = [txs EXCEPT ![n].state = "aborted"]
                \/ Fault /\ txs' \in {txs, [txs EXCEPT ![n].state = "aborted"]}
  /\ UNCHANGED <<disk, bak, mem, lastUndo, session, control, turns, edits, orderly>>

RecoverCommitting ==
  /\ pc = "scan" /\ Remaining # {}
  /\ LET n == Min(Remaining)
     IN /\ txs[n].state = "committing"
        /\ cur' = n /\ mem' = <<txs[n]>> /\ todo' = txs[n].paths
        /\ pc' = IF WantsConversation(txs[n].scope) THEN "stateConv" ELSE "comp"
  /\ UNCHANGED <<store, txs, lastUndo, session, at, pass, stateErr, compErr, counters,
                 disturbed>>

\* The end of a pass: the newest committed, not undone rewind becomes undoable.
PassDone ==
  /\ pc = "scan" /\ Remaining = {}
  /\ cur' = 0
  /\ lastUndo' = IF UndoCandidates = {} THEN 0 ELSE Max(UndoCandidates)
  /\ IF pass = "filesOnly" THEN pass' = "withConversation" /\ UNCHANGED pc
     ELSE pass' = "run" /\ pc' = "idle"
  /\ UNCHANGED <<store, txs, mem, session, at, todo, stateErr, compErr, counters,
                 disturbed>>

-----------------------------------------------------------------------------
Commit ==
  \/ BeginCommit \/ PersistIntent \/ BackupTarget \/ PublishTarget
  \/ PersistProgress \/ FilesDone
  \/ CommitConversation \/ CommitCheckpoints \/ Finalize \/ MarkUndone

CompensateFile ==
  \/ \E f \in Files : \/ CompensateNothing(f) \/ CompensateUnread(f) \/ CompensateRename(f)
                      \/ CompensateForeign(f) \/ CompensateRemove(f)
  \/ CompensateMove

Recover ==
  \/ CompensateConversation \/ CompensateCheckpoints \/ CompensateFile
  \/ CompensationDone \/ Verdict
  \/ Start \/ RecoverPrepared \/ RecoverCommitting \/ PassDone

Environment ==
  \/ \E touched \in SUBSET Files : \E deleted \in SUBSET touched : Turn(touched, deleted)
  \/ BlockedTurn
  \/ \E touched \in SUBSET Files : \E written \in SUBSET touched :
       \E deleted, owned \in SUBSET written : BrokenTurn(touched, written, deleted, owned)
  \/ \E f \in Files : \E image \in {Absent, EditImage(edits + 1)} : ExternalEdit(f, image)
  \/ Crash \/ Shutdown

Request ==
  \/ \E t \in TurnsOf(ckpt), scope \in Scopes \ {"file"} : PrepareTransaction(t, scope)
  \/ \E f \in Files : FileRevert(f)
  \/ UndoRewind(lastUndo)

Next == Environment \/ Request \/ Commit \/ Recover

\* The goroutine that runs a transaction, and the startup, run to their end.
Fairness == WF_vars(Commit) /\ WF_vars(Recover)
Spec == Init /\ [][Next]_vars /\ Fairness

-----------------------------------------------------------------------------
(* Properties *)

Images == [Files -> Image]
Checkpoint ==
  [turn : Nat, boundary : Nat, began : Nat, touched : SUBSET Files, owned : SUBSET Files,
   pre : Images, post : Images, saved : BOOLEAN]
Manifest ==
  [kind : {"rewind", "undo"},
   state : {"prepared", "committing", "committed", "aborted", "undone"},
   parent : Nat, scope : Scopes, turn : Nat, boundary : Nat,
   forward : Seq(Nat), when : Nat, backup : SUBSET Checkpoint,
   paths : SUBSET Files, published : SUBSET Files, restore : Images, fwd : Images]

\* Every variable has its type.
TypeOK ==
  /\ disk \in Images
  /\ tmp \in [TxIds -> Images] /\ bak \in [TxIds -> Images]
  /\ txs \in Seq(Manifest) /\ Len(txs) <= MaxTransactions
  /\ cur \in 0..Len(txs) /\ lastUndo \in 0..Len(txs)
  /\ mem \in Seq(Manifest) /\ Len(mem) <= 1
  /\ conv \in Seq(Nat) /\ convDisk \in Seq(Nat) /\ ckpt \subseteq Checkpoint
  /\ ckptDisk \subseteq Checkpoint
  /\ pc \in {"idle", "prepared", "intent", "backup", "publish", "progress", "convo",
             "ckpts", "finalize", "mark", "stateConv", "stateCkpt", "comp", "compMove",
             "verdict", "down", "scan"}
  /\ at \in Files \cup {0} /\ todo \subseteq Files
  /\ pass \in {"run", "filesOnly", "withConversation"}
  /\ stateErr \in BOOLEAN /\ compErr \in BOOLEAN /\ orderly \in BOOLEAN
  /\ turns \in 0..MaxTurns /\ edits \in 0..MaxEdits /\ litter \subseteq TxIds \X Files
  /\ disturbed \in 0..MaxDisturbances

(* Four of the properties below are stated for orderly histories: what happens
   when the session goes on over a manifest that recovery could not settle, or
   when an undo outlives a restart, is the subject of LaterWorkKept; what a
   restart makes of Leftover, of the README. *)

ConversationAt(m, forward) ==      \* the conversation at one end of m
  WantsConversation(m.scope) =>
    LET want == IF forward THEN m.forward ELSE Upto(m.forward, m.boundary)
    IN conv = want /\ convDisk = want

\* A transaction becomes committed only in a state in which every file has its
\* restore image and the conversation, in memory and on disk, is at the same
\* end: commitTransaction and commitUndoTransaction publish everything first.
CommitIsWhole ==
  [][\A n \in DOMAIN txs :
       txs[n].state # "committed" /\ txs'[n].state = "committed" =>
         /\ \A f \in txs[n].paths : disk[f] = txs[n].restore[f]
         /\ ConversationAt(txs[n], txs[n].kind = "undo")]_vars

\* A transaction becomes aborted only in a state in which every file it may
\* have published has its forward image again and the conversation is back
\* where the transaction found it, whichever call failed and wherever it died.
AbortIsWhole ==
  [][\A n \in DOMAIN txs :
       orderly /\ txs[n].state = "committing" /\ txs'[n].state = "aborted" =>
         /\ \A f \in txs[n].published : disk[f] = txs[n].fwd[f]
         /\ ConversationAt(txs[n], txs[n].kind = "rewind")]_vars

\* A publish temporary that is left belongs to a manifest recovery will still
\* visit, unless the code itself passed over it: a removal whose error it
\* ignores, or a return before any manifest named it.  No crash, failed rename,
\* failed save or repeated recovery orphans one.
TemporariesOwned ==
  orderly => \A n \in TxIds, f \in Files :
    tmp[n][f] # Absent =>
      \/ <<n, f>> \in litter
      \/ n \in DOMAIN txs /\ txs[n].state \in {"prepared", "committing"}

Pending == {n \in DOMAIN txs : txs[n].state \in {"prepared", "committing"}}

\* With nothing in flight and nothing pending, whatever turns were blocked or cut
\* short and wherever a truncation stopped halfway: the recorded boundary of a
\* listed checkpoint cuts the conversation just before the first message of its
\* turn or of a later one, every message has the checkpoint of its turn, the
\* numbers of the checkpoints are in the order the turns began, and a restart will
\* find each that was saved.
CheckpointsMatchConversation ==
  orderly /\ pc = "idle" /\ Pending = {} =>
    /\ \A c \in ckpt :
         /\ c.boundary <= Len(conv)
         /\ \A i \in DOMAIN conv : i > c.boundary <=> conv[i] >= c.began
         /\ c.saved => c \in ckptDisk
    /\ \A i \in DOMAIN conv : \E c \in ckpt : c.began = conv[i]
    /\ \A c, d \in ckpt : c.turn < d.turn <=> c.began < d.began

Known(f) ==
  UNION {{txs[n].restore[f], txs[n].fwd[f]} : n \in {i \in DOMAIN txs : f \in txs[i].paths}}

\* No step of a transaction, a compensation or a recovery replaces or removes
\* a file whose content no manifest recorded, such as what the user wrote
\* between a crash and the restart.
ForeignContentKept ==
  [][\A f \in Files :
       turns' = turns /\ edits' = edits /\ disk[f] \notin Known(f) \cup {Absent} =>
         disk'[f] = disk[f]]_vars

\* One crash or one failing call never strands a transaction: once the program
\* is idle again no manifest is left committing, unless somebody else changed
\* the workspace in between.
OneFaultSettles ==
  pc = "idle" /\ disturbed <= 1 /\ orderly => NoManifestCommitting

\* A transaction or a recovery that began comes to an end: compensation and
\* recovery visit every target once and never wait for anything.
Completes == pc # "idle" ~> pc = "idle"

\* A restore keeps what it does not know of: no rewind, undo, compensation or
\* recovery drops a message the conversation gained after the transcript the
\* transaction saved, nor touches the files of a later, committed transaction.
LaterWorkKept ==
  [][mem # <<>> =>
       /\ Range(conv) \ Range(M.forward) \subseteq Range(conv')
       /\ \A n \in DOMAIN txs, f \in Files :
            cur < n /\ txs[n].state = "committed" /\ f \in txs[n].paths =>
              disk'[f] = disk[f]]_vars

\* A code rewind to a turn undoes every edit made at or after that turn: when it
\* is ready to commit, every file is what it was when the turn began.
CodeRewindUndoesEveryEdit ==
  pc = "finalize" /\ M.kind = "rewind" /\ WantsFiles(M.scope) /\ orderly /\ edits = 0 =>
    \A c \in ckpt \cup M.backup : c.turn = M.turn => disk = c.pre
=============================================================================
