----------------------- MODULE RewindTransactionProofs -----------------------
(***************************************************************************)
(* Theorems about RewindTransaction for any set of files and any bounds:   *)
(* types first, then what a transaction has done when it commits.  The     *)
(* siblings of a file (temporary and backup), its manifest and the file    *)
(* itself agree at every step, so that whatever fails and wherever the     *)
(* process dies, what is there tells recovery what to do.  In orderly      *)
(* histories, where nothing is begun over a manifest that is committing,   *)
(* it follows who owns the temporaries, where the conversation is, and     *)
(* what a transaction has undone when it is given up.                      *)
(***************************************************************************)
EXTENDS RewindTransaction, SequenceTheorems, WellFoundedInduction, TLAPS

-----------------------------------------------------------------------------
(* Least and greatest members *)

\* A nonempty set of naturals has a least member, and Min returns it.
LEMMA MinFacts ==
  ASSUME NEW S \in SUBSET Nat, S # {}
  PROVE  Min(S) \in S /\ \A y \in S : Min(S) <= y
<1> DEFINE R == OpToRel(<, Nat)
<1>1. IsWellFoundedOn(R, Nat)
  BY NatLessThanWellFounded
<1>2. \A x, y \in Nat : y < x => <<y, x>> \in R
  BY DEF OpToRel
<1> HIDE DEF R
<1>3. \E x \in S : \A y \in S : ~ (<<y, x>> \in R)
  BY <1>1, WFMin, Zenon
<1>4. \E x \in S : \A y \in S : x =< y
  <2>1. PICK x \in S : \A y \in S : ~ (<<y, x>> \in R)
    BY <1>3
  <2>2. \A y \in S : ~(y < x)
    BY <1>2, <2>1
  <2> QED
    BY <2>2
<1> QED
  BY <1>4 DEF Min

\* A nonempty set of naturals with an upper bound has a greatest member, and
\* Max returns it.
LEMMA MaxFacts ==
  ASSUME NEW k \in Nat, NEW S \in SUBSET (0..k), S # {}
  PROVE  Max(S) \in S /\ \A y \in S : Max(S) >= y
<1> DEFINE U == {u \in Nat : \A x \in S : x <= u}
<1>1. PICK m \in U : \A u \in U : m <= u
  <2>1. k \in U
    OBVIOUS
  <2> QED
    BY <2>1, MinFacts
<1>2. m \in Nat /\ \A x \in S : x \in Nat /\ x <= m
  BY <1>1
<1>3. m \in S
  <2>1. SUFFICES ASSUME m \notin S PROVE FALSE
    OBVIOUS
  <2>2. \A x \in S : x < m
    BY <1>2, <2>1
  <2>3. m # 0
    <3>1. PICK x \in S : TRUE
      OBVIOUS
    <3> QED
      BY <1>2, <2>2, <3>1
  <2>4. m - 1 \in U
    <3>1. m - 1 \in Nat
      BY <1>2, <2>3
    <3>2. \A x \in S : x <= m - 1
      BY <1>2, <2>2
    <3> QED
      BY <3>1, <3>2
  <2> QED
    BY <1>1, <1>2, <2>4
<1>4. \E x \in S : \A y \in S : x >= y
  BY <1>2, <1>3
<1> QED
  BY <1>4 DEF Max

-----------------------------------------------------------------------------
(* The inductive invariant behind TypeOK *)

\* The steps at which a transaction is executed or compensated.
Working ==
  {"prepared", "intent", "backup", "publish", "progress", "convo", "ckpts", "finalize",
   "mark", "stateConv", "stateCkpt", "comp", "compMove", "verdict"}

Bounded(cs, k) == \A c \in cs : 1 <= c.turn /\ c.turn <= k /\ c.began <= k

StoreOK == disk \in Images /\ tmp \in [TxIds -> Images] /\ bak \in [TxIds -> Images]
ManifestsOK ==
  /\ txs \in Seq(Manifest) /\ Len(txs) <= MaxTransactions
  /\ cur \in 0..Len(txs) /\ lastUndo \in 0..Len(txs)
  /\ mem \in Seq(Manifest) /\ Len(mem) <= 1
  /\ \A n \in DOMAIN txs : Bounded(txs[n].backup, turns)
  /\ Len(mem) = 1 => Bounded(M.backup, turns)
SessionOK ==
  /\ conv \in Seq(Nat) /\ convDisk \in Seq(Nat)
  /\ ckpt \subseteq Checkpoint /\ Bounded(ckpt, turns)
  /\ ckptDisk \subseteq Checkpoint /\ Bounded(ckptDisk, turns)
ControlOK ==
  /\ pc \in Working \cup {"idle", "down", "scan"}
  /\ pc \in Working => cur # 0 /\ Len(mem) = 1
  /\ pc \in {"backup", "publish", "compMove"} => at \in Files
  /\ at \in Files \cup {0} /\ todo \subseteq Files
  /\ pass \in {"run", "filesOnly", "withConversation"}
  /\ stateErr \in BOOLEAN /\ compErr \in BOOLEAN
CountersOK ==
  /\ turns \in 0..MaxTurns /\ edits \in 0..MaxEdits /\ disturbed \in 0..MaxDisturbances
  /\ orderly \in BOOLEAN /\ litter \subseteq TxIds \X Files

\* Types alone are not inductive: NextTurn is a number only because the turn
\* numbers are bounded, those that a manifest may bring back included, and a
\* step of a transaction needs a manifest in memory and a slot on disk.
IInv == StoreOK /\ ManifestsOK /\ SessionOK /\ ControlOK /\ CountersOK

\* The inductive invariant gives every variable its type.
LEMMA IInvTypes == IInv => TypeOK
  BY DEF IInv, StoreOK, ManifestsOK, SessionOK, ControlOK, CountersOK, TypeOK, Working

\* In the initial state nothing has happened.
LEMMA InitIInv == Init => IInv
<1> SUFFICES ASSUME Init PROVE IInv
  OBVIOUS
<1>1. StoreOK
  BY BoundsAssumption DEF Init, StoreOK, Images, Image, EditImage, Absent, Base
<1>2. ManifestsOK
  BY BoundsAssumption DEF Init, ManifestsOK
<1>3. SessionOK
  BY DEF Init, SessionOK, Bounded
<1>4. ControlOK
  BY DEF Init, ControlOK, Working
<1>5. CountersOK
  BY BoundsAssumption DEF Init, CountersOK
<1> QED
  BY <1>1, <1>2, <1>3, <1>4, <1>5 DEF IInv

\* While a transaction is at work its manifest is in memory.
LEMMA InMemory ==
  ASSUME IInv, pc \in Working
  PROVE  /\ cur \in 1..Len(txs) /\ cur \in TxIds
         /\ Len(mem) = 1 /\ M \in Manifest /\ Bounded(M.backup, turns)
<1>1. cur \in 1..Len(txs) /\ cur \in TxIds
  BY BoundsAssumption DEF IInv, ManifestsOK, ControlOK, TxIds
<1>2. mem \in Seq(Manifest) /\ Len(mem) = 1
  BY DEF IInv, ManifestsOK, ControlOK
<1>3. M \in Manifest
  BY <1>2 DEF M
<1>4. Bounded(M.backup, turns)
  BY <1>2 DEF IInv, ManifestsOK
<1> QED
  BY <1>1, <1>2, <1>3, <1>4

\* A change of state or of published leaves a manifest a manifest.
LEMMA ManifestState ==
  ASSUME NEW m \in Manifest,
         NEW s \in {"prepared", "committing", "committed", "aborted", "undone"}
  PROVE  /\ [m EXCEPT !.state = s] \in Manifest
         /\ [m EXCEPT !.state = s].backup = m.backup
  BY DEF Manifest

\* The same for the path that PersistIntent adds to published.
LEMMA ManifestPublished ==
  ASSUME NEW m \in Manifest, NEW f \in Files
  PROVE  /\ [m EXCEPT !.published = @ \cup {f}] \in Manifest
         /\ [m EXCEPT !.published = @ \cup {f}].backup = m.backup
  BY DEF Manifest

\* Replacing one durable manifest by another that brings back bounded turns.
LEMMA Replaced ==
  ASSUME IInv, NEW n \in 1..Len(txs), NEW m \in Manifest, Bounded(m.backup, turns),
         txs' = [txs EXCEPT ![n] = m]
  PROVE  /\ txs' \in Seq(Manifest) /\ Len(txs') = Len(txs)
         /\ \A i \in DOMAIN txs' : Bounded(txs'[i].backup, turns)
<1>1. txs \in Seq(Manifest)
  BY DEF IInv, ManifestsOK
<1>2. /\ txs' \in Seq(Manifest) /\ Len(txs') = Len(txs)
      /\ \A j \in 1..Len(txs) : txs'[j] = IF j = n THEN m ELSE txs[j]
  BY <1>1, ExceptSeq
<1>3. DOMAIN txs' = 1..Len(txs) /\ DOMAIN txs = 1..Len(txs)
  BY <1>1, <1>2, LenProperties
<1> QED
  BY <1>2, <1>3 DEF IInv, ManifestsOK

\* Persisting a manifest keeps the manifests well formed, whether it succeeds
\* or changes the copy in memory alone.
LEMMA Persisted ==
  ASSUME IInv, pc \in Working, NEW m \in Manifest, Bounded(m.backup, turns),
         Persist(m) \/ PersistFails(m),
         UNCHANGED <<cur, lastUndo, turns>>
  PROVE  ManifestsOK' /\ Len(mem') = 1
<1>1. mem' = <<m>>
  BY DEF Persist, PersistFails
<1>2. mem' \in Seq(Manifest) /\ Len(mem') = 1 /\ M' = m
  BY <1>1 DEF M
<1>3. /\ txs' \in Seq(Manifest) /\ Len(txs') = Len(txs)
      /\ \A i \in DOMAIN txs' : Bounded(txs'[i].backup, turns)
  <2>1. CASE Persist(m)
    <3>1. cur \in 1..Len(txs) /\ txs' = [txs EXCEPT ![cur] = m]
      BY <2>1, InMemory DEF Persist
    <3> QED
      BY <3>1, Replaced
  <2>2. CASE PersistFails(m)
    BY <2>2 DEF PersistFails, IInv, ManifestsOK
  <2> QED
    BY <2>1, <2>2
<1>4. Bounded(M.backup, turns)' /\ \A i \in DOMAIN txs' : Bounded(txs'[i].backup, turns')
  BY <1>2, <1>3 DEF Bounded
<1> QED
  BY <1>2, <1>3, <1>4 DEF IInv, ManifestsOK

\* Writing an image to a path, of the workspace or of a transaction's siblings.
LEMMA WorkspaceWrite ==
  ASSUME NEW d \in Images, NEW f \in Files, NEW i \in Image
  PROVE  [d EXCEPT ![f] = i] \in Images
  BY DEF Images

\* The same for a path of the publish and backup siblings.
LEMMA SiblingWrite ==
  ASSUME NEW s \in [TxIds -> Images], NEW n \in TxIds, NEW f \in Files, NEW i \in Image
  PROVE  [s EXCEPT ![n][f] = i] \in [TxIds -> Images]
  BY DEF Images

\* What a path holds is an image, and so is its absence.
LEMMA ImageFacts ==
  ASSUME IInv, NEW f \in Files
  PROVE  /\ Absent \in Image /\ disk[f] \in Image
         /\ \A n \in TxIds : tmp[n][f] \in Image /\ bak[n][f] \in Image
  BY BoundsAssumption DEF IInv, StoreOK, Images, Image, Absent, EditImage

\* A call succeeds or fails; either way the faults stay within their bound.
LEMMA Disturbed ==
  ASSUME IInv, Calm \/ Fault, UNCHANGED <<turns, edits, orderly>>,
         litter' \subseteq TxIds \X Files
  PROVE  CountersOK'
  BY BoundsAssumption DEF IInv, CountersOK, Calm, Fault

\* ... in a step that passes over no temporary.
LEMMA CountersKept ==
  ASSUME IInv, Calm \/ Fault, UNCHANGED counters
  PROVE  CountersOK'
  BY Disturbed DEF IInv, CountersOK, counters

-----------------------------------------------------------------------------
(* Each step keeps the invariant; a proof has one leaf per part of it.
   Committing first. *)

\* The commit of a prepared transaction begins, or its first persist fails.
LEMMA BeginCommitStep == IInv /\ BeginCommit => IInv'
<1> SUFFICES ASSUME IInv, BeginCommit PROVE IInv'
  OBVIOUS
<1> DEFINE m == [M EXCEPT !.state = "committing"]
<1>1. pc \in Working
  BY DEF BeginCommit, Working
<1>2. m \in Manifest /\ m.backup = M.backup /\ M.paths \subseteq Files
  BY <1>1, InMemory, ManifestState DEF Manifest
<1>3. Persist(m) \/ PersistFails(m)
  BY DEF BeginCommit
<1> HIDE DEF m
<1>4. ManifestsOK' /\ Len(mem') = 1
  BY <1>1, <1>2, <1>3, InMemory, Persisted DEF BeginCommit, counters
<1>5. ControlOK'
  BY <1>1, <1>2, <1>4 DEF BeginCommit, Compensate, IInv, ControlOK, Working
<1>6. StoreOK' /\ SessionOK'
  BY DEF BeginCommit, IInv, StoreOK, SessionOK, store, session, checkpoints, counters
<1>7. CountersOK'
  BY CountersKept DEF BeginCommit, counters
<1> QED
  BY <1>4, <1>5, <1>6, <1>7 DEF IInv

\* The next path is recorded as published before its first rename.
LEMMA PersistIntentStep == IInv /\ PersistIntent => IInv'
<1> SUFFICES ASSUME IInv, PersistIntent PROVE IInv'
  OBVIOUS
<1> DEFINE f == Min(Unpublished)
           m == [M EXCEPT !.published = @ \cup {f}]
<1>1. pc \in Working
  BY DEF PersistIntent, Working
<1>2. M \in Manifest /\ M.paths \subseteq Files /\ Bounded(M.backup, turns)
  BY <1>1, InMemory DEF Manifest
<1>3. f \in Files
  <2>1. Unpublished \subseteq Files /\ Unpublished \in SUBSET Nat /\ Unpublished # {}
    BY <1>2, BoundsAssumption DEF PersistIntent, Unpublished
  <2> QED
    BY <2>1, MinFacts
<1>4. m \in Manifest /\ m.backup = M.backup
  BY <1>2, <1>3, ManifestPublished
<1>5. \/ Persist(m) /\ at' = f /\ pc' = "backup" /\ UNCHANGED todo
      \/ PersistFails(M) /\ Compensate /\ UNCHANGED at
  BY DEF PersistIntent
<1> HIDE DEF m, f
<1>6. ManifestsOK' /\ Len(mem') = 1
  BY <1>1, <1>2, <1>4, <1>5, Persisted DEF PersistIntent, counters
<1>7. ControlOK'
  BY <1>1, <1>2, <1>3, <1>5, <1>6 DEF PersistIntent, Compensate, IInv, ControlOK, Working
<1>8. StoreOK' /\ SessionOK'
  BY DEF PersistIntent, IInv, StoreOK, SessionOK, store, session, checkpoints, counters
<1>9. CountersOK'
  BY CountersKept DEF PersistIntent, counters
<1> QED
  BY <1>6, <1>7, <1>8, <1>9 DEF IInv

\* publishTarget moves the target to its backup path, or fails to.
LEMMA BackupTargetStep == IInv /\ BackupTarget => IInv'
<1> SUFFICES ASSUME IInv, BackupTarget PROVE IInv'
  OBVIOUS
<1>1. pc \in Working
  BY DEF BackupTarget, Working
<1>2. M.paths \subseteq Files /\ cur \in TxIds /\ at \in Files
  BY <1>1, InMemory DEF Manifest, BackupTarget, IInv, ControlOK
<1>3. StoreOK'
  BY <1>2, ImageFacts, WorkspaceWrite, SiblingWrite DEF BackupTarget, IInv, StoreOK
<1>4. ControlOK'
  BY <1>1, <1>2 DEF BackupTarget, Compensate, IInv, ControlOK, Working
<1>5. ManifestsOK' /\ SessionOK'
  BY DEF BackupTarget, IInv, ManifestsOK, SessionOK, session, checkpoints, counters, M
<1>6. CountersOK'
  BY CountersKept DEF BackupTarget, counters
<1> QED
  BY <1>3, <1>4, <1>5, <1>6 DEF IInv

\* publishTarget moves the temporary into place, or fails to and backs out.
LEMMA PublishTargetStep == IInv /\ PublishTarget => IInv'
<1> SUFFICES ASSUME IInv, PublishTarget PROVE IInv'
  OBVIOUS
<1>1. pc \in Working
  BY DEF PublishTarget, Working
<1>2. M.paths \subseteq Files /\ cur \in TxIds /\ at \in Files
  BY <1>1, InMemory DEF Manifest, PublishTarget, IInv, ControlOK
<1>3. StoreOK'
  BY <1>2, ImageFacts, WorkspaceWrite, SiblingWrite DEF PublishTarget, IInv, StoreOK
<1>4. ControlOK'
  BY <1>1, <1>2 DEF PublishTarget, Compensate, IInv, ControlOK, Working
<1>5. ManifestsOK' /\ SessionOK'
  BY DEF PublishTarget, IInv, ManifestsOK, SessionOK, session, checkpoints, counters, M
<1>6. CountersOK'
  BY CountersKept DEF PublishTarget, counters
<1> QED
  BY <1>3, <1>4, <1>5, <1>6 DEF IInv

\* The persists after a published path and after the last of them.
LEMMA ProgressStep == IInv /\ (PersistProgress \/ FilesDone) => IInv'
<1> SUFFICES ASSUME IInv, PersistProgress \/ FilesDone PROVE IInv'
  OBVIOUS
<1>1. pc \in Working
  BY DEF PersistProgress, FilesDone, Working
<1>2. M.paths \subseteq Files
  BY <1>1, InMemory DEF Manifest
<1>3. ControlOK'
  BY <1>1, <1>2 DEF PersistProgress, FilesDone, Compensate, IInv, ControlOK, Working
<1>4. StoreOK' /\ ManifestsOK' /\ SessionOK'
  BY DEF PersistProgress, FilesDone, IInv, StoreOK, ManifestsOK, SessionOK, store, session, checkpoints,
         counters, M
<1>5. CountersOK'
  BY CountersKept DEF PersistProgress, FilesDone, counters
<1> QED
  BY <1>3, <1>4, <1>5 DEF IInv

\* Whatever becomes of the conversation, it is a sequence of turns.
LEMMA ConversationMoves ==
  ASSUME IInv, pc \in Working,
         Forwards \/ ForwardsFails \/ Backwards \/ BackwardsFails
  PROVE  conv' \in Seq(Nat) /\ convDisk' \in Seq(Nat) /\ (Calm \/ Fault)
<1>1. conv \in Seq(Nat) /\ convDisk \in Seq(Nat)
  BY DEF IInv, SessionOK
<1>2. M.forward \in Seq(Nat) /\ M.boundary \in Nat
  BY InMemory DEF Manifest
<1>3. ~TooShort => Upto(conv, M.boundary) \in Seq(Nat)
  <2>1. SUFFICES ASSUME M.boundary <= Len(conv) PROVE SubSeq(conv, 1, M.boundary) \in Seq(Nat)
    BY <1>1, <1>2 DEF TooShort, Upto
  <2>2. \A i \in 1..M.boundary : conv[i] \in Nat
    BY <1>1, <1>2, <2>1, ElementOfSeq
  <2> QED
    BY <1>2, <2>2, SubSeqProperties
<1> QED
  BY <1>1, <1>2, <1>3 DEF Forwards, ForwardsFails, Backwards, BackwardsFails, Calm, Fault,
     TruncateConversation, TruncateFails, RestoreConversation, RestoreFails

\* Files half removed or half restored are still files of bounded turns.
LEMMA HalfDoneFacts ==
  ASSUME IInv, NEW cs \in HalfDone
  PROVE  cs \subseteq Checkpoint /\ Bounded(cs, turns)
<1>1. ckptDisk \subseteq Checkpoint /\ Bounded(ckptDisk, turns)
  BY DEF IInv, SessionOK
<1>2. CASE cs = ckptDisk
  BY <1>1, <1>2
<1>3. CASE pc \in Working /\ cs \in HalfTruncated(M.turn)
  BY <1>1, <1>3 DEF HalfTruncated, Bounded
<1>4. CASE pc \in Working /\ cs \in HalfRestored(M.backup)
  <2>1. M.backup \subseteq Checkpoint /\ Bounded(M.backup, turns)
    BY <1>4, InMemory DEF Manifest
  <2> QED
    BY <1>1, <1>4, <2>1 DEF HalfRestored, Over, Bounded
<1> QED
  BY <1>2, <1>3, <1>4 DEF HalfDone, Working

\* Truncating the checkpoints, or bringing back those of a manifest.
LEMMA CheckpointMoves ==
  ASSUME IInv, pc \in Working,
         \/ Truncate(M.turn) \/ Restore(M.backup) \/ UNCHANGED checkpoints
         \/ ckptDisk' \in HalfDone /\ UNCHANGED ckpt
  PROVE  /\ ckpt' \subseteq Checkpoint /\ Bounded(ckpt', turns)
         /\ ckptDisk' \subseteq Checkpoint /\ Bounded(ckptDisk', turns)
<1>1. /\ ckpt \subseteq Checkpoint /\ Bounded(ckpt, turns)
      /\ ckptDisk \subseteq Checkpoint /\ Bounded(ckptDisk, turns)
  BY DEF IInv, SessionOK
<1>2. M.backup \subseteq Checkpoint /\ Bounded(M.backup, turns)
  BY InMemory DEF Manifest
<1>3. CASE Truncate(M.turn)
  BY <1>1, <1>3 DEF Truncate, TruncatedAt, Bounded
<1>4. CASE Restore(M.backup)
  BY <1>1, <1>2, <1>4 DEF Restore, Merge, Over, Bounded
<1>5. CASE UNCHANGED checkpoints
  BY <1>1, <1>5 DEF checkpoints
<1>6. CASE ckptDisk' \in HalfDone /\ UNCHANGED ckpt
  BY <1>1, <1>6, HalfDoneFacts
<1> QED
  BY <1>3, <1>4, <1>5, <1>6

\* The conversation is truncated by a rewind and restored by an undo.
LEMMA CommitConversationStep == IInv /\ CommitConversation => IInv'
<1> SUFFICES ASSUME IInv, CommitConversation PROVE IInv'
  OBVIOUS
<1>1. pc \in Working
  BY DEF CommitConversation, Working
<1>2. M.paths \subseteq Files
  BY <1>1, InMemory DEF Manifest
<1>3. conv' \in Seq(Nat) /\ convDisk' \in Seq(Nat) /\ (Calm \/ Fault)
  BY <1>1, ConversationMoves DEF CommitConversation
<1>4. SessionOK'
  BY <1>3 DEF CommitConversation, IInv, SessionOK, checkpoints, counters
<1>5. ControlOK'
  BY <1>1, <1>2 DEF CommitConversation, CompensateState, IInv, ControlOK, Working
<1>6. StoreOK' /\ ManifestsOK'
  BY DEF CommitConversation, IInv, StoreOK, ManifestsOK, store, counters, M
<1>7. CountersOK'
  BY <1>3, CountersKept DEF CommitConversation, counters
<1> QED
  BY <1>4, <1>5, <1>6, <1>7 DEF IInv

\* The checkpoints are truncated by a rewind and restored by an undo.
LEMMA CommitCheckpointsStep == IInv /\ CommitCheckpoints => IInv'
<1> SUFFICES ASSUME IInv, CommitCheckpoints PROVE IInv'
  OBVIOUS
<1>1. pc \in Working
  BY DEF CommitCheckpoints, Working
<1>2. M.paths \subseteq Files
  BY <1>1, InMemory DEF Manifest
<1>3. /\ ckpt' \subseteq Checkpoint /\ Bounded(ckpt', turns)
      /\ ckptDisk' \subseteq Checkpoint /\ Bounded(ckptDisk', turns)
  BY <1>1, CheckpointMoves DEF CommitCheckpoints
<1>4. SessionOK'
  BY <1>3 DEF CommitCheckpoints, IInv, SessionOK, counters
<1>5. ControlOK'
  BY <1>1, <1>2 DEF CommitCheckpoints, CompensateState, IInv, ControlOK, Working
<1>6. StoreOK' /\ ManifestsOK'
  BY DEF CommitCheckpoints, IInv, StoreOK, ManifestsOK, store, counters, M
<1>7. CountersOK'
  BY CountersKept DEF CommitCheckpoints, counters
<1> QED
  BY <1>4, <1>5, <1>6, <1>7 DEF IInv

\* The manifest becomes committed, or that persist fails.
LEMMA FinalizeStep == IInv /\ Finalize => IInv'
<1> SUFFICES ASSUME IInv, Finalize PROVE IInv'
  OBVIOUS
<1> DEFINE m == [M EXCEPT !.state = "committed"]
<1>1. pc \in Working
  BY DEF Finalize, Working
<1>2. /\ m \in Manifest /\ Bounded(m.backup, turns) /\ M.paths \subseteq Files
      /\ cur \in 1..Len(txs)
  BY <1>1, InMemory, ManifestState DEF Manifest
<1>3. \/ txs' = [txs EXCEPT ![cur] = m] /\ (mem' = <<m>> \/ mem' = <<>>)
      \/ PersistFails(m)
  BY DEF Finalize
<1> HIDE DEF m
<1>4. /\ txs' \in Seq(Manifest) /\ Len(txs') = Len(txs)
      /\ \A i \in DOMAIN txs' : Bounded(txs'[i].backup, turns)
  <2>1. CASE txs' = [txs EXCEPT ![cur] = m]
    BY <1>2, <2>1, Replaced
  <2>2. CASE PersistFails(m)
    BY <2>2 DEF PersistFails, IInv, ManifestsOK
  <2> QED
    BY <1>3, <2>1, <2>2
<1>5. mem' = <<m>> \/ mem' = <<>>
  BY <1>3 DEF PersistFails
<1>6. /\ mem' \in Seq(Manifest) /\ Len(mem') <= 1
      /\ Len(mem') = 1 => Bounded(M.backup, turns)'
  <2>1. turns' = turns
    BY DEF Finalize, counters
  <2>2. CASE mem' = <<m>>
    <3>1. M' = m
      BY <2>2 DEF M
    <3>2. Bounded(M.backup, turns)'
      BY <1>2, <2>1, <3>1 DEF Bounded
    <3>3. mem' \in Seq(Manifest) /\ Len(mem') = 1
      BY <1>2, <2>2
    <3> QED
      BY <3>2, <3>3
  <2>3. CASE mem' = <<>>
    <3>1. mem' \in Seq(Manifest) /\ Len(mem') = 0
      BY <2>3
    <3> QED
      BY <3>1
  <2> QED
    BY <1>5, <2>2, <2>3
<1>7. ManifestsOK'
  BY <1>2, <1>4, <1>6 DEF Finalize, IInv, ManifestsOK, counters
<1>8. ControlOK'
  <2>1. pc' \in Working => Len(mem') = 1 /\ cur' = cur
    BY <1>5 DEF Finalize, CompensateState, PersistFails, Working
  <2> QED
    BY <1>1, <1>2, <2>1 DEF Finalize, CompensateState, IInv, ControlOK, Working
<1>9. StoreOK' /\ SessionOK'
  BY DEF Finalize, IInv, StoreOK, SessionOK, store, session, checkpoints, counters
<1>10. CountersOK'
  BY CountersKept DEF Finalize, counters
<1> QED
  BY <1>7, <1>8, <1>9, <1>10 DEF IInv

\* A committed undo marks its parent as undone.
LEMMA MarkUndoneStep == IInv /\ MarkUndone => IInv'
<1> SUFFICES ASSUME IInv, MarkUndone PROVE IInv'
  OBVIOUS
<1> DEFINE p == M.parent
           m == [txs[p] EXCEPT !.state = "undone"]
<1>1. txs' = [txs EXCEPT ![p] = m] \/ txs' = txs
  BY DEF MarkUndone
<1>2. /\ txs' \in Seq(Manifest) /\ Len(txs') = Len(txs)
      /\ \A i \in DOMAIN txs' : Bounded(txs'[i].backup, turns)
  <2>1. CASE p \in 1..Len(txs) /\ txs' # txs
    <3>1. txs[p] \in Manifest /\ Bounded(txs[p].backup, turns)
      BY <2>1, ElementOfSeq DEF IInv, ManifestsOK
    <3>2. m \in Manifest /\ Bounded(m.backup, turns)
      BY <3>1, ManifestState
    <3> QED
      BY <1>1, <2>1, <3>2, Replaced
  <2>2. CASE p \notin 1..Len(txs) \/ txs' = txs
    <3>1. txs \in Seq(Manifest)
      BY DEF IInv, ManifestsOK
    <3>2. txs' = txs
      BY <1>1, <2>2, <3>1
    <3> QED
      BY <3>1, <3>2 DEF IInv, ManifestsOK
  <2> QED
    BY <2>1, <2>2
<1>3. ManifestsOK'
  BY <1>2 DEF MarkUndone, IInv, ManifestsOK, counters, M
<1>4. ControlOK'
  BY DEF MarkUndone, IInv, ControlOK, Working
<1>5. StoreOK' /\ SessionOK'
  BY DEF MarkUndone, IInv, StoreOK, SessionOK, store, session, checkpoints, counters
<1>6. CountersOK'
  BY CountersKept DEF MarkUndone, counters
<1> QED
  BY <1>3, <1>4, <1>5, <1>6 DEF IInv

-----------------------------------------------------------------------------
(* Compensating *)

\* A failed or recovered transaction puts the conversation back.
LEMMA CompensateConversationStep == IInv /\ CompensateConversation => IInv'
<1> SUFFICES ASSUME IInv, CompensateConversation PROVE IInv'
  OBVIOUS
<1>1. pc \in Working
  BY DEF CompensateConversation, Working
<1>2. conv' \in Seq(Nat) /\ convDisk' \in Seq(Nat) /\ (Calm \/ Fault)
  <2>1. CASE Backwards \/ BackwardsFails
    BY <1>1, <2>1, ConversationMoves
  <2>2. CASE Calm /\ UNCHANGED <<conv, convDisk>>
    BY <2>2 DEF IInv, SessionOK
  <2> QED
    BY <2>1, <2>2 DEF CompensateConversation
<1>3. SessionOK'
  BY <1>2 DEF CompensateConversation, IInv, SessionOK, checkpoints, counters
<1>4. ControlOK'
  BY <1>1 DEF CompensateConversation, IInv, ControlOK, Working
<1>5. StoreOK' /\ ManifestsOK'
  BY DEF CompensateConversation, IInv, StoreOK, ManifestsOK, store, counters, M
<1>6. CountersOK'
  BY <1>2, CountersKept DEF CompensateConversation, counters
<1> QED
  BY <1>3, <1>4, <1>5, <1>6 DEF IInv

\* A failed or recovered transaction puts the checkpoints back.
LEMMA CompensateCheckpointsStep == IInv /\ CompensateCheckpoints => IInv'
<1> SUFFICES ASSUME IInv, CompensateCheckpoints PROVE IInv'
  OBVIOUS
<1>1. pc \in Working
  BY DEF CompensateCheckpoints, Working
<1>2. /\ ckpt' \subseteq Checkpoint /\ Bounded(ckpt', turns)
      /\ ckptDisk' \subseteq Checkpoint /\ Bounded(ckptDisk', turns)
  BY <1>1, CheckpointMoves DEF CompensateCheckpoints, checkpoints
<1>3. SessionOK'
  BY <1>2 DEF CompensateCheckpoints, IInv, SessionOK, counters
<1>4. ControlOK'
  BY <1>1 DEF CompensateCheckpoints, IInv, ControlOK, Working
<1>5. StoreOK' /\ ManifestsOK'
  BY DEF CompensateCheckpoints, IInv, StoreOK, ManifestsOK, store, counters, M
<1>6. CountersOK'
  BY CountersKept DEF CompensateCheckpoints, counters
<1> QED
  BY <1>3, <1>4, <1>5, <1>6 DEF IInv

\* A visit of compensatePublished changes the files and its own bookkeeping.
LEMMA VisitStep ==
  ASSUME IInv, pc \in Working, StoreOK', Calm \/ Fault,
         compErr' \in BOOLEAN,
         pc' \in {"comp", "compMove"}, pc' = "compMove" => at' \in Files,
         at' \in Files \cup {0}, todo' \subseteq Files,
         litter' \subseteq TxIds \X Files,
         UNCHANGED <<txs, cur, mem, lastUndo, session, pass, stateErr, turns, edits, orderly>>
  PROVE  IInv'
<1>1. ManifestsOK'
  BY InMemory DEF IInv, ManifestsOK, M
<1>2. ControlOK'
  BY DEF IInv, ControlOK, Working
<1>3. SessionOK'
  BY DEF IInv, SessionOK, session, checkpoints
<1>4. CountersOK'
  BY Disturbed
<1> QED
  BY <1>1, <1>2, <1>3, <1>4 DEF IInv

\* compensatePublished visits one path, in whichever state it finds it.
LEMMA CompensateFileStep == IInv /\ CompensateFile => IInv'
<1> SUFFICES ASSUME IInv, CompensateFile PROVE IInv'
  OBVIOUS
<1> USE DEF Visiting, Visited, Untouched
<1>1. /\ pc \in Working /\ todo \subseteq Files /\ at \in Files \cup {0} /\ compErr \in BOOLEAN
      /\ litter \subseteq TxIds \X Files
  BY DEF CompensateFile, CompensateNothing, CompensateUnread, CompensateRename,
         CompensateForeign, CompensateRemove, CompensateMove, Working, IInv, ControlOK, CountersOK
<1>2. cur \in TxIds /\ M \in Manifest
  BY <1>1, InMemory
<1>3. StoreOK
  BY DEF IInv
<1>4. ASSUME NEW f \in Files, CompensateNothing(f) PROVE IInv'
  <2>1. tmp' \in {tmp, [tmp EXCEPT ![cur][f] = Absent]} /\ UNCHANGED <<disk, bak>>
    BY <1>4 DEF CompensateNothing
  <2>2. StoreOK'
    BY <1>2, <1>3, <2>1, ImageFacts, SiblingWrite DEF StoreOK
  <2>3. litter' \subseteq TxIds \X Files
    BY <1>1, <1>2, <1>4 DEF CompensateNothing
  <2> QED
    BY <1>1, <1>4, <2>2, <2>3, VisitStep DEF CompensateNothing
<1>9. ASSUME NEW f \in Files, CompensateUnread(f) PROVE IInv'
  <2>1. StoreOK' /\ UNCHANGED litter
    BY <1>3, <1>9 DEF CompensateUnread, StoreOK, store, counters
  <2> QED
    BY <1>1, <1>9, <2>1, VisitStep DEF CompensateUnread, counters
<1>5. ASSUME NEW f \in Files, CompensateRename(f) PROVE IInv'
  <2>1. /\ disk' \in {disk, [disk EXCEPT ![f] = bak[cur][f]]}
        /\ tmp' \in {tmp, [tmp EXCEPT ![cur][f] = Absent]}
        /\ bak' \in {bak, [bak EXCEPT ![cur][f] = Absent]}
    BY <1>5 DEF CompensateRename
  <2>2. StoreOK'
    BY <1>2, <1>3, <2>1, ImageFacts, WorkspaceWrite, SiblingWrite DEF StoreOK
  <2> QED
    BY <1>1, <1>5, <2>2, VisitStep DEF CompensateRename, counters
<1>6. ASSUME NEW f \in Files, CompensateForeign(f) PROVE IInv'
  <2>1. StoreOK'
    BY <1>3, <1>6 DEF CompensateForeign, StoreOK, store
  <2> QED
    BY <1>1, <1>6, <2>1, VisitStep DEF CompensateForeign, counters
<1>7. ASSUME NEW f \in Files, CompensateRemove(f) PROVE IInv'
  <2>1. StoreOK'
    BY <1>3, <1>7, ImageFacts, WorkspaceWrite DEF CompensateRemove, StoreOK
  <2> QED
    BY <1>1, <1>7, <2>1, VisitStep DEF CompensateRemove, counters
<1>8. ASSUME CompensateMove PROVE IInv'
  <2>1. at \in Files /\ M.fwd[at] \in Image
    BY <1>2, <1>8 DEF CompensateMove, IInv, ControlOK, Manifest, Images
  <2>2. StoreOK'
    BY <1>2, <1>3, <1>8, <2>1, ImageFacts, WorkspaceWrite, SiblingWrite DEF CompensateMove, StoreOK
  <2> QED
    BY <1>1, <1>8, <2>2, VisitStep DEF CompensateMove, counters
<1> QED
  BY <1>4, <1>5, <1>6, <1>7, <1>8, <1>9 DEF CompensateFile

\* compensatePublished has visited every path.
LEMMA CompensationDoneStep == IInv /\ CompensationDone => IInv'
  BY DEF CompensationDone, IInv, StoreOK, ManifestsOK, SessionOK, ControlOK, CountersOK,
         store, session, checkpoints, counters, Working, M

\* failTransaction, or a recovery, decides between aborted and committing.
LEMMA VerdictStep == IInv /\ Verdict => IInv'
<1> SUFFICES ASSUME IInv, Verdict PROVE IInv'
  OBVIOUS
<1> DEFINE m == [M EXCEPT !.state = IF stateErr \/ compErr THEN "committing" ELSE "aborted"]
<1>1. pc \in Working
  BY DEF Verdict, Working
<1>2. m \in Manifest /\ Bounded(m.backup, turns) /\ cur \in 1..Len(txs)
  BY <1>1, InMemory, ManifestState
<1>3. txs' = [txs EXCEPT ![cur] = m] \/ UNCHANGED txs
  BY DEF Verdict
<1> HIDE DEF m
<1>4. /\ txs' \in Seq(Manifest) /\ Len(txs') = Len(txs)
      /\ \A i \in DOMAIN txs' : Bounded(txs'[i].backup, turns)
  BY <1>2, <1>3, Replaced DEF IInv, ManifestsOK
<1>5. ManifestsOK'
  BY <1>2, <1>4 DEF Verdict, IInv, ManifestsOK, counters, M
<1>6. ControlOK'
  BY DEF Verdict, IInv, ControlOK, Working
<1>7. StoreOK' /\ SessionOK'
  BY DEF Verdict, IInv, StoreOK, SessionOK, store, session, checkpoints, counters
<1>8. CountersOK'
  BY CountersKept DEF Verdict, counters
<1> QED
  BY <1>5, <1>6, <1>7, <1>8 DEF IInv

-----------------------------------------------------------------------------
(* Recovering *)

\* The manifest a recovery pass visits next is one of the durable ones.
LEMMA NextRemaining ==
  ASSUME IInv, Remaining # {}
  PROVE  /\ Min(Remaining) \in 1..Len(txs)
         /\ txs[Min(Remaining)] \in Manifest
         /\ Bounded(txs[Min(Remaining)].backup, turns)
<1>1. txs \in Seq(Manifest) /\ DOMAIN txs = 1..Len(txs) /\ Len(txs) \in Nat
  BY LenProperties DEF IInv, ManifestsOK
<1>2. Remaining \in SUBSET Nat /\ Remaining \subseteq DOMAIN txs
  BY <1>1 DEF Remaining
<1>3. Min(Remaining) \in DOMAIN txs
  BY <1>2, MinFacts
<1> QED
  BY <1>1, <1>3, ElementOfSeq DEF IInv, ManifestsOK

\* Recovery aborts a manifest that was never published.
LEMMA RecoverPreparedStep == IInv /\ RecoverPrepared => IInv'
<1> SUFFICES ASSUME IInv, RecoverPrepared PROVE IInv'
  OBVIOUS
<1> DEFINE n == Min(Remaining)
           m == [txs[n] EXCEPT !.state = "aborted"]
<1>1. n \in 1..Len(txs) /\ m \in Manifest /\ Bounded(m.backup, turns)
  BY NextRemaining, ManifestState DEF RecoverPrepared
<1>2. PICK left \in SUBSET Files :
        /\ txs' = [txs EXCEPT ![n] = m] \/ UNCHANGED txs
        /\ tmp' = [tmp EXCEPT ![n] = [f \in Files |-> IF f \in left THEN tmp[n][f] ELSE Absent]]
        /\ litter' = litter \cup ({n} \X left) /\ cur' = n
  BY DEF RecoverPrepared
<1> HIDE DEF n, m
<1>3. /\ txs' \in Seq(Manifest) /\ Len(txs') = Len(txs)
      /\ \A i \in DOMAIN txs' : Bounded(txs'[i].backup, turns)
  BY <1>1, <1>2, Replaced DEF IInv, ManifestsOK
<1>4. ManifestsOK'
  BY <1>1, <1>2, <1>3 DEF RecoverPrepared, IInv, ManifestsOK, M
<1>5. ControlOK'
  BY DEF RecoverPrepared, IInv, ControlOK, Working, control
<1>6. StoreOK'
  <2> DEFINE row == [f \in Files |-> IF f \in left THEN tmp[n][f] ELSE Absent]
  <2>1. n \in TxIds
    BY <1>1, BoundsAssumption DEF IInv, ManifestsOK, TxIds
  <2>2. row \in Images
    BY <2>1, ImageFacts DEF Images
  <2>3. tmp' = [tmp EXCEPT ![n] = row]
    BY <1>2
  <2> HIDE DEF row
  <2> QED
    BY <2>2, <2>3 DEF RecoverPrepared, IInv, StoreOK
<1>7. SessionOK'
  BY DEF RecoverPrepared, IInv, SessionOK, session, checkpoints
<1>8. CountersOK'
  <2>1. n \in TxIds
    BY <1>1, BoundsAssumption DEF IInv, ManifestsOK, TxIds
  <2>2. litter' \subseteq TxIds \X Files
    BY <1>2, <2>1 DEF IInv, CountersOK
  <2> QED
    BY <2>2, Disturbed DEF RecoverPrepared
<1> QED
  BY <1>4, <1>5, <1>6, <1>7, <1>8 DEF IInv

\* Recovery takes up a manifest that may have been published.
LEMMA RecoverCommittingStep == IInv /\ RecoverCommitting => IInv'
<1> SUFFICES ASSUME IInv, RecoverCommitting PROVE IInv'
  OBVIOUS
<1> DEFINE n == Min(Remaining)
<1>1. n \in 1..Len(txs) /\ txs[n] \in Manifest /\ Bounded(txs[n].backup, turns)
  BY NextRemaining DEF RecoverCommitting
<1>2. /\ cur' = n /\ mem' = <<txs[n]>> /\ todo' = txs[n].paths
      /\ pc' \in {"stateConv", "comp"}
  BY DEF RecoverCommitting
<1> HIDE DEF n
<1>3. mem' \in Seq(Manifest) /\ Len(mem') = 1 /\ M' = txs[n] /\ todo' \subseteq Files
  BY <1>1, <1>2 DEF M, Manifest
<1>4. Bounded(M.backup, turns)'
  BY <1>1, <1>3 DEF Bounded, RecoverCommitting, counters
<1>5. ManifestsOK'
  BY <1>1, <1>2, <1>3, <1>4 DEF RecoverCommitting, IInv, ManifestsOK, counters
<1>6. ControlOK'
  BY <1>1, <1>2, <1>3 DEF RecoverCommitting, IInv, ControlOK, Working
<1>7. StoreOK' /\ SessionOK' /\ CountersOK'
  BY DEF RecoverCommitting, IInv, StoreOK, SessionOK, CountersOK, store, session, checkpoints, counters
<1> QED
  BY <1>5, <1>6, <1>7 DEF IInv

\* A restart begins the files-only recovery pass.
LEMMA StartStep == IInv /\ Start => IInv'
  BY DEF Start, IInv, StoreOK, ManifestsOK, SessionOK, ControlOK, CountersOK,
         store, session, checkpoints, counters, Working, M

\* A recovery pass ends and settles what may be undone.
LEMMA PassDoneStep == IInv /\ PassDone => IInv'
<1> SUFFICES ASSUME IInv, PassDone PROVE IInv'
  OBVIOUS
<1>1. Len(txs) \in Nat /\ UndoCandidates \in SUBSET (0..Len(txs))
  BY LenProperties DEF UndoCandidates, IInv, ManifestsOK
<1>2. lastUndo' \in 0..Len(txs)
  <2>1. UndoCandidates # {} => Max(UndoCandidates) \in UndoCandidates
    BY <1>1, MaxFacts
  <2> QED
    BY <1>1, <2>1 DEF PassDone
<1>3. ManifestsOK'
  BY <1>1, <1>2 DEF PassDone, IInv, ManifestsOK, counters, M
<1>4. ControlOK'
  BY DEF PassDone, IInv, ControlOK, Working
<1>5. StoreOK' /\ SessionOK' /\ CountersOK'
  BY DEF PassDone, IInv, StoreOK, SessionOK, CountersOK, store, session, checkpoints, counters
<1> QED
  BY <1>3, <1>4, <1>5 DEF IInv

-----------------------------------------------------------------------------
(* The environment *)

\* The number of the next turn exceeds every number in use.
LEMMA NextTurnFacts ==
  IInv => /\ NextTurn \in Nat /\ 1 <= NextTurn /\ NextTurn <= turns + 1
          /\ \A c \in ckpt : c.turn < NextTurn
<1> SUFFICES ASSUME IInv
             PROVE  /\ NextTurn \in Nat /\ 1 <= NextTurn /\ NextTurn <= turns + 1
                    /\ \A c \in ckpt : c.turn < NextTurn
  OBVIOUS
<1> DEFINE S == TurnsOf(ckpt) \cup {0}
<1>1. turns \in Nat /\ S \in SUBSET (0..turns) /\ S # {}
  BY DEF IInv, SessionOK, CountersOK, Bounded, Checkpoint, TurnsOf
<1>2. \A c \in ckpt : c.turn \in S /\ c.turn \in Nat
  BY DEF TurnsOf, IInv, SessionOK, Checkpoint
<1> HIDE DEF S
<1>3. Max(S) \in 0..turns /\ \A i \in S : Max(S) >= i
  BY <1>1, MaxFacts
<1>4. NextTurn = 1 + Max(S)
  BY DEF NextTurn, S
<1>5. \A c \in ckpt : c.turn < NextTurn
  BY <1>1, <1>2, <1>3, <1>4
<1> QED
  BY <1>1, <1>3, <1>4, <1>5

\* However a turn ends: what its checkpoint holds, and what is left of it.
Opens(c) ==
  /\ pc = "idle" /\ turns < MaxTurns /\ turns' = turns + 1 /\ (Calm \/ Fault)
  /\ UNCHANGED <<tmp, bak, txs, cur, mem, at, todo, pass, stateErr, compErr, edits, litter>>
  /\ lastUndo' = 0
  /\ disk' \in Images /\ \A f \in Files \ c.touched : disk'[f] = disk[f]
  /\ c \in Checkpoint /\ c.turn = NextTurn /\ c.began = turns + 1
  /\ c.boundary = Len(conv) /\ c.pre = disk
  /\ orderly' \in BOOLEAN /\ (orderly' => orderly /\ NoManifestCommitting)

\* It ran to its end, or was blocked.
Ended(c) ==
  /\ pc' = "idle" /\ ckpt' = ckpt \cup {c}
  /\ IF c.saved THEN ckptDisk' = Over({c}, ckptDisk)
     ELSE \E d \in Checkpoint : d.turn = c.turn /\ d.began = c.began
                              /\ ckptDisk' \in {ckptDisk, Over({d}, ckptDisk)}
  /\ conv' \in {conv, Append(conv, turns + 1)} /\ convDisk' \in {convDisk, conv'}

\* It died with the process.
Died(c) ==
  /\ pc' = "down" /\ ckptDisk' = Over({c}, ckptDisk) /\ ckpt' = ckptDisk' /\ c.saved
  /\ convDisk' \in {convDisk, Append(conv, turns + 1)} /\ conv' = convDisk' /\ Fault
  /\ orderly' => Resumable

AnyTurn ==
  \/ \E touched \in SUBSET Files : \E deleted \in SUBSET touched : Turn(touched, deleted)
  \/ BlockedTurn
  \/ \E touched \in SUBSET Files : \E written \in SUBSET touched :
       \E deleted, owned \in SUBSET written : BrokenTurn(touched, written, deleted, owned)

\* The files a turn writes, and the checkpoint it opens, are of their types.
LEMMA TurnTypes ==
  ASSUME IInv, turns < MaxTurns
  PROVE  /\ \A written, deleted \in SUBSET Files : Worked(written, deleted) \in Images
         /\ \A touched, owned \in SUBSET Files, saved \in BOOLEAN :
              disk' \in Images =>
                /\ Opened(touched, owned, saved) \in Checkpoint
                /\ Opened(touched, owned, saved).turn = NextTurn
                /\ Opened(touched, owned, saved).began = turns + 1
                /\ Opened(touched, owned, saved).boundary = Len(conv)
                /\ Opened(touched, owned, saved).pre = disk
                /\ Opened(touched, owned, saved).touched = touched
                /\ Opened(touched, owned, saved).saved = saved
<1>1. turns \in Nat /\ turns + 1 <= MaxTurns /\ NextTurn \in Nat /\ Len(conv) \in Nat
  BY BoundsAssumption, NextTurnFacts, LenProperties DEF IInv, CountersOK, SessionOK
<1>2. Absent \in Image /\ TurnImage(turns + 1) \in Image /\ disk \in Images
  BY <1>1, BoundsAssumption DEF Absent, TurnImage, Image, EditImage, IInv, StoreOK
<1>3. \A written, deleted \in SUBSET Files : Worked(written, deleted) \in Images
  BY <1>2 DEF Worked, Images
<1> QED
  BY <1>1, <1>2, <1>3 DEF Opened, Checkpoint

\* A save that fails leaves a version of the same checkpoint, or none.
LEMMA SaveFailsFacts ==
  ASSUME NEW c \in Checkpoint, SaveFails(c)
  PROVE  \E d \in Checkpoint : d.turn = c.turn /\ d.began = c.began
                            /\ ckptDisk' \in {ckptDisk, Over({d}, ckptDisk)}
<1>1. CASE ckptDisk' = ckptDisk
  BY <1>1
<1>2. ASSUME NEW some \in SUBSET c.touched, NEW those \in SUBSET c.owned,
             ckptDisk' = Over({[c EXCEPT !.touched = some, !.owned = some \cap those]}, ckptDisk)
      PROVE  \E d \in Checkpoint : d.turn = c.turn /\ d.began = c.began
                                /\ ckptDisk' \in {ckptDisk, Over({d}, ckptDisk)}
  <2> DEFINE d == [c EXCEPT !.touched = some, !.owned = some \cap those]
  <2>1. some \subseteq Files /\ some \cap those \subseteq Files
    BY DEF Checkpoint
  <2>2. d \in Checkpoint /\ d.turn = c.turn /\ d.began = c.began
    BY <2>1 DEF Checkpoint
  <2>3. ckptDisk' = Over({d}, ckptDisk)
    BY <1>2
  <2> HIDE DEF d
  <2> QED
    BY <2>2, <2>3
<1> QED
  BY <1>1, <1>2 DEF SaveFails

\* Every turn opens a checkpoint, changes only files it captured, and
\* adds a message to the conversation or none.
LEMMA TurnEnds ==
  ASSUME IInv, AnyTurn
  PROVE  \E c \in Checkpoint : Opens(c) /\ (Ended(c) \/ Died(c))
<1>0. orderly \in BOOLEAN /\ DOMAIN disk = Files
  BY DEF IInv, CountersOK, StoreOK, Images
<1>1. ASSUME NEW touched \in SUBSET Files, NEW deleted \in SUBSET touched, Turn(touched, deleted)
      PROVE  \E c \in Checkpoint : Opens(c) /\ (Ended(c) \/ Died(c))
  <2>1. turns < MaxTurns /\ disk' = Worked(touched, deleted) /\ disk' \in Images
    BY <1>1, TurnTypes DEF Turn
  <2>2. \A f \in Files \ touched : disk'[f] = disk[f]
    BY <2>1 DEF Worked
  <2>3. PICK saved \in BOOLEAN :
          IF saved THEN Save(Opened(touched, touched, saved))
          ELSE SaveFails(Opened(touched, touched, saved))
    BY <1>1 DEF Turn
  <2> DEFINE c == Opened(touched, touched, saved)
  <2>4. /\ c \in Checkpoint /\ c.turn = NextTurn /\ c.began = turns + 1 /\ c.boundary = Len(conv)
        /\ c.pre = disk /\ c.touched = touched /\ c.saved = saved
    BY <2>1, TurnTypes
  <2>5. IF saved THEN Save(c) ELSE SaveFails(c)
    BY <2>3
  <2> HIDE DEF c
  <2>6. Opens(c)
    BY <1>0, <1>1, <2>1, <2>2, <2>4 DEF Opens, Turn, control
  <2>7. Ended(c)
    BY <1>1, <2>4, <2>5, SaveFailsFacts DEF Ended, Turn, Save, SaveFails, control
  <2> QED
    BY <2>4, <2>6, <2>7
<1>2. ASSUME BlockedTurn
      PROVE  \E c \in Checkpoint : Opens(c) /\ (Ended(c) \/ Died(c))
  <2>1. turns < MaxTurns /\ disk' = disk /\ disk' \in Images
    BY <1>2 DEF BlockedTurn, IInv, StoreOK
  <2>3. PICK saved \in BOOLEAN :
          IF saved THEN Save(Opened({}, {}, saved)) ELSE SaveFails(Opened({}, {}, saved))
    BY <1>2 DEF BlockedTurn
  <2> DEFINE c == Opened({}, {}, saved)
  <2>4. /\ c \in Checkpoint /\ c.turn = NextTurn /\ c.began = turns + 1 /\ c.boundary = Len(conv)
        /\ c.pre = disk /\ c.saved = saved
    BY <2>1, TurnTypes
  <2>5. IF saved THEN Save(c) ELSE SaveFails(c)
    BY <2>3
  <2> HIDE DEF c
  <2>6. Opens(c)
    BY <1>0, <1>2, <2>1, <2>4 DEF Opens, BlockedTurn, control
  <2>7. Ended(c)
    BY <1>2, <2>4, <2>5, SaveFailsFacts DEF Ended, BlockedTurn, Save, SaveFails, control
  <2> QED
    BY <2>4, <2>6, <2>7
<1>3. ASSUME NEW touched \in SUBSET Files, NEW written \in SUBSET touched,
             NEW deleted \in SUBSET written, NEW owned \in SUBSET written,
             BrokenTurn(touched, written, deleted, owned)
      PROVE  \E c \in Checkpoint : Opens(c) /\ (Ended(c) \/ Died(c))
  <2>1. turns < MaxTurns /\ disk' = Worked(written, deleted) /\ disk' \in Images
    BY <1>3, TurnTypes DEF BrokenTurn
  <2>2. \A f \in Files \ touched : disk'[f] = disk[f]
    BY <2>1 DEF Worked
  <2> DEFINE c == Opened(touched, owned, TRUE)
  <2>4. /\ c \in Checkpoint /\ c.turn = NextTurn /\ c.began = turns + 1 /\ c.boundary = Len(conv)
        /\ c.pre = disk /\ c.touched = touched /\ c.saved = TRUE
    BY <2>1, TurnTypes
  <2>5. ckptDisk' = Over({c}, ckptDisk) /\ ckpt' = ckptDisk'
    BY <1>3 DEF BrokenTurn
  <2> HIDE DEF c
  <2>6. Opens(c)
    BY <1>0, <1>3, <2>1, <2>2, <2>4 DEF Opens, BrokenTurn
  <2>7. Died(c)
    BY <1>3, <2>4, <2>5 DEF Died, BrokenTurn
  <2> QED
    BY <2>4, <2>6, <2>7
<1> QED
  BY <1>1, <1>2, <1>3 DEF AnyTurn

\* A turn keeps the invariant, however it ends.
LEMMA TurnStep ==
  ASSUME IInv, AnyTurn
  PROVE  IInv'
<1>0. PICK c \in Checkpoint : Opens(c) /\ (Ended(c) \/ Died(c))
  BY TurnEnds
<1>1. turns \in Nat /\ turns + 1 <= MaxTurns /\ turns' = turns + 1
  BY <1>0, BoundsAssumption DEF Opens, IInv, CountersOK
<1>3. StoreOK'
  BY <1>0 DEF Opens, IInv, StoreOK
<1>4. ManifestsOK'
  <2>1. \A m \in Manifest : Bounded(m.backup, turns) => Bounded(m.backup, turns')
    BY <1>1 DEF Bounded, Manifest, Checkpoint
  <2>2. txs \in Seq(Manifest) /\ \A n \in DOMAIN txs : txs[n] \in Manifest
    BY ElementOfSeq, LenProperties DEF IInv, ManifestsOK
  <2>3. Len(mem) = 1 => mem[1] \in Manifest
    <3>1. mem \in Seq(Manifest)
      BY DEF IInv, ManifestsOK
    <3> QED
      BY <3>1, ElementOfSeq
  <2>4. \A n \in DOMAIN txs : Bounded(txs[n].backup, turns')
    BY <2>1, <2>2 DEF IInv, ManifestsOK
  <2>5. Len(mem) = 1 => Bounded(mem[1].backup, turns')
    BY <2>1, <2>3 DEF IInv, ManifestsOK, M
  <2>6. /\ UNCHANGED <<txs, cur, mem>> /\ lastUndo' = 0
        /\ \A n \in DOMAIN txs' : Bounded(txs'[n].backup, turns')
    BY <1>0, <2>4 DEF Opens
  <2> QED
    BY <2>2, <2>5, <2>6 DEF IInv, ManifestsOK, M, Bounded
<1>5. SessionOK'
  <2>1. 1 <= c.turn /\ c.turn <= turns' /\ c.began <= turns' /\ c.turn \in Nat
    BY <1>0, <1>1, NextTurnFacts DEF Opens
  <2>2. /\ ckpt \subseteq Checkpoint /\ Bounded(ckpt, turns)
        /\ ckptDisk \subseteq Checkpoint /\ Bounded(ckptDisk, turns)
    BY DEF IInv, SessionOK
  <2>3. \A cs \in SUBSET Checkpoint : Bounded(cs, turns) => Bounded(cs, turns')
    BY <1>1 DEF Bounded, Checkpoint
  <2>4. \A d \in Checkpoint : d.turn = c.turn /\ d.began = c.began =>
           Over({d}, ckptDisk) \subseteq Checkpoint /\ Bounded(Over({d}, ckptDisk), turns')
    BY <2>1, <2>2, <2>3 DEF Over, Bounded
  <2>5. ckptDisk' \subseteq Checkpoint /\ Bounded(ckptDisk', turns')
    BY <1>0, <2>2, <2>3, <2>4 DEF Ended, Died
  <2>6. ckpt' \subseteq Checkpoint /\ Bounded(ckpt', turns')
    BY <1>0, <2>1, <2>2, <2>3, <2>5 DEF Ended, Died, Bounded
  <2>7. conv \in Seq(Nat) /\ convDisk \in Seq(Nat) /\ Append(conv, turns + 1) \in Seq(Nat)
    BY <1>1 DEF IInv, SessionOK
  <2> QED
    BY <1>0, <2>5, <2>6, <2>7 DEF Ended, Died, SessionOK
<1>6. ControlOK'
  BY <1>0 DEF Opens, Ended, Died, IInv, ControlOK, Working
<1>7. CountersOK'
  BY <1>0, <1>1, BoundsAssumption DEF Opens, Calm, Fault, IInv, CountersOK
<1> QED
  BY <1>3, <1>4, <1>5, <1>6, <1>7 DEF IInv

\* The user changes a file outside the program.
LEMMA ExternalEditStep ==
  ASSUME IInv, NEW f \in Files, NEW image \in {Absent, EditImage(edits + 1)},
         ExternalEdit(f, image)
  PROVE  IInv'
<1>1. edits \in Nat /\ edits + 1 <= MaxEdits /\ edits' = edits + 1
  BY BoundsAssumption DEF ExternalEdit, IInv, CountersOK
<1>2. image \in Image
  BY <1>1, BoundsAssumption DEF Absent, Image, EditImage
<1>3. StoreOK'
  BY <1>2, WorkspaceWrite DEF ExternalEdit, IInv, StoreOK
<1>4. ManifestsOK' /\ SessionOK'
  BY DEF ExternalEdit, IInv, ManifestsOK, SessionOK, session, checkpoints, M
<1>5. ControlOK'
  BY DEF ExternalEdit, IInv, ControlOK, control, Working
<1>6. CountersOK'
  BY <1>1, BoundsAssumption DEF ExternalEdit, IInv, CountersOK
<1> QED
  BY <1>3, <1>4, <1>5, <1>6 DEF IInv

\* A crash or a shutdown forgets everything that is not durable.
LEMMA StopStep ==
  ASSUME IInv, NEW files, files \subseteq HalfDone \cup {ckptDisk}, Stop(files), Calm \/ Fault
  PROVE  IInv'
<1>1. mem' \in Seq(Manifest) /\ Len(mem') = 0
  BY DEF Stop
<1>2. ManifestsOK'
  BY <1>1 DEF Stop, IInv, ManifestsOK
<1>3. ControlOK'
  BY DEF Stop, IInv, ControlOK, Working
<1>4. StoreOK' /\ SessionOK'
  <2>1. ckptDisk' \subseteq Checkpoint /\ Bounded(ckptDisk', turns)
    BY HalfDoneFacts DEF Stop, IInv, SessionOK
  <2> QED
    BY <2>1 DEF Stop, IInv, StoreOK, SessionOK, store
<1>5. CountersOK'
  BY BoundsAssumption DEF Stop, Resumable, Leftover, Lost, Calm, Fault, IInv, CountersOK
<1> QED
  BY <1>2, <1>3, <1>4, <1>5 DEF IInv

-----------------------------------------------------------------------------
(* Preparing *)

\* What the three requests do alike: a manifest is added as the newest, with some
\* of its temporaries; nothing else moves.
Row(m, left) == [f \in Files |-> IF f \in left THEN m.restore[f] ELSE Absent]
Adds(m) ==
  /\ pc = "idle" /\ Len(txs) + 1 <= MaxTransactions /\ txs' = Append(txs, m)
  /\ UNCHANGED <<disk, bak, lastUndo, session, at, todo, pass, stateErr, compErr, turns, edits>>
  /\ \E left \in SUBSET m.paths :
       /\ tmp' = [tmp EXCEPT ![Len(txs) + 1] = Row(m, left)]
       /\ \/ /\ m.state = "prepared" /\ left = m.paths /\ UNCHANGED litter
             /\ orderly' = (orderly /\ NoManifestCommitting /\ convDisk = conv
                            /\ (m.kind = "undo" => NoTurnSince(m)))
             /\ \/ Calm /\ pc' = "prepared" /\ cur' = Len(txs) + 1 /\ mem' = <<m>>
                \/ Fault /\ UNCHANGED <<pc, cur, mem>>
          \/ /\ m.state \in {"aborted", "prepared"} /\ (m.kind = "rewind" => m.state = "aborted")
             /\ Fault /\ UNCHANGED <<pc, cur, mem, orderly>>
             /\ litter' = litter \cup ({Len(txs) + 1} \X left)

\* Where a request gets its manifest from; its state apart.
SameButState(m, o) == \E s \in {"prepared", "aborted"} : m = [o EXCEPT !.state = s]
Rewinds(m, t, scope) ==
  /\ t \in TurnsOf(ckpt) /\ scope \in Scopes \ {"file"} /\ RewindAllowed(t, scope)
  /\ SameButState(m, RewindManifest(t, scope))
Reverts(m, f) ==
  /\ f \in Files /\ "file" \in Scopes /\ f \in TouchedFrom(1)
  /\ SameButState(m, FileRevertManifest(f))
Undoes(m) == UndoAllowed(lastUndo) /\ SameButState(m, UndoManifest(lastUndo))
Asked(m) == (\E t, scope : Rewinds(m, t, scope)) \/ (\E f : Reverts(m, f)) \/ Undoes(m)

\* Beginning, leaving behind and abandoning add a manifest.
LEMMA StagingAdds ==
  ASSUME IInv, NEW o \in Manifest, o.state = "prepared",
         Begin(o) \/ (StageAs(o) /\ Fault /\ UNCHANGED <<pc, cur, mem>>)
         \/ Abandon(o, {"aborted"}) \/ (o.kind = "undo" /\ Abandon(o, {"aborted", "prepared"}))
  PROVE  \E m : SameButState(m, o) /\ Adds(m)
<1>1. CASE Begin(o) \/ (StageAs(o) /\ Fault /\ UNCHANGED <<pc, cur, mem>>)
  <2>1. o = [o EXCEPT !.state = "prepared"]
    BY DEF Manifest
  <2>2. Adds(o)
    BY <1>1 DEF Adds, Begin, StageAs, Row
  <2> QED
    BY <2>1, <2>2 DEF SameButState
<1>2. CASE Abandon(o, {"aborted"}) \/ (o.kind = "undo" /\ Abandon(o, {"aborted", "prepared"}))
  <2>1. PICK s \in {"prepared", "aborted"} : /\ txs' = Append(txs, [o EXCEPT !.state = s])
                                             /\ o.kind = "undo" \/ s = "aborted"
    BY <1>2 DEF Abandon
  <2> DEFINE m == [o EXCEPT !.state = s]
  <2>2. m.state = s /\ m.paths = o.paths /\ m.restore = o.restore /\ m.kind = o.kind
    BY DEF Manifest
  <2>3. txs' = Append(txs, m)
    BY <2>1
  <2> HIDE DEF m
  <2>4. PICK left \in SUBSET m.paths :
          /\ tmp' = [tmp EXCEPT ![Len(txs) + 1] = Row(m, left)]
          /\ litter' = litter \cup ({Len(txs) + 1} \X left)
    BY <1>2, <2>2 DEF Abandon, Row
  <2>5. Adds(m)
    BY <1>2, <2>1, <2>2, <2>3, <2>4 DEF Adds, Abandon, control
  <2> QED
    BY <2>5 DEF SameButState, m
<1> QED
  BY <1>1, <1>2

\* A request for its manifest and what it makes of it.
LEMMA NewestManifest ==
  ASSUME IInv, NEW m \in Manifest, txs' = Append(txs, m)
  PROVE  /\ txs' \in Seq(Manifest) /\ Len(txs') = Len(txs) + 1 /\ Len(txs) \in Nat
         /\ DOMAIN txs = 1..Len(txs) /\ DOMAIN txs' = 1..(Len(txs) + 1)
         /\ \A n \in 1..Len(txs) : txs'[n] = txs[n]
         /\ txs'[Len(txs) + 1] = m
<1>1. txs \in Seq(Manifest) /\ Len(txs) \in Nat /\ DOMAIN txs = 1..Len(txs)
  BY LenProperties DEF IInv, ManifestsOK
<1>2. /\ txs' \in Seq(Manifest) /\ Len(txs') = Len(txs) + 1
      /\ \A n \in 1..Len(txs) : txs'[n] = txs[n]
      /\ txs'[Len(txs) + 1] = m
  BY <1>1, AppendProperties
<1> QED
  BY <1>1, <1>2, LenProperties

\* Adding a manifest keeps the invariant.
LEMMA AddsStep ==
  ASSUME IInv, NEW m \in Manifest, Bounded(m.backup, turns), Adds(m)
  PROVE  IInv'
<1> DEFINE n == Len(txs) + 1
<1>1. /\ txs' \in Seq(Manifest) /\ Len(txs') = n /\ Len(txs) \in Nat
      /\ DOMAIN txs = 1..Len(txs) /\ DOMAIN txs' = 1..n
      /\ \A i \in 1..Len(txs) : txs'[i] = txs[i]
      /\ txs'[n] = m /\ UNCHANGED turns
  BY NewestManifest DEF Adds
<1>2. \A i \in DOMAIN txs' : Bounded(txs'[i].backup, turns')
  <2> SUFFICES ASSUME NEW i \in DOMAIN txs' PROVE Bounded(txs'[i].backup, turns)
    BY <1>1
  <2>1. CASE i = n
    BY <1>1, <2>1
  <2>2. CASE i \in 1..Len(txs)
    BY <1>1, <2>2 DEF IInv, ManifestsOK
  <2> QED
    BY <1>1, <2>1, <2>2
<1>3. n \in TxIds /\ n <= MaxTransactions
  BY <1>1, BoundsAssumption DEF Adds, TxIds
<1>4. PICK left \in SUBSET m.paths :
        /\ tmp' = [tmp EXCEPT ![n] = Row(m, left)]
        /\ litter' \in {litter, litter \cup ({n} \X left)}
  BY DEF Adds
<1> HIDE DEF n
<1>5. StoreOK'
  <2>1. Absent \in Image /\ m.restore \in Images
    BY BoundsAssumption DEF Absent, Image, EditImage, Manifest
  <2>2. Row(m, left) \in Images
    BY <2>1 DEF Row, Images
  <2> QED
    BY <1>4, <2>2 DEF Adds, IInv, StoreOK
<1>6. SessionOK'
  BY DEF Adds, IInv, SessionOK, session, checkpoints
<1>7. ManifestsOK'
  <2>1. CASE UNCHANGED <<cur, mem>>
    BY <1>1, <1>2, <1>3, <2>1 DEF Adds, IInv, ManifestsOK, M
  <2>2. CASE cur' = n /\ mem' = <<m>>
    <3>1. mem' \in Seq(Manifest) /\ Len(mem') = 1 /\ mem'[1] = m
      BY <2>2
    <3> QED
      BY <1>1, <1>2, <1>3, <2>2, <3>1 DEF Adds, IInv, ManifestsOK, M
  <2> QED
    BY <2>1, <2>2 DEF Adds, n
<1>8. ControlOK'
  <2>1. CASE UNCHANGED <<pc, cur, mem>>
    BY <2>1 DEF Adds, IInv, ControlOK, Working
  <2>2. CASE pc' = "prepared" /\ cur' = n /\ mem' = <<m>>
    <3>1. Len(mem') = 1 /\ cur' # 0
      BY <1>1, <2>2 DEF n
    <3> QED
      BY <2>2, <3>1 DEF Adds, IInv, ControlOK, Working
  <2> QED
    BY <2>1, <2>2 DEF Adds, n
<1>9. CountersOK'
  <2>1. m.paths \subseteq Files /\ orderly' \in BOOLEAN
    BY DEF Manifest, Adds, IInv, CountersOK
  <2>2. litter' \subseteq TxIds \X Files
    BY <1>3, <1>4, <2>1 DEF IInv, CountersOK
  <2> QED
    BY <2>1, <2>2, BoundsAssumption DEF Adds, Calm, Fault, IInv, CountersOK
<1> QED
  BY <1>5, <1>6, <1>7, <1>8, <1>9 DEF IInv

\* The preimage a rewind restores is one that a checkpoint captured.
LEMMA EarliestPreFacts ==
  ASSUME IInv, NEW t \in Nat, NEW f \in TouchedFrom(t)
  PROVE  EarliestPre(t, f) \in Image
<1> DEFINE s == Min(Touching(t, f))
<1>1. Touching(t, f) \in SUBSET Nat /\ Touching(t, f) # {} /\ f \in Files
  BY DEF TouchedFrom, Touching, IInv, SessionOK, Checkpoint
<1>2. s \in Touching(t, f)
  BY <1>1, MinFacts
<1>3. \E c \in ckpt : c.turn = s
  BY <1>2 DEF Touching
<1>4. CheckpointOf(s) \in ckpt
  BY <1>3 DEF CheckpointOf
<1> HIDE DEF s
<1>5. CheckpointOf(s).pre[f] \in Image
  BY <1>1, <1>4 DEF IInv, SessionOK, Checkpoint, Images
<1> QED
  BY <1>5 DEF EarliestPre, s

\* PrepareRewind builds a well-formed manifest from the checkpoints.
LEMMA RewindManifestFacts ==
  ASSUME IInv, NEW t \in TurnsOf(ckpt), NEW scope \in Scopes
  PROVE  /\ RewindManifest(t, scope) \in Manifest
         /\ Bounded(RewindManifest(t, scope).backup, turns)
<1> DEFINE backup == IF WantsConversation(scope) THEN CheckpointsFrom(t) ELSE {}
           restore == [f \in Files |-> IF f \in TouchedFrom(t) THEN EarliestPre(t, f)
                                       ELSE disk[f]]
           paths == IF WantsFiles(scope) THEN TouchedFrom(t) ELSE {}
<1>1. t \in Nat /\ CheckpointOf(t) \in Checkpoint
  <2>1. \E c \in ckpt : c.turn = t
    BY DEF TurnsOf
  <2>2. CheckpointOf(t) \in ckpt
    BY <2>1 DEF CheckpointOf
  <2> QED
    BY <2>1, <2>2 DEF IInv, SessionOK, Checkpoint
<1>2. backup \in SUBSET Checkpoint /\ Bounded(backup, turns)
  BY DEF CheckpointsFrom, IInv, SessionOK, Bounded
<1>3. restore \in Images /\ disk \in Images
  BY <1>1, EarliestPreFacts DEF IInv, StoreOK, Images
<1>4. paths \in SUBSET Files
  BY DEF TouchedFrom
<1>5. CheckpointOf(t).boundary \in Nat /\ conv \in Seq(Nat) /\ turns \in Nat
  BY <1>1, BoundsAssumption DEF IInv, SessionOK, CountersOK, Checkpoint
<1>6. RewindManifest(t, scope) =
        [kind |-> "rewind", state |-> "prepared", parent |-> 0, scope |-> scope,
         turn |-> t, boundary |-> CheckpointOf(t).boundary, forward |-> conv, when |-> turns,
         backup |-> backup, paths |-> paths, published |-> {},
         restore |-> restore, fwd |-> disk]
  BY DEF RewindManifest
<1> HIDE DEF backup, restore, paths
<1> QED
  BY <1>1, <1>2, <1>3, <1>4, <1>5, <1>6 DEF Manifest

\* CommitFileRevert builds a well-formed manifest for its file.
LEMMA FileRevertManifestFacts ==
  ASSUME IInv, NEW f \in Files, f \in TouchedFrom(1), "file" \in Scopes
  PROVE  /\ FileRevertManifest(f) \in Manifest
         /\ Bounded(FileRevertManifest(f).backup, turns)
<1> DEFINE restore == [disk EXCEPT ![f] = EarliestPre(1, f)]
<1>1. EarliestPre(1, f) \in Image
  BY EarliestPreFacts
<1>2. restore \in Images /\ disk \in Images /\ conv \in Seq(Nat) /\ turns \in Nat
  BY <1>1, BoundsAssumption DEF IInv, StoreOK, SessionOK, CountersOK, Images
<1>3. FileRevertManifest(f) =
        [kind |-> "rewind", state |-> "prepared", parent |-> 0, scope |-> "file",
         turn |-> 1, boundary |-> 0, forward |-> conv, when |-> turns, backup |-> {},
         paths |-> {f}, published |-> {}, restore |-> restore, fwd |-> disk]
  BY DEF FileRevertManifest
<1> HIDE DEF restore
<1> QED
  BY <1>2, <1>3 DEF Manifest, Bounded

\* UndoRewind builds a well-formed manifest from the rewind it reverts.
LEMMA UndoManifestFacts ==
  ASSUME IInv, NEW n \in 1..Len(txs)
  PROVE  UndoManifest(n) \in Manifest /\ Bounded(UndoManifest(n).backup, turns)
<1>1. txs[n] \in Manifest /\ n \in Nat /\ n \in DOMAIN txs
  BY ElementOfSeq, LenProperties DEF IInv, ManifestsOK
<1>2. UndoManifest(n) \in Manifest /\ UndoManifest(n).backup = txs[n].backup
  BY <1>1 DEF UndoManifest, Manifest
<1> QED
  BY <1>1, <1>2 DEF IInv, ManifestsOK

\* A manifest and the one it was made from.
LEMMA ButState ==
  ASSUME NEW o \in Manifest, NEW m, SameButState(m, o)
  PROVE  /\ m \in Manifest /\ m.state \in {"prepared", "aborted"}
         /\ m.kind = o.kind /\ m.parent = o.parent /\ m.scope = o.scope /\ m.turn = o.turn
         /\ m.boundary = o.boundary /\ m.forward = o.forward /\ m.when = o.when
         /\ m.backup = o.backup /\ m.paths = o.paths /\ m.published = o.published
         /\ m.restore = o.restore /\ m.fwd = o.fwd
  BY DEF Manifest, SameButState

\* Each request adds a manifest, and begins to execute it or does not.
LEMMA RequestAdds ==
  ASSUME IInv, Request
  PROVE  \E m \in Manifest : Bounded(m.backup, turns) /\ Adds(m) /\ Asked(m)
<1>1. ASSUME NEW t \in TurnsOf(ckpt), NEW scope \in Scopes \ {"file"}, PrepareTransaction(t, scope)
      PROVE  \E m \in Manifest : Bounded(m.backup, turns) /\ Adds(m) /\ Asked(m)
  <2> DEFINE o == RewindManifest(t, scope)
  <2>1. o \in Manifest /\ Bounded(o.backup, turns) /\ o.state = "prepared"
    BY RewindManifestFacts DEF RewindManifest
  <2>2. /\ RewindAllowed(t, scope)
        /\ Begin(o) \/ (StageAs(o) /\ Fault /\ UNCHANGED <<pc, cur, mem>>) \/ Abandon(o, {"aborted"})
    BY <1>1 DEF PrepareTransaction
  <2> HIDE DEF o
  <2>3. PICK m : SameButState(m, o) /\ Adds(m)
    BY <2>1, <2>2, StagingAdds
  <2>4. m \in Manifest /\ m.backup = o.backup
    BY <2>1, <2>3, ButState
  <2>5. Asked(m)
    BY <2>2, <2>3 DEF Asked, Rewinds, o
  <2> QED
    BY <2>1, <2>3, <2>4, <2>5
<1>2. ASSUME NEW f \in Files, FileRevert(f)
      PROVE  \E m \in Manifest : Bounded(m.backup, turns) /\ Adds(m) /\ Asked(m)
  <2> DEFINE o == FileRevertManifest(f)
  <2>1. o \in Manifest /\ Bounded(o.backup, turns) /\ o.state = "prepared"
    BY <1>2, FileRevertManifestFacts DEF FileRevert, FileRevertManifest
  <2>2. Begin(o) \/ Abandon(o, {"aborted"})
    BY <1>2 DEF FileRevert
  <2> HIDE DEF o
  <2>3. PICK m : SameButState(m, o) /\ Adds(m)
    BY <2>1, <2>2, StagingAdds
  <2>4. m \in Manifest /\ m.backup = o.backup
    BY <2>1, <2>3, ButState
  <2>5. Asked(m)
    BY <1>2, <2>3 DEF Asked, Reverts, o, FileRevert
  <2> QED
    BY <2>1, <2>3, <2>4, <2>5
<1>3. ASSUME UndoRewind(lastUndo)
      PROVE  \E m \in Manifest : Bounded(m.backup, turns) /\ Adds(m) /\ Asked(m)
  <2>0. lastUndo \in 1..Len(txs)
    BY <1>3 DEF UndoRewind, UndoAllowed, IInv, ManifestsOK
  <2> DEFINE o == UndoManifest(lastUndo)
  <2>1. o \in Manifest /\ Bounded(o.backup, turns)
    BY <2>0, UndoManifestFacts
  <2>6. o.state = "prepared" /\ o.kind = "undo"
    <3>1. txs[lastUndo] \in Manifest
      BY <2>0, ElementOfSeq DEF IInv, ManifestsOK
    <3> QED
      BY <3>1 DEF UndoManifest, Manifest
  <2>2. Begin(o) \/ Abandon(o, {"aborted", "prepared"})
    BY <1>3 DEF UndoRewind
  <2> HIDE DEF o
  <2>3. PICK m : SameButState(m, o) /\ Adds(m)
    BY <2>1, <2>2, <2>6, StagingAdds
  <2>4. m \in Manifest /\ m.backup = o.backup
    BY <2>1, <2>3, ButState
  <2>5. Asked(m)
    BY <1>3, <2>3 DEF Asked, Undoes, o, UndoRewind
  <2> QED
    BY <2>1, <2>3, <2>4, <2>5
<1> QED
  BY <1>1, <1>2, <1>3 DEF Request

\* What is new in a manifest, whoever asked for it.
LEMMA AskedFacts ==
  ASSUME IInv, NEW m \in Manifest, Asked(m)
  PROVE  /\ m.published = {} /\ m.state \in {"prepared", "aborted"}
         /\ \A f \in m.paths : disk[f] = m.fwd[f]
         /\ m.kind = "rewind" => m.forward = conv /\ m.when = turns /\ m.fwd = disk /\ m.parent = 0
         /\ m.kind = "undo" =>
              /\ lastUndo \in DOMAIN txs /\ txs[lastUndo] \in Manifest
              /\ m.parent = lastUndo /\ txs[lastUndo].state = "committed"
              /\ m = [UndoManifest(lastUndo) EXCEPT !.state = m.state]
              /\ m.paths = txs[lastUndo].paths /\ m.scope = txs[lastUndo].scope
              /\ m.turn = txs[lastUndo].turn /\ m.boundary = txs[lastUndo].boundary
              /\ m.forward = txs[lastUndo].forward /\ m.when = txs[lastUndo].when
              /\ m.backup = txs[lastUndo].backup /\ m.fwd = txs[lastUndo].restore
              /\ m.restore = txs[lastUndo].fwd
<1>1. ASSUME NEW t, NEW scope, Rewinds(m, t, scope)
      PROVE  /\ m.published = {} /\ m.kind = "rewind" /\ m.fwd = disk /\ m.parent = 0
             /\ m.state \in {"prepared", "aborted"} /\ m.forward = conv /\ m.when = turns
  <2>1. RewindManifest(t, scope) \in Manifest
    BY <1>1, RewindManifestFacts DEF Rewinds
  <2> QED
    BY <1>1, <2>1, ButState DEF Rewinds, RewindManifest
<1>2. ASSUME NEW f, Reverts(m, f)
      PROVE  /\ m.published = {} /\ m.kind = "rewind" /\ m.fwd = disk /\ m.parent = 0
             /\ m.state \in {"prepared", "aborted"} /\ m.forward = conv /\ m.when = turns
  <2>1. FileRevertManifest(f) \in Manifest
    BY <1>2, FileRevertManifestFacts DEF Reverts
  <2> QED
    BY <1>2, <2>1, ButState DEF Reverts, FileRevertManifest
<1>3. ASSUME Undoes(m)
      PROVE  /\ m.published = {} /\ m.kind = "undo" /\ m.state \in {"prepared", "aborted"}
             /\ \A f \in m.paths : disk[f] = m.fwd[f]
             /\ lastUndo \in DOMAIN txs /\ txs[lastUndo] \in Manifest
             /\ m.parent = lastUndo /\ txs[lastUndo].state = "committed"
             /\ m = [UndoManifest(lastUndo) EXCEPT !.state = m.state]
             /\ m.paths = txs[lastUndo].paths /\ m.scope = txs[lastUndo].scope
             /\ m.turn = txs[lastUndo].turn /\ m.boundary = txs[lastUndo].boundary
             /\ m.forward = txs[lastUndo].forward /\ m.when = txs[lastUndo].when
             /\ m.backup = txs[lastUndo].backup /\ m.fwd = txs[lastUndo].restore
             /\ m.restore = txs[lastUndo].fwd
  <2>1. lastUndo \in 1..Len(txs) /\ txs[lastUndo].state = "committed"
    BY <1>3 DEF Undoes, UndoAllowed, IInv, ManifestsOK
  <2>2. lastUndo \in DOMAIN txs /\ txs[lastUndo] \in Manifest
    BY <2>1, ElementOfSeq, LenProperties DEF IInv, ManifestsOK
  <2> DEFINE o == UndoManifest(lastUndo)
  <2>3. o \in Manifest
    BY <2>1, UndoManifestFacts
  <2>4. /\ o.published = {} /\ o.kind = "undo" /\ o.parent = lastUndo
        /\ o.paths = txs[lastUndo].paths /\ o.scope = txs[lastUndo].scope
        /\ o.turn = txs[lastUndo].turn /\ o.boundary = txs[lastUndo].boundary
        /\ o.forward = txs[lastUndo].forward /\ o.when = txs[lastUndo].when
        /\ o.backup = txs[lastUndo].backup /\ o.fwd = txs[lastUndo].restore
        /\ o.restore = txs[lastUndo].fwd
    BY <2>2 DEF UndoManifest, Manifest
  <2>5. SameButState(m, o) /\ \A f \in txs[lastUndo].paths : disk[f] = txs[lastUndo].restore[f]
    BY <1>3 DEF Undoes, UndoAllowed
  <2> HIDE DEF o
  <2>6. m = [o EXCEPT !.state = m.state]
    BY <2>3, <2>5 DEF SameButState, Manifest
  <2>7. m.published = {} /\ m.kind = "undo" /\ m.state \in {"prepared", "aborted"}
    BY <2>3, <2>4, <2>5, ButState
  <2> QED
    BY <2>1, <2>2, <2>3, <2>4, <2>5, <2>6, <2>7, ButState DEF o
<1> QED
  BY <1>1, <1>2, <1>3, Zenon DEF Asked

\* The requests keep the invariant.
LEMMA RequestStep == IInv /\ Request => IInv'
  BY RequestAdds, AddsStep

-----------------------------------------------------------------------------
(* Type correctness *)

\* Every step of a transaction keeps the invariant.
LEMMA CommitStep == IInv /\ Commit => IInv'
  BY BeginCommitStep, PersistIntentStep, BackupTargetStep, PublishTargetStep, ProgressStep,
     CommitConversationStep, CommitCheckpointsStep, FinalizeStep, MarkUndoneStep DEF Commit

\* Every step of a compensation or a recovery keeps the invariant.
LEMMA RecoverStep == IInv /\ Recover => IInv'
  BY CompensateConversationStep, CompensateCheckpointsStep, CompensateFileStep,
     CompensationDoneStep, VerdictStep, StartStep, RecoverPreparedStep,
     RecoverCommittingStep, PassDoneStep DEF Recover

\* A turn, an outside edit, a crash and a shutdown keep the invariant.
LEMMA EnvironmentStep == IInv /\ Environment => IInv'
<1> SUFFICES ASSUME IInv, Environment PROVE IInv'
  OBVIOUS
<1>1. CASE AnyTurn
  BY <1>1, TurnStep
<1>2. CASE \E f \in Files : \E image \in {Absent, EditImage(edits + 1)} :
             ExternalEdit(f, image)
  BY <1>2, ExternalEditStep
<1>3. CASE Crash
  BY <1>3, StopStep DEF Crash
<1>4. CASE Shutdown
  BY <1>4, StopStep DEF Shutdown
<1> QED
  BY <1>1, <1>2, <1>3, <1>4 DEF Environment, AnyTurn

\* IInv is inductive.
LEMMA NextStep == IInv /\ [Next]_vars => IInv'
<1> SUFFICES ASSUME IInv, [Next]_vars PROVE IInv'
  OBVIOUS
<1>1. CASE Environment
  BY <1>1, EnvironmentStep
<1>2. CASE Request
  BY <1>2, RequestStep
<1>3. CASE Commit
  BY <1>3, CommitStep
<1>4. CASE Recover
  BY <1>4, RecoverStep
<1>5. CASE UNCHANGED vars
  <2>1. StoreOK' /\ SessionOK'
    BY <1>5 DEF vars, store, session, checkpoints, counters, IInv, StoreOK, SessionOK
  <2>2. ManifestsOK'
    BY <1>5 DEF vars, counters, IInv, ManifestsOK, M
  <2>3. ControlOK' /\ CountersOK'
    BY <1>5 DEF vars, control, counters, IInv, ControlOK, CountersOK
  <2> QED
    BY <2>1, <2>2, <2>3 DEF IInv
<1> QED
  BY <1>1, <1>2, <1>3, <1>4, <1>5 DEF Next

\* IInv holds throughout every behaviour of the transaction store.
THEOREM Inductive == Spec => []IInv
  BY InitIInv, NextStep, PTL DEF Spec

\* Every variable of the rewind transaction keeps its type, whatever the set
\* of files and however many turns, transactions, edits and faults there are.
THEOREM Types == Spec => []TypeOK
  BY Inductive, IInvTypes, PTL

-----------------------------------------------------------------------------
(* The inductive invariant behind CommitIsWhole *)

\* The steps of a transaction on its way to the commit point.
Forward ==
  {"prepared", "intent", "backup", "publish", "progress", "convo", "ckpts", "finalize"}

\* The path whose publication is recorded but not finished.
InHand(f) == pc \in {"backup", "publish"} /\ f = at

\* What is still to be published waits in the temporaries ...
Waiting(m) ==
  /\ \A f \in m.paths \ m.published : tmp[cur][f] = m.restore[f]
  /\ pc \in {"backup", "publish"} =>
       at \in m.published /\ tmp[cur][at] = m.restore[at]

\* ... what is published is in the workspace ...
InPlace(m) == \A f \in m.published : InHand(f) \/ disk[f] = m.restore[f]
NoneLeft(m) == pc \in {"convo", "ckpts", "finalize"} => m.paths \subseteq m.published

\* ... and the conversation moves from one end of the manifest to the other.
Moved(m) ==
  /\ m.kind = "rewind" /\ pc \notin {"ckpts", "finalize"} => conv = m.forward
  /\ pc \in {"ckpts", "finalize"} => ConversationAt(m, m.kind = "undo")

Progress(m) == Waiting(m) /\ InPlace(m) /\ NoneLeft(m) /\ Moved(m)

\* CommitIsWhole speaks of one step; what makes it true was done by all the
\* steps before it, so the invariant follows the manifest from its preparation,
\* in memory and on disk alike.
Underway == pc \in Forward => M = txs[cur] /\ Progress(M)
CInv == IInv /\ Underway

\* Away from the forward steps nothing is claimed.
LEMMA NotUnderway == pc' \notin Forward => Underway'
  BY DEF Underway

\* Recording a path as published changes nothing else in a manifest.
LEMMA PublishedFields ==
  ASSUME NEW m \in Manifest, NEW f \in Files
  PROVE  LET n == [m EXCEPT !.published = @ \cup {f}]
         IN /\ n.published = m.published \cup {f} /\ n.paths = m.paths
            /\ n.restore = m.restore /\ n.kind = m.kind /\ n.scope = m.scope
            /\ n.forward = m.forward /\ n.boundary = m.boundary /\ n.state = m.state
  BY DEF Manifest

\* Changing the state of a manifest changes nothing else in it.
LEMMA StateFields ==
  ASSUME NEW m \in Manifest, NEW s
  PROVE  LET n == [m EXCEPT !.state = s]
         IN /\ n.state = s /\ n.published = m.published /\ n.paths = m.paths
            /\ n.restore = m.restore /\ n.kind = m.kind /\ n.scope = m.scope
            /\ n.forward = m.forward /\ n.boundary = m.boundary
  BY DEF Manifest

\* A persist that succeeds leaves the same manifest in memory and on disk.
LEMMA PersistedEverywhere ==
  ASSUME IInv, pc \in Working, NEW m, Persist(m), UNCHANGED cur
  PROVE  M' = m /\ txs'[cur'] = m
<1>1. cur \in DOMAIN txs
  BY InMemory, LenProperties DEF IInv, ManifestsOK
<1> QED
  BY <1>1 DEF Persist, M

-----------------------------------------------------------------------------
(* Each step on the way to the commit point *)

\* A request that begins finds its temporaries staged and nothing published.
LEMMA RequestUnderway == CInv /\ Request => Underway'
<1> SUFFICES ASSUME CInv, Request PROVE Underway'
  OBVIOUS
<1>0. PICK m \in Manifest : Adds(m) /\ Asked(m)
  BY RequestAdds DEF CInv
<1>1. CASE UNCHANGED pc
  BY <1>0, <1>1, NotUnderway DEF Adds, Forward
<1>2. CASE ~UNCHANGED pc
  <2>1. /\ tmp' = [tmp EXCEPT ![Len(txs) + 1] = Row(m, m.paths)]
        /\ pc' = "prepared" /\ cur' = Len(txs) + 1 /\ mem' = <<m>> /\ UNCHANGED conv
        /\ txs' = Append(txs, m) /\ Len(txs) + 1 <= MaxTransactions
    BY <1>0, <1>2 DEF Adds, session
  <2>2. Len(txs) \in Nat /\ Len(txs) + 1 \in TxIds /\ M' = m /\ txs'[cur'] = m
    BY <2>1, NewestManifest, BoundsAssumption DEF CInv, TxIds, M
  <2>3. \A f \in m.paths : tmp'[cur'][f] = m.restore[f]
    <3>1. m.paths \subseteq Files /\ tmp \in [TxIds -> Images]
      BY DEF Manifest, CInv, IInv, StoreOK
    <3> QED
      BY <2>1, <2>2, <3>1 DEF Row
  <2>4. m.published = {} /\ (m.kind = "rewind" => m.forward = conv)
    BY <1>0, AskedFacts DEF CInv
  <2> QED
    BY <2>1, <2>2, <2>3, <2>4 DEF Underway, Progress, Waiting, InPlace, NoneLeft, Moved, InHand, Manifest
<1> QED
  BY <1>1, <1>2

\* BeginCommit changes the state of the manifest alone.
LEMMA BeginCommitUnderway == CInv /\ BeginCommit => Underway'
<1> SUFFICES ASSUME CInv, BeginCommit PROVE Underway'
  OBVIOUS
<1> DEFINE m == [M EXCEPT !.state = "committing"]
<1>1. pc \in Working /\ pc \in Forward /\ pc = "prepared"
  BY DEF BeginCommit, Working, Forward
<1>2. \/ Persist(m) /\ pc' = "intent"
      \/ pc' = "comp"
  BY DEF BeginCommit, Compensate
<1>3. M \in Manifest
  BY <1>1, InMemory DEF CInv
<1>4. /\ m.published = M.published /\ m.paths = M.paths /\ m.restore = M.restore
      /\ m.kind = M.kind /\ m.forward = M.forward
  BY <1>3, StateFields
<1> HIDE DEF m
<1>5. CASE Persist(m) /\ pc' = "intent"
  <2>1. M' = m /\ txs'[cur'] = m
    BY <1>1, <1>5, PersistedEverywhere DEF BeginCommit, CInv
  <2>2. UNCHANGED <<tmp, disk, conv, cur>>
    BY DEF BeginCommit, store, session
  <2>3. Progress(M)
    BY <1>1 DEF CInv, Underway
  <2> QED
    BY <1>1, <1>4, <1>5, <2>1, <2>2, <2>3 DEF Underway, Progress, Waiting, InPlace, NoneLeft, Moved, InHand
<1> QED
  BY <1>2, <1>5, NotUnderway DEF Forward

\* PersistIntent takes the next path in hand while its temporary still waits.
LEMMA PersistIntentUnderway == CInv /\ PersistIntent => Underway'
<1> SUFFICES ASSUME CInv, PersistIntent PROVE Underway'
  OBVIOUS
<1> DEFINE f == Min(Unpublished)
           m == [M EXCEPT !.published = @ \cup {f}]
<1>1. pc \in Working /\ pc \in Forward /\ pc = "intent"
  BY DEF PersistIntent, Working, Forward
<1>2. M \in Manifest /\ Progress(M)
  BY <1>1, InMemory DEF CInv, Underway
<1>3. f \in M.paths \ M.published /\ f \in Files
  <2>1. Unpublished \in SUBSET Nat /\ Unpublished # {} /\ M.paths \subseteq Files
    BY <1>2, BoundsAssumption DEF PersistIntent, Unpublished, Manifest
  <2>2. f \in Unpublished
    BY <2>1, MinFacts
  <2> QED
    BY <2>1, <2>2 DEF Unpublished
<1>4. /\ m.published = M.published \cup {f} /\ m.paths = M.paths
      /\ m.restore = M.restore /\ m.kind = M.kind /\ m.forward = M.forward
  BY <1>2, <1>3, PublishedFields
<1>5. \/ Persist(m) /\ at' = f /\ pc' = "backup"
      \/ pc' = "comp"
  BY DEF PersistIntent, Compensate
<1> HIDE DEF m, f
<1>6. CASE Persist(m) /\ at' = f /\ pc' = "backup"
  <2>1. M' = m /\ txs'[cur'] = m
    BY <1>1, <1>6, PersistedEverywhere DEF PersistIntent, CInv
  <2>2. UNCHANGED <<tmp, disk, conv, cur>>
    BY DEF PersistIntent, store, session
  <2>3. Waiting(M)' /\ InPlace(M)'
    BY <1>1, <1>2, <1>3, <1>4, <1>6, <2>1, <2>2 DEF Progress, Waiting, InPlace, InHand
  <2>4. NoneLeft(M)' /\ Moved(M)'
    BY <1>1, <1>2, <1>4, <1>6, <2>1, <2>2 DEF Progress, NoneLeft, Moved
  <2> QED
    BY <2>1, <2>3, <2>4 DEF Underway, Progress
<1> QED
  BY <1>5, <1>6, NotUnderway DEF Forward

\* The first rename empties the target; its image still waits, or there is
\* none to come.
LEMMA BackupTargetUnderway == CInv /\ BackupTarget => Underway'
<1> SUFFICES ASSUME CInv, BackupTarget PROVE Underway'
  OBVIOUS
<1>1. pc \in Working /\ pc \in Forward /\ pc = "backup"
  BY DEF BackupTarget, Working, Forward
<1>2. M \in Manifest /\ Progress(M) /\ M = txs[cur] /\ disk \in Images
  BY <1>1, InMemory DEF CInv, Underway, IInv, StoreOK
<1>3. CASE pc' = "comp"
  BY <1>3, NotUnderway DEF Forward
<1>4. CASE /\ disk' = [disk EXCEPT ![at] = Absent]
           /\ pc' = IF IsWrite(at) THEN "publish" ELSE "progress"
  <2>1. UNCHANGED <<tmp, conv, cur, txs, mem, at>> /\ M' = M
    BY DEF BackupTarget, session, M
  <2>2. Waiting(M)'
    BY <1>1, <1>2, <1>4, <2>1 DEF Progress, Waiting
  <2>3. at \in M.published /\ at \in DOMAIN disk
    BY <1>1, <1>2 DEF Progress, Waiting, CInv, IInv, ControlOK, Images
  <2>4. InPlace(M)'
    <3> SUFFICES ASSUME NEW f \in M.published PROVE InHand(f)' \/ disk'[f] = M.restore[f]
      BY <2>1 DEF InPlace
    <3>1. CASE f # at
      BY <1>2, <1>4, <3>1 DEF Progress, InPlace, InHand
    <3>2. CASE f = at
      BY <1>4, <2>1, <2>3, <3>2 DEF InHand, IsWrite
    <3> QED
      BY <3>1, <3>2
  <2>5. NoneLeft(M)' /\ Moved(M)'
    BY <1>1, <1>2, <1>4, <2>1 DEF Progress, NoneLeft, Moved
  <2> QED
    BY <1>2, <2>1, <2>2, <2>4, <2>5 DEF Underway, Progress
<1> QED
  BY <1>3, <1>4 DEF BackupTarget, Compensate

\* The second rename brings the waiting image into place.
LEMMA PublishTargetUnderway == CInv /\ PublishTarget => Underway'
<1> SUFFICES ASSUME CInv, PublishTarget PROVE Underway'
  OBVIOUS
<1>1. pc \in Working /\ pc \in Forward /\ pc = "publish"
  BY DEF PublishTarget, Working, Forward
<1>2. /\ M \in Manifest /\ Progress(M) /\ M = txs[cur] /\ disk \in Images
      /\ tmp \in [TxIds -> Images] /\ cur \in TxIds
  BY <1>1, InMemory DEF CInv, Underway, IInv, StoreOK
<1>3. CASE pc' = "comp"
  BY <1>3, NotUnderway DEF Forward
<1>4. CASE /\ pc' = "progress" /\ disk' = [disk EXCEPT ![at] = tmp[cur][at]]
           /\ tmp' = [tmp EXCEPT ![cur][at] = Absent]
  <2>1. UNCHANGED <<conv, cur, txs, mem, at>> /\ M' = M
    BY DEF PublishTarget, session, M
  <2>2. at \in M.published /\ at \in DOMAIN disk /\ tmp[cur][at] = M.restore[at]
    BY <1>1, <1>2 DEF Progress, Waiting, CInv, IInv, ControlOK, Images
  <2>3. Waiting(M)'
    <3> SUFFICES ASSUME NEW f \in M.paths \ M.published PROVE tmp'[cur][f] = M.restore[f]
      BY <1>4, <2>1 DEF Waiting
    <3>1. f # at /\ tmp[cur][f] = M.restore[f]
      BY <1>2, <2>2 DEF Progress, Waiting
    <3> QED
      BY <1>2, <1>4, <3>1 DEF Images
  <2>4. InPlace(M)'
    BY <1>2, <1>4, <2>1, <2>2 DEF Progress, InPlace, InHand
  <2>5. NoneLeft(M)' /\ Moved(M)'
    BY <1>1, <1>2, <1>4, <2>1 DEF Progress, NoneLeft, Moved
  <2> QED
    BY <1>2, <2>1, <2>3, <2>4, <2>5 DEF Underway, Progress
<1> QED
  BY <1>3, <1>4 DEF PublishTarget, Compensate

\* The persists between the paths; the last one leaves no path behind, and a
\* transaction without a conversation goes straight to the commit point.
LEMMA ProgressUnderway == CInv /\ (PersistProgress \/ FilesDone) => Underway'
<1> SUFFICES ASSUME CInv, PersistProgress \/ FilesDone PROVE Underway'
  OBVIOUS
<1>1. pc \in Working /\ pc \in Forward /\ pc \in {"progress", "intent"}
  BY DEF PersistProgress, FilesDone, Working, Forward
<1>2. M \in Manifest /\ Progress(M) /\ M = txs[cur]
  BY <1>1, InMemory DEF CInv, Underway
<1>3. /\ UNCHANGED <<disk, tmp, conv, convDisk, cur, txs, mem, at>> /\ M' = M
  BY DEF PersistProgress, FilesDone, store, session, M
<1>4. \/ pc' \in {"intent", "comp"}
      \/ /\ pc' \in {"convo", "finalize"} /\ Unpublished = {}
         /\ pc' = "finalize" => ~WantsConversation(M.scope)
  BY DEF PersistProgress, FilesDone, Compensate
<1>5. Waiting(M)' /\ InPlace(M)'
  BY <1>1, <1>2, <1>3, <1>4 DEF Progress, Waiting, InPlace, InHand
<1>6. NoneLeft(M)'
  BY <1>1, <1>2, <1>3, <1>4 DEF Progress, NoneLeft, Unpublished
<1>7. Moved(M)'
  <2>1. CASE pc' = "finalize"
    BY <1>3, <1>4, <2>1 DEF Moved, ConversationAt
  <2>2. CASE pc' # "finalize"
    BY <1>1, <1>2, <1>3, <1>4, <2>2 DEF Progress, Moved
  <2> QED
    BY <2>1, <2>2
<1> QED
  BY <1>2, <1>3, <1>5, <1>6, <1>7 DEF Underway, Progress

\* A rewind truncates the conversation it was prepared for; an undo reinstalls
\* the one its rewind had found.
LEMMA CommitConversationUnderway == CInv /\ CommitConversation => Underway'
<1> SUFFICES ASSUME CInv, CommitConversation PROVE Underway'
  OBVIOUS
<1>1. pc \in Working /\ pc \in Forward /\ pc = "convo"
  BY DEF CommitConversation, Working, Forward
<1>2. M \in Manifest /\ Progress(M) /\ M = txs[cur]
  BY <1>1, InMemory DEF CInv, Underway
<1>3. CASE pc' = "stateConv"
  BY <1>3, NotUnderway DEF Forward
<1>4. CASE Forwards /\ pc' = "ckpts"
  <2>1. UNCHANGED <<disk, tmp, cur, txs, mem, at>> /\ M' = M
    BY DEF CommitConversation, store, M
  <2>2. Waiting(M)' /\ InPlace(M)' /\ NoneLeft(M)'
    BY <1>1, <1>2, <1>4, <2>1 DEF Progress, Waiting, InPlace, InHand, NoneLeft
  <2>3. ConversationAt(M, M.kind = "undo")'
    <3>1. CASE M.kind = "undo"
      BY <1>4, <2>1, <3>1 DEF Forwards, RestoreConversation, ConversationAt
    <3>2. CASE M.kind # "undo"
      <4>1. M.kind = "rewind" /\ conv = M.forward
        BY <1>1, <1>2, <3>2 DEF Progress, Moved, Manifest
      <4> QED
        BY <1>4, <2>1, <3>2, <4>1 DEF Forwards, TruncateConversation, ConversationAt
    <3> QED
      BY <3>1, <3>2
  <2>4. Moved(M)'
    BY <1>4, <2>3 DEF Moved
  <2> QED
    BY <1>2, <2>1, <2>2, <2>4 DEF Underway, Progress
<1> QED
  BY <1>3, <1>4 DEF CommitConversation, CompensateState

\* The checkpoints move last and nothing else moves with them.
LEMMA CommitCheckpointsUnderway == CInv /\ CommitCheckpoints => Underway'
<1> SUFFICES ASSUME CInv, CommitCheckpoints PROVE Underway'
  OBVIOUS
<1>1. pc \in Forward /\ pc = "ckpts"
  BY DEF CommitCheckpoints, Forward
<1>2. Progress(M) /\ M = txs[cur]
  BY <1>1 DEF CInv, Underway
<1>3. UNCHANGED <<disk, tmp, conv, convDisk, cur, txs, mem, at>> /\ M' = M
  BY DEF CommitCheckpoints, store, M
<1>4. pc' \in {"finalize", "stateConv"}
  BY DEF CommitCheckpoints, CompensateState
<1>5. pc' = "finalize" => Waiting(M)' /\ InPlace(M)' /\ NoneLeft(M)'
  BY <1>1, <1>2, <1>3 DEF Progress, Waiting, InPlace, InHand, NoneLeft
<1>6. pc' = "finalize" => Moved(M)'
  BY <1>1, <1>2, <1>3 DEF Progress, Moved, ConversationAt
<1> QED
  BY <1>2, <1>3, <1>4, <1>5, <1>6, NotUnderway DEF Underway, Progress, Forward

-----------------------------------------------------------------------------
(* CommitIsWhole *)

\* Every other step leaves the way to the commit point or never was on it.
LEMMA ElsewhereUnderway ==
  ASSUME CInv, Environment \/ Finalize \/ MarkUndone \/ Recover
  PROVE  Underway'
<1>1. pc' \notin Forward
  BY DEF Environment, Turn, BlockedTurn, BrokenTurn, ExternalEdit, Crash, Shutdown, Stop,
         Finalize, MarkUndone,
         CompensateState, Recover, CompensateConversation, CompensateCheckpoints,
         CompensateFile, CompensateNothing, CompensateUnread, CompensateRename, CompensateForeign,
         CompensateRemove, CompensateMove, Visited, CompensationDone, Verdict, Start,
         RecoverPrepared, RecoverCommitting, PassDone, control, Forward
<1> QED
  BY <1>1, NotUnderway

\* CInv is inductive.
LEMMA NextCInv == CInv /\ [Next]_vars => CInv'
<1> SUFFICES ASSUME CInv, [Next]_vars PROVE CInv'
  OBVIOUS
<1>1. IInv'
  BY NextStep DEF CInv
<1>2. Request => Underway'
  BY RequestUnderway
<1>3. Commit => Underway'
  BY BeginCommitUnderway, PersistIntentUnderway, BackupTargetUnderway,
     PublishTargetUnderway, ProgressUnderway, CommitConversationUnderway,
     CommitCheckpointsUnderway, ElsewhereUnderway DEF Commit
<1>4. Environment \/ Recover => Underway'
  BY ElsewhereUnderway
<1>5. UNCHANGED vars => Underway'
  BY DEF vars, store, session, control, CInv, Underway, Progress, Waiting, InPlace,
     NoneLeft, Moved, InHand, ConversationAt, M
<1> QED
  BY <1>1, <1>2, <1>3, <1>4, <1>5 DEF Next, CInv

\* Only the transaction at its commit point becomes committed.
LEMMA OnlyFinalizeCommits ==
  ASSUME CInv, [Next]_vars, NEW n \in DOMAIN txs,
         txs[n].state # "committed", txs'[n].state = "committed"
  PROVE  Finalize /\ n = cur
<1>1. txs \in Seq(Manifest) /\ DOMAIN txs = 1..Len(txs) /\ txs[n] \in Manifest
  BY ElementOfSeq, LenProperties DEF CInv, IInv, ManifestsOK
<1>2. txs' # txs
  OBVIOUS
<1>3. ASSUME NEW m, txs' = Append(txs, m) PROVE FALSE
  BY <1>1, <1>3
<1>4. ASSUME NEW i, NEW s, s # "committed", txs' = [txs EXCEPT ![i].state = s] PROVE FALSE
  BY <1>1, <1>4 DEF Manifest
<1>5. ASSUME NEW m, m.state # "committed" \/ m.state = txs[cur].state,
             txs' = [txs EXCEPT ![cur] = m]
      PROVE  FALSE
  BY <1>1, <1>5
<1>6. CASE Request
  BY <1>2, <1>3, <1>6, RequestAdds DEF CInv, Adds
<1>7. CASE Environment
  BY <1>2, <1>7 DEF Environment, Turn, BlockedTurn, BrokenTurn, ExternalEdit, Crash, Shutdown, Stop
<1>8. CASE BeginCommit
  <2>1. M \in Manifest
    BY <1>8, InMemory DEF BeginCommit, Working, CInv
  <2>2. [M EXCEPT !.state = "committing"].state = "committing"
    BY <2>1, StateFields
  <2> QED
    BY <1>2, <1>5, <1>8, <2>2 DEF BeginCommit, Persist, PersistFails
<1>9. CASE PersistIntent
  <2> DEFINE f == Min(Unpublished)
             m == [M EXCEPT !.published = @ \cup {f}]
  <2>1. M \in Manifest /\ M = txs[cur]
    BY <1>9, InMemory DEF PersistIntent, Working, Forward, CInv, Underway
  <2>2. m.state = M.state
    BY <2>1 DEF Manifest
  <2>3. Persist(m) \/ PersistFails(M)
    BY <1>9 DEF PersistIntent
  <2> HIDE DEF m
  <2> QED
    BY <1>2, <1>5, <2>1, <2>2, <2>3 DEF Persist, PersistFails
<1>10. CASE Finalize
  <2>1. n = cur
    BY <1>1, <1>2, <1>10 DEF Finalize, PersistFails
  <2> QED
    BY <1>10, <2>1
<1>11. CASE MarkUndone
  BY <1>2, <1>4, <1>11 DEF MarkUndone
<1>12. CASE BackupTarget \/ PublishTarget \/ PersistProgress \/ FilesDone
            \/ CommitConversation \/ CommitCheckpoints
  BY <1>2, <1>12 DEF BackupTarget, PublishTarget, PersistProgress, FilesDone,
     CommitConversation, CommitCheckpoints
<1>13. CASE Verdict
  <2> DEFINE s == IF stateErr \/ compErr THEN "committing" ELSE "aborted"
             m == [M EXCEPT !.state = s]
  <2>1. M \in Manifest
    BY <1>13, InMemory DEF Verdict, Working, CInv
  <2>2. m.state = s
    BY <2>1, StateFields
  <2>3. s # "committed" /\ (txs' = [txs EXCEPT ![cur] = m] \/ UNCHANGED txs)
    BY <1>13 DEF Verdict
  <2> HIDE DEF m, s
  <2> QED
    BY <1>2, <1>5, <2>2, <2>3
<1>14. CASE RecoverPrepared
  <2>1. UNCHANGED txs \/ txs' = [txs EXCEPT ![Min(Remaining)].state = "aborted"]
    BY <1>14 DEF RecoverPrepared
  <2> QED
    BY <1>2, <1>4, <2>1
<1>15. CASE Recover /\ ~Verdict /\ ~RecoverPrepared
  BY <1>2, <1>15 DEF Recover, CompensateConversation, CompensateCheckpoints,
     CompensateFile, CompensateNothing, CompensateUnread, CompensateRename, CompensateForeign,
     CompensateRemove, CompensateMove, Untouched, CompensationDone, Start,
     RecoverCommitting, PassDone
<1> QED
  BY <1>2, <1>6, <1>7, <1>8, <1>9, <1>10, <1>11, <1>12, <1>13, <1>14, <1>15
     DEF Next, Commit, vars

\* CInv holds throughout every behaviour of the transaction store.
THEOREM CommitInductive == Spec => []CInv
<1>1. Init => CInv
  BY InitIInv DEF Init, CInv, Underway, Forward
<1> QED
  BY <1>1, NextCInv, PTL DEF Spec

\* A transaction becomes committed only when every path holds its restore image
\* and the conversation, in memory and on disk, is at the same end, whatever
\* crashed or failed before: commitTransaction and commitUndoTransaction reach
\* their last persist over no other way.
THEOREM CommitsWhole == Spec => CommitIsWhole
<1>1. CInv /\ [Next]_vars =>
        [\A n \in DOMAIN txs :
           txs[n].state # "committed" /\ txs'[n].state = "committed" =>
             /\ \A f \in txs[n].paths : disk[f] = txs[n].restore[f]
             /\ ConversationAt(txs[n], txs[n].kind = "undo")]_vars
  <2> SUFFICES ASSUME CInv, [Next]_vars, NEW n \in DOMAIN txs,
                      txs[n].state # "committed", txs'[n].state = "committed"
               PROVE  /\ \A f \in txs[n].paths : disk[f] = txs[n].restore[f]
                      /\ ConversationAt(txs[n], txs[n].kind = "undo")
    OBVIOUS
  <2>1. Finalize /\ n = cur
    BY OnlyFinalizeCommits
  <2>2. pc = "finalize" /\ M = txs[cur] /\ Progress(M)
    BY <2>1 DEF Finalize, CInv, Underway, Forward
  <2>3. \A f \in M.paths : disk[f] = M.restore[f]
    BY <2>2 DEF Progress, NoneLeft, InPlace, InHand
  <2>4. ConversationAt(M, M.kind = "undo")
    BY <2>2 DEF Progress, Moved
  <2> QED
    BY <2>1, <2>2, <2>3, <2>4
<1> QED
  BY <1>1, CommitInductive, PTL DEF Spec, CommitIsWhole

-----------------------------------------------------------------------------
(* The journal: temporaries, backups, manifests and files agree, whatever fails
   and wherever the process dies *)

\* At work on a manifest that has not committed.
InFlight == Working \ {"mark"}
\* ... after its first persist, but for the compensation of files,
Journalled == (Forward \ {"prepared"}) \cup {"stateConv", "stateCkpt"}
\* ... and compensating.
Backing == InFlight \ Forward

\* Two versions of one manifest: only its state and what it published differ.
SameData(a, b) ==
  /\ a.kind = b.kind /\ a.parent = b.parent /\ a.scope = b.scope /\ a.turn = b.turn
  /\ a.boundary = b.boundary /\ a.forward = b.forward /\ a.when = b.when /\ a.backup = b.backup
  /\ a.paths = b.paths /\ a.restore = b.restore /\ a.fwd = b.fwd

\* A manifest publishes its own paths, after it began to commit; an undo
\* follows a rewind that committed.
WellKept(n) ==
  /\ txs[n].published \subseteq txs[n].paths
  /\ txs[n].state = "prepared" => txs[n].published = {}
  /\ txs[n].kind = "undo" =>
       txs[n].parent \in DOMAIN txs /\ txs[txs[n].parent].state \in {"committed", "undone"}

\* What is in memory is what is on disk, the state aside.
InStep ==
  /\ pc \in InFlight =>
       /\ SameData(M, txs[cur]) /\ M.published = txs[cur].published
       /\ txs[cur].state \in {"prepared", "committing"}
  /\ pc \in Journalled => txs[cur].state = "committing"
  /\ pc = "mark" => M = txs[cur] /\ M.kind = "undo" /\ M.state = "committed"

MInv == (\A n \in DOMAIN txs : WellKept(n)) /\ InStep

\* A temporary waits with the image to publish, a backup keeps the one found.
Siblings(n, f) ==
  /\ tmp[n][f] # Absent =>
       n \in DOMAIN txs /\ f \in txs[n].paths /\ tmp[n][f] = txs[n].restore[f]
  /\ bak[n][f] # Absent =>
       n \in DOMAIN txs /\ f \in txs[n].published /\ bak[n][f] = txs[n].fwd[f]
SInv == \A n \in TxIds, f \in Files : Siblings(n, f)

\* On the way to the commit point nothing is in a path but what the transaction
\* found or put there ...
Ahead ==
  pc \in Forward =>
    /\ \A f \in M.paths \ M.published : disk[f] = M.fwd[f]
    /\ pc = "backup" => disk[at] = M.fwd[at]
    /\ pc = "publish" => disk[at] = Absent /\ bak[cur][at] = M.fwd[at]
    /\ \A f \in M.published : InHand(f) \/ tmp[cur][f] = Absent
\* ... and on the way back a path once visited is as it was found, or an error is
\* on record.
Back ==
  /\ pc \in Backing => todo \subseteq M.paths
  /\ pc \in {"stateConv", "stateCkpt"} => todo = M.paths
  /\ pc = "compMove" => at \in M.published /\ disk[at] = Absent
  /\ pc \in {"comp", "compMove", "verdict"} =>
       \A f \in M.published \ todo : compErr \/ disk[f] = M.fwd[f]
  /\ pc = "verdict" /\ ~stateErr => todo = {}

JInv == CInv /\ MInv /\ SInv /\ Ahead /\ Back

-----------------------------------------------------------------------------
(* Manifests: what a step does to them *)

\* The states a manifest goes through, and none of them backwards.
StateMove(a, b) ==
  \/ a = b
  \/ a = "prepared" /\ b \in {"committing", "aborted"}
  \/ a = "committing" /\ b \in {"committed", "aborted"}
  \/ a = "committed" /\ b = "undone"

\* How a durable manifest changes in a step.
Evolves(n) ==
  /\ n \in DOMAIN txs' /\ SameData(txs'[n], txs[n])
  /\ txs[n].published \subseteq txs'[n].published
  /\ StateMove(txs[n].state, txs'[n].state)

\* Manifests are numbered from one.
LEMMA Numbered ==
  ASSUME IInv
  PROVE  /\ txs \in Seq(Manifest) /\ Len(txs) \in Nat /\ DOMAIN txs = 1..Len(txs)
         /\ \A n \in DOMAIN txs : txs[n] \in Manifest /\ n \in TxIds
  BY BoundsAssumption, LenProperties, ElementOfSeq DEF IInv, ManifestsOK, TxIds

\* One durable manifest is replaced by another version of itself.
LEMMA ReplacedKept ==
  ASSUME IInv, \A i \in DOMAIN txs : WellKept(i), NEW n \in DOMAIN txs, NEW m,
         SameData(m, txs[n]), txs[n].published \subseteq m.published,
         m.published \subseteq m.paths, m.state = "prepared" => m.published = {},
         StateMove(txs[n].state, m.state), txs' = [txs EXCEPT ![n] = m]
  PROVE  /\ DOMAIN txs' = DOMAIN txs /\ txs'[n] = m
         /\ \A i \in DOMAIN txs : Evolves(i) /\ WellKept(i)' /\ (i # n => txs'[i] = txs[i])
<1>1. /\ DOMAIN txs' = DOMAIN txs /\ txs'[n] = m
      /\ \A i \in DOMAIN txs : i # n => txs'[i] = txs[i]
  BY Numbered
<1>2. \A i \in DOMAIN txs : txs[i].state \in {"committed", "undone"} =>
                            txs'[i].state \in {"committed", "undone"}
  BY <1>1 DEF StateMove
<1>3. \A i \in DOMAIN txs : WellKept(i)'
  BY <1>1, <1>2 DEF WellKept, SameData
<1>4. \A i \in DOMAIN txs : Evolves(i)
  BY <1>1 DEF Evolves, SameData, StateMove
<1> QED
  BY <1>1, <1>3, <1>4

\* A new manifest comes after the others and leaves them alone.
LEMMA AppendedKept ==
  ASSUME IInv, \A i \in DOMAIN txs : WellKept(i), NEW m \in Manifest,
         m.published = {},
         m.kind = "undo" => m.parent \in DOMAIN txs /\ txs[m.parent].state = "committed",
         txs' = Append(txs, m)
  PROVE  /\ DOMAIN txs' = DOMAIN txs \cup {Len(txs) + 1} /\ Len(txs) + 1 \notin DOMAIN txs
         /\ txs'[Len(txs) + 1] = m
         /\ \A i \in DOMAIN txs : Evolves(i) /\ txs'[i] = txs[i]
         /\ \A i \in DOMAIN txs' : WellKept(i)'
<1>1. /\ txs' \in Seq(Manifest) /\ Len(txs') = Len(txs) + 1 /\ Len(txs) \in Nat
      /\ DOMAIN txs = 1..Len(txs)
      /\ \A i \in 1..Len(txs) : txs'[i] = txs[i]
      /\ txs'[Len(txs) + 1] = m
  BY Numbered, AppendProperties
<1>2. DOMAIN txs' = 1..(Len(txs) + 1)
  BY <1>1, LenProperties
<1>3. DOMAIN txs' = DOMAIN txs \cup {Len(txs) + 1} /\ Len(txs) + 1 \notin DOMAIN txs
  BY <1>1, <1>2
<1>4. ASSUME NEW i \in DOMAIN txs' PROVE WellKept(i)'
  <2>1. CASE i \in DOMAIN txs
    BY <1>1, <1>3, <2>1 DEF WellKept
  <2>2. CASE i = Len(txs) + 1
    BY <1>1, <1>3, <2>2 DEF WellKept
  <2> QED
    BY <1>3, <2>1, <2>2
<1>5. \A i \in DOMAIN txs : Evolves(i)
  BY <1>1, <1>3 DEF Evolves, SameData, StateMove
<1> QED
  BY <1>1, <1>3, <1>4, <1>5

\* What MInv says of the next state, and how each manifest came there.
Kept == MInv' /\ \A n \in DOMAIN txs : Evolves(n)

\* A step that writes no manifest.
LEMMA ManifestsSame ==
  ASSUME CInv, MInv, UNCHANGED txs,
         pc' \in InFlight => pc \in InFlight /\ UNCHANGED <<cur, mem>>,
         pc' \in Journalled => txs[cur].state = "committing",
         pc' = "mark" => pc = "mark" /\ UNCHANGED <<cur, mem>>
  PROVE  Kept
<1>1. \A n \in DOMAIN txs : Evolves(n)
  BY DEF Evolves, SameData, StateMove
<1>2. \A n \in DOMAIN txs' : WellKept(n)'
  BY DEF MInv, WellKept
<1>3. UNCHANGED mem => M' = M
  BY DEF M
<1>4. InStep'
  <2>1. Journalled \subseteq InFlight /\ "mark" \notin InFlight
    BY DEF Journalled, InFlight, Working, Forward
  <2>2. CASE pc' \in InFlight
    BY <1>3, <2>1, <2>2 DEF MInv, InStep, SameData
  <2>3. CASE pc' \notin InFlight
    BY <1>3, <2>1, <2>3 DEF MInv, InStep
  <2> QED
    BY <2>2, <2>3
<1> QED
  BY <1>1, <1>2, <1>4 DEF Kept, MInv

\* A step that appends a manifest, and begins to execute it or does not.
LEMMA ManifestAppended ==
  ASSUME CInv, MInv, NEW m \in Manifest, m.published = {},
         m.kind = "undo" => m.parent \in DOMAIN txs /\ txs[m.parent].state = "committed",
         txs' = Append(txs, m),
         \/ pc' = "prepared" /\ cur' = Len(txs) + 1 /\ mem' = <<m>> /\ m.state = "prepared"
         \/ pc' = "idle"
  PROVE  Kept
<1>1. /\ txs'[Len(txs) + 1] = m
      /\ \A i \in DOMAIN txs : Evolves(i)
      /\ \A i \in DOMAIN txs' : WellKept(i)'
  BY AppendedKept DEF CInv, MInv
<1>2. mem' = <<m>> => M' = m
  BY DEF M
<1>3. InStep'
  BY <1>1, <1>2 DEF InStep, SameData, InFlight, Working, Journalled, Forward
<1> QED
  BY <1>1, <1>3 DEF Kept, MInv

\* A step that persists another version of the manifest in hand.
LEMMA ManifestPersisted ==
  ASSUME CInv, MInv, pc \in InFlight, NEW m,
         SameData(m, M), M.published \subseteq m.published,
         m.published \subseteq m.paths, m.state = "prepared" => m.published = {},
         StateMove(txs[cur].state, m.state), txs' = [txs EXCEPT ![cur] = m],
         pc' \in InFlight \cup {"mark"} => mem' = <<m>> /\ UNCHANGED cur,
         pc' \in InFlight => m.state \in {"prepared", "committing"},
         pc' \in Journalled => m.state = "committing",
         pc' = "mark" => m.kind = "undo" /\ m.state = "committed"
  PROVE  Kept
<1>0. cur \in DOMAIN txs
  BY Numbered, InMemory DEF CInv, InFlight
<1>1. SameData(m, txs[cur]) /\ M.published = txs[cur].published
  BY DEF MInv, InStep, SameData
<1>2. /\ DOMAIN txs' = DOMAIN txs /\ txs'[cur] = m
      /\ \A i \in DOMAIN txs : Evolves(i) /\ WellKept(i)'
  BY <1>0, <1>1, ReplacedKept DEF CInv, MInv
<1>3. mem' = <<m>> => M' = m
  BY DEF M
<1>4. InStep'
  BY <1>2, <1>3 DEF InStep, SameData, InFlight, Journalled, Forward, Working
<1> QED
  BY <1>2, <1>4 DEF Kept, MInv

\* The states of a manifest apart, nothing in it changes.
LEMMA StateData ==
  ASSUME NEW m \in Manifest, NEW s
  PROVE  LET n == [m EXCEPT !.state = s]
         IN SameData(n, m) /\ n.state = s /\ n.published = m.published
  BY DEF Manifest, SameData

\* Requests append a manifest.
LEMMA RequestKept == CInv /\ MInv /\ Request => Kept
<1> SUFFICES ASSUME CInv, MInv, Request PROVE Kept
  OBVIOUS
<1>1. PICK m \in Manifest : Adds(m) /\ Asked(m)
  BY RequestAdds DEF CInv
<1>2. /\ m.published = {}
      /\ m.kind = "undo" => m.parent \in DOMAIN txs /\ txs[m.parent].state = "committed"
  BY <1>1, AskedFacts DEF CInv
<1>3. /\ txs' = Append(txs, m)
      /\ \/ pc' = "prepared" /\ cur' = Len(txs) + 1 /\ mem' = <<m>> /\ m.state = "prepared"
         \/ pc' = "idle"
  BY <1>1 DEF Adds
<1> QED
  BY <1>2, <1>3, ManifestAppended

\* Committing persists the manifest as it goes.
LEMMA CommitKept == CInv /\ MInv /\ Commit => Kept
<1> SUFFICES ASSUME CInv, MInv, Commit PROVE Kept
  OBVIOUS
<1>0. pc \in InFlight => /\ M \in Manifest /\ M.published \subseteq M.paths
                         /\ M.published = txs[cur].published
                         /\ txs[cur].state = "prepared" => M.published = {}
  <2>1. SUFFICES ASSUME pc \in InFlight
                 PROVE  /\ M \in Manifest /\ M.published \subseteq M.paths
                        /\ M.published = txs[cur].published
                        /\ txs[cur].state = "prepared" => M.published = {}
    OBVIOUS
  <2>2. cur \in DOMAIN txs /\ M \in Manifest
    BY <2>1, Numbered, InMemory DEF CInv, InFlight
  <2> QED
    BY <2>1, <2>2 DEF MInv, InStep, WellKept, SameData
<1>1. CASE BeginCommit
  <2> DEFINE m == [M EXCEPT !.state = "committing"]
  <2>1. pc = "prepared" /\ pc \in InFlight /\ txs[cur].state \in {"prepared", "committing"}
    BY <1>1 DEF BeginCommit, InFlight, Working, MInv, InStep
  <2>2. SameData(m, M) /\ m.state = "committing" /\ m.published = M.published
    BY <1>0, <2>1, StateData
  <2>3. /\ UNCHANGED cur
        /\ \/ Persist(m) /\ pc' = "intent"
           \/ PersistFails(m) /\ pc' = "comp"
    BY <1>1 DEF BeginCommit, Compensate
  <2>4. m.published \subseteq m.paths
    BY <1>0, <2>1, <2>2 DEF SameData
  <2> HIDE DEF m
  <2>5. CASE Persist(m) /\ pc' = "intent"
    BY <2>1, <2>2, <2>3, <2>4, <2>5, ManifestPersisted DEF Persist, StateMove
  <2>6. CASE PersistFails(m) /\ pc' = "comp"
    <3>1. M' = m
      BY <2>6 DEF PersistFails, M
    <3>2. InStep'
      BY <2>1, <2>2, <2>3, <2>6, <3>1 DEF PersistFails, MInv, InStep, SameData, Journalled, Forward
    <3>3. \A n \in DOMAIN txs' : Evolves(n) /\ WellKept(n)'
      BY <2>6 DEF PersistFails, Evolves, SameData, StateMove, MInv, WellKept
    <3> QED
      BY <2>6, <3>2, <3>3 DEF Kept, MInv, PersistFails
  <2> QED
    BY <2>3, <2>5, <2>6
<1>2. CASE PersistIntent
  <2> DEFINE f == Min(Unpublished)
             m == [M EXCEPT !.published = @ \cup {f}]
  <2>1. pc = "intent" /\ pc \in InFlight /\ pc \in Journalled /\ txs[cur].state = "committing"
    BY <1>2 DEF PersistIntent, InFlight, Working, Journalled, Forward, MInv, InStep
  <2>2. M \in Manifest /\ M = txs[cur] /\ f \in M.paths
    <3>1. M \in Manifest /\ M = txs[cur]
      BY <1>0, <2>1 DEF CInv, Underway, Forward
    <3>2. Unpublished \in SUBSET Nat /\ Unpublished # {}
      BY <1>2, <3>1, BoundsAssumption DEF PersistIntent, Unpublished, Manifest
    <3> QED
      BY <3>1, <3>2, MinFacts DEF Unpublished
  <2>3. /\ SameData(m, M) /\ m.state = "committing" /\ m.published = M.published \cup {f}
        /\ m.paths = M.paths
    BY <2>1, <2>2 DEF Manifest, SameData
  <2>4. /\ UNCHANGED cur
        /\ \/ Persist(m) /\ pc' = "backup"
           \/ PersistFails(M) /\ pc' = "comp"
    BY <1>2 DEF PersistIntent, Compensate
  <2> HIDE DEF m, f
  <2>5. CASE Persist(m) /\ pc' = "backup"
    BY <1>0, <2>1, <2>2, <2>3, <2>4, <2>5, ManifestPersisted DEF Persist, StateMove
  <2>6. CASE PersistFails(M) /\ pc' = "comp"
    <3>1. M' = M
      BY <2>6 DEF PersistFails, M
    <3>2. InStep'
      BY <2>1, <2>4, <2>6, <3>1 DEF PersistFails, MInv, InStep, SameData, Journalled, Forward
    <3>3. \A n \in DOMAIN txs' : Evolves(n) /\ WellKept(n)'
      BY <2>6 DEF PersistFails, Evolves, SameData, StateMove, MInv, WellKept
    <3> QED
      BY <2>6, <3>2, <3>3 DEF Kept, MInv, PersistFails
  <2> QED
    BY <2>4, <2>5, <2>6
<1>3. CASE BackupTarget \/ PublishTarget \/ PersistProgress \/ FilesDone
           \/ CommitConversation \/ CommitCheckpoints
  <2>1. /\ pc \in InFlight /\ pc \in Journalled /\ UNCHANGED <<txs, cur, mem>> /\ pc' # "mark"
    BY <1>3 DEF BackupTarget, PublishTarget, PersistProgress, FilesDone,
       CommitConversation, CommitCheckpoints, Compensate, CompensateState, InFlight,
       Working, Journalled, Forward
  <2> QED
    BY <2>1, ManifestsSame DEF MInv, InStep
<1>4. CASE Finalize
  <2> DEFINE m == [M EXCEPT !.state = "committed"]
  <2>1. pc = "finalize" /\ pc \in InFlight /\ txs[cur].state = "committing"
    BY <1>4 DEF Finalize, InFlight, Working, Journalled, Forward, MInv, InStep
  <2>2. SameData(m, M) /\ m.state = "committed" /\ m.published = M.published
    BY <1>0, <2>1, StateData
  <2>3. \/ /\ txs' = [txs EXCEPT ![cur] = m]
           /\ \/ pc' = "mark" /\ mem' = <<m>> /\ UNCHANGED cur /\ M.kind = "undo"
              \/ pc' = "idle"
        \/ PersistFails(m) /\ pc' = "stateConv" /\ UNCHANGED cur
    BY <1>4 DEF Finalize, CompensateState
  <2>4. m.published \subseteq m.paths /\ (M.kind = "undo" => m.kind = "undo")
    BY <1>0, <2>1, <2>2 DEF SameData
  <2> HIDE DEF m
  <2>5. CASE txs' = [txs EXCEPT ![cur] = m]
    <3>1. \/ pc' = "mark" /\ mem' = <<m>> /\ UNCHANGED cur /\ M.kind = "undo"
          \/ pc' = "idle"
          \/ PersistFails(m) /\ pc' = "stateConv" /\ UNCHANGED cur
      BY <2>3
    <3>2. ~PersistFails(m)
      <4>1. cur \in DOMAIN txs
        BY <2>1, Numbered, InMemory DEF CInv, InFlight
      <4> QED
        BY <2>1, <2>2, <2>5, <4>1 DEF PersistFails
    <3> QED
      BY <2>1, <2>2, <2>4, <2>5, <3>1, <3>2, ManifestPersisted
         DEF StateMove, InFlight, Journalled, Forward, Working
  <2>6. CASE PersistFails(m) /\ pc' = "stateConv" /\ UNCHANGED cur
    <3>1. M' = m
      BY <2>6 DEF PersistFails, M
    <3>2. InStep'
      BY <2>1, <2>2, <2>6, <3>1 DEF PersistFails, MInv, InStep, SameData
    <3>3. \A n \in DOMAIN txs' : Evolves(n) /\ WellKept(n)'
      BY <2>6 DEF PersistFails, Evolves, SameData, StateMove, MInv, WellKept
    <3> QED
      BY <2>6, <3>2, <3>3 DEF Kept, MInv, PersistFails
  <2> QED
    BY <2>3, <2>5, <2>6
<1>5. CASE MarkUndone
  <2>1. pc = "mark" /\ M.kind = "undo" /\ M = txs[cur] /\ pc' = "idle" /\ cur \in DOMAIN txs
    BY <1>5, Numbered, InMemory DEF MarkUndone, MInv, InStep, CInv, Working
  <2> DEFINE p == M.parent
             m == [txs[p] EXCEPT !.state = "undone"]
  <2>2. p \in DOMAIN txs /\ txs[p].state \in {"committed", "undone"} /\ WellKept(p)
    BY <2>1 DEF MInv, WellKept
  <2>3. SameData(m, txs[p]) /\ m.state = "undone" /\ m.published = txs[p].published
    BY <2>2, Numbered, StateData DEF CInv
  <2>4. txs' = [txs EXCEPT ![p] = m] \/ UNCHANGED txs
    BY <1>5 DEF MarkUndone
  <2>a. m.published \subseteq m.paths
    BY <2>2, <2>3 DEF WellKept, SameData
  <2> HIDE DEF m, p
  <2>5. CASE txs' = [txs EXCEPT ![p] = m]
    <3>1. DOMAIN txs' = DOMAIN txs /\ \A i \in DOMAIN txs : Evolves(i) /\ WellKept(i)'
      BY <2>2, <2>3, <2>a, <2>5, ReplacedKept DEF CInv, MInv, StateMove
    <3> QED
      BY <2>1, <3>1 DEF Kept, MInv, InStep, InFlight, Working, Journalled, Forward
  <2>6. CASE UNCHANGED txs
    BY <2>1, <2>6, ManifestsSame DEF InFlight, Working, Journalled, Forward
  <2> QED
    BY <2>4, <2>5, <2>6
<1> QED
  BY <1>1, <1>2, <1>3, <1>4, <1>5 DEF Commit

\* Recovery settles the manifests it finds, and puts others in hand unchanged.
LEMMA RecoverKept == CInv /\ MInv /\ Recover => Kept
<1> SUFFICES ASSUME CInv, MInv, Recover PROVE Kept
  OBVIOUS
<1>1. CASE CompensateConversation \/ CompensateCheckpoints \/ CompensateFile \/ CompensationDone
  <2>1. /\ pc \in InFlight /\ UNCHANGED <<txs, cur, mem>> /\ pc' # "mark"
        /\ pc' \in Journalled => pc \in Journalled
    BY <1>1 DEF CompensateConversation, CompensateCheckpoints, CompensateFile,
       CompensateNothing, CompensateUnread, CompensateRename, CompensateForeign, CompensateRemove,
       CompensateMove, Visiting, Visited, Untouched, CompensationDone, InFlight, Working,
       Journalled, Forward
  <2> QED
    BY <2>1, ManifestsSame DEF MInv, InStep
<1>2. CASE Verdict
  <2> DEFINE s == IF stateErr \/ compErr THEN "committing" ELSE "aborted"
             m == [M EXCEPT !.state = s]
  <2>1. pc \in InFlight /\ M \in Manifest /\ cur \in DOMAIN txs
    BY <1>2, Numbered, InMemory DEF Verdict, InFlight, Working, CInv
  <2>2. SameData(m, M) /\ m.state = s /\ m.published = M.published
    BY <2>1, StateData
  <2>3. /\ txs' = [txs EXCEPT ![cur] = m] \/ UNCHANGED txs
        /\ pc' \in {"idle", "scan"}
    BY <1>2 DEF Verdict
  <2>4. txs[cur].state \in {"prepared", "committing"} /\ s \in {"committing", "aborted"}
    BY <2>1 DEF MInv, InStep
  <2>5. m.published \subseteq m.paths
    BY <2>1, <2>2 DEF SameData, MInv, InStep, WellKept
  <2> HIDE DEF m, s
  <2>6. CASE txs' = [txs EXCEPT ![cur] = m]
    BY <2>1, <2>2, <2>3, <2>4, <2>5, <2>6, ManifestPersisted
       DEF StateMove, InFlight, Working, Journalled, Forward
  <2>7. CASE UNCHANGED txs
    BY <2>3, <2>7, ManifestsSame DEF InFlight, Working, Journalled, Forward
  <2> QED
    BY <2>3, <2>6, <2>7
<1>3. CASE RecoverPrepared
  <2> DEFINE n == Min(Remaining)
             m == [txs[n] EXCEPT !.state = "aborted"]
  <2>1. n \in DOMAIN txs /\ txs[n].state = "prepared"
    <3>1. Remaining # {} /\ txs[n].state = "prepared"
      BY <1>3 DEF RecoverPrepared
    <3> QED
      BY <3>1, NextRemaining, Numbered DEF CInv
  <2>2. SameData(m, txs[n]) /\ m.state = "aborted" /\ m.published = txs[n].published
    BY <2>1, Numbered, StateData DEF CInv
  <2>3. m.published \subseteq m.paths
    BY <2>1, <2>2 DEF SameData, MInv, WellKept
  <2>4. (txs' = [txs EXCEPT ![n] = m] \/ UNCHANGED txs) /\ pc' = "scan"
    BY <1>3 DEF RecoverPrepared, control
  <2> HIDE DEF m, n
  <2>5. CASE txs' = [txs EXCEPT ![n] = m]
    <3>1. DOMAIN txs' = DOMAIN txs /\ \A i \in DOMAIN txs : Evolves(i) /\ WellKept(i)'
      BY <2>1, <2>2, <2>3, <2>5, ReplacedKept DEF CInv, MInv, StateMove
    <3> QED
      BY <2>4, <3>1 DEF Kept, MInv, InStep, InFlight, Working, Journalled, Forward
  <2>6. CASE UNCHANGED txs
    BY <2>4, <2>6, ManifestsSame DEF InFlight, Working, Journalled, Forward
  <2> QED
    BY <2>4, <2>5, <2>6
<1>4. CASE RecoverCommitting
  <2> DEFINE n == Min(Remaining)
  <2>1. /\ txs[n].state = "committing" /\ cur' = n /\ mem' = <<txs[n]>> /\ UNCHANGED txs
        /\ pc' \in {"stateConv", "comp"}
    BY <1>4 DEF RecoverCommitting
  <2> HIDE DEF n
  <2>2. M' = txs[n]
    BY <2>1 DEF M
  <2>3. InStep'
    BY <2>1, <2>2 DEF InStep, SameData
  <2>4. \A i \in DOMAIN txs' : Evolves(i) /\ WellKept(i)'
    BY <2>1 DEF Evolves, SameData, StateMove, MInv, WellKept
  <2> QED
    BY <2>1, <2>3, <2>4 DEF Kept, MInv
<1>5. CASE Start \/ PassDone
  <2>1. UNCHANGED txs /\ pc' \in {"scan", "idle"}
    BY <1>5 DEF Start, PassDone
  <2> QED
    BY <2>1, ManifestsSame DEF InFlight, Working, Journalled, Forward
<1> QED
  BY <1>1, <1>2, <1>3, <1>4, <1>5 DEF Recover

\* Turns, edits, crashes and restarts write no manifest.
LEMMA EnvironmentKept == CInv /\ MInv /\ Environment => Kept
<1> SUFFICES ASSUME CInv, MInv, Environment PROVE Kept
  OBVIOUS
<1>1. UNCHANGED txs /\ pc' \in {"idle", "down"}
  BY DEF Environment, Turn, BlockedTurn, BrokenTurn, ExternalEdit, Crash, Shutdown, Stop, control
<1> QED
  BY <1>1, ManifestsSame DEF InFlight, Working, Journalled, Forward

\* Every step keeps the manifests; each evolves in it as it should.
LEMMA NextKept == CInv /\ MInv /\ [Next]_vars => Kept
<1> SUFFICES ASSUME CInv, MInv, [Next]_vars PROVE Kept
  OBVIOUS
<1>1. CASE UNCHANGED vars
  <2>1. UNCHANGED <<txs, cur, mem, pc>>
    BY <1>1 DEF vars, control
  <2> QED
    BY <2>1, ManifestsSame DEF MInv, InStep
<1> QED
  BY <1>1, RequestKept, CommitKept, RecoverKept, EnvironmentKept DEF Next

-----------------------------------------------------------------------------
(* Siblings and files: what a step does to them *)

\* A sibling is kept or removed.
Fewer ==
  \A n \in TxIds, f \in Files :
    tmp'[n][f] \in {tmp[n][f], Absent} /\ bak'[n][f] \in {bak[n][f], Absent}

\* With no more siblings than before, and no less in the manifests, what is left still agrees.
LEMMA FewerSiblings ==
  ASSUME SInv, Kept, Fewer
  PROVE  SInv'
<1> SUFFICES ASSUME NEW n \in TxIds, NEW f \in Files PROVE Siblings(n, f)'
  BY DEF SInv
<1>1. Siblings(n, f) /\ tmp'[n][f] \in {tmp[n][f], Absent} /\ bak'[n][f] \in {bak[n][f], Absent}
  BY DEF SInv, Fewer
<1>2. n \in DOMAIN txs => Evolves(n)
  BY DEF Kept
<1> QED
  BY <1>1, <1>2 DEF Siblings, Evolves, SameData

\* Siblings that do not change are kept.
LEMMA SameSiblings == UNCHANGED <<tmp, bak>> => Fewer
  BY DEF Fewer

\* The manifest in hand, as the invariants have it.
LEMMA InHandFacts ==
  ASSUME CInv, MInv, pc \in InFlight
  PROVE  /\ cur \in DOMAIN txs /\ cur \in TxIds /\ M \in Manifest
         /\ SameData(M, txs[cur]) /\ M.published = txs[cur].published
         /\ M.published \subseteq M.paths /\ M.paths \subseteq Files
         /\ pc \in Forward => M = txs[cur] /\ Progress(M)
<1>1. cur \in DOMAIN txs /\ cur \in TxIds /\ M \in Manifest
  BY Numbered, InMemory DEF CInv, InFlight
<1>2. SameData(M, txs[cur]) /\ M.published = txs[cur].published /\ WellKept(cur)
  BY <1>1 DEF MInv, InStep
<1>3. M.published \subseteq M.paths /\ M.paths \subseteq Files
  BY <1>1, <1>2 DEF WellKept, SameData, Manifest
<1>4. pc \in Forward => M = txs[cur] /\ Progress(M)
  BY DEF CInv, Underway
<1> QED
  BY <1>1, <1>2, <1>3, <1>4

\* Nothing is in flight: nothing more is claimed.
LEMMA AtRest ==
  ASSUME pc' \notin InFlight
  PROVE  Ahead' /\ Back'
  BY DEF Ahead, Back, InFlight, Working, Forward, Backing

\* The way back begins with every path still to be visited.
LEMMA TurnsBack ==
  ASSUME pc' \in {"comp", "stateConv"}, todo' = M'.paths, M'.published \subseteq M'.paths
  PROVE  Ahead' /\ Back'
  BY DEF Ahead, Back, Forward, Backing, InFlight, Working

\* A request stages what is new in its paths, and has found what was in them.
LEMMA RequestJournal ==
  ASSUME JInv, Kept, Request
  PROVE  SInv' /\ Ahead' /\ Back'
<1> DEFINE k == Len(txs) + 1
<1>0. PICK m \in Manifest : Adds(m) /\ Asked(m)
  BY RequestAdds DEF JInv, CInv
<1>1. k \in TxIds /\ k \notin DOMAIN txs /\ k \in DOMAIN txs' /\ txs'[k] = m
  <2>1. txs' = Append(txs, m) /\ k <= MaxTransactions
    BY <1>0 DEF Adds
  <2>2. Len(txs) \in Nat /\ DOMAIN txs = 1..Len(txs) /\ DOMAIN txs' = 1..k /\ txs'[k] = m
    BY <2>1, NewestManifest DEF JInv, CInv
  <2> QED
    BY <2>1, <2>2, BoundsAssumption DEF TxIds
<1>2. PICK left \in SUBSET m.paths :
        tmp' = [tmp EXCEPT ![k] = Row(m, left)] /\ (pc' = "prepared" => left = m.paths)
  BY <1>0 DEF Adds
<1>3. UNCHANGED <<disk, bak>> /\ ((pc' = "prepared" /\ mem' = <<m>>) \/ pc' = "idle")
  BY <1>0 DEF Adds
<1>4. tmp \in [TxIds -> Images] /\ m.paths \subseteq Files
  BY DEF JInv, CInv, IInv, StoreOK, Manifest
<1>5. m.published = {} /\ \A f \in m.paths : disk[f] = m.fwd[f]
  BY <1>0, AskedFacts DEF JInv, CInv
<1> HIDE DEF k
<1>6. SInv'
  <2> SUFFICES ASSUME NEW n \in TxIds, NEW f \in Files PROVE Siblings(n, f)'
    BY DEF SInv
  <2>1. CASE n = k
    <3>1. tmp'[n][f] = IF f \in left THEN m.restore[f] ELSE Absent
      BY <1>1, <1>2, <1>4, <2>1 DEF Row
    <3>2. bak'[n][f] = bak[n][f] /\ Siblings(n, f) /\ n \notin DOMAIN txs
      BY <1>1, <1>3, <2>1 DEF JInv, SInv
    <3> QED
      BY <1>1, <1>2, <2>1, <3>1, <3>2 DEF Siblings
  <2>2. CASE n # k
    <3>1. tmp'[n][f] = tmp[n][f] /\ bak'[n][f] = bak[n][f] /\ Siblings(n, f)
      BY <1>2, <1>3, <1>4, <2>2 DEF JInv, SInv
    <3>2. n \in DOMAIN txs => Evolves(n)
      BY DEF Kept
    <3> QED
      BY <3>1, <3>2 DEF Siblings, Evolves, SameData
  <2> QED
    BY <2>1, <2>2
<1>7. mem' = <<m>> => M' = m
  BY DEF M
<1>8. pc' = "prepared" /\ mem' = <<m>> => Ahead' /\ Back'
  BY <1>3, <1>5, <1>7 DEF Ahead, Back, Forward, Backing
<1> QED
  BY <1>3, <1>6, <1>8, AtRest DEF InFlight, Working

\* Turns, edits, crashes and restarts.
LEMMA EnvironmentJournal ==
  ASSUME JInv, Kept, Environment
  PROVE  SInv' /\ Ahead' /\ Back'
<1>1. UNCHANGED <<tmp, bak>> /\ pc' \in {"idle", "down"}
  BY DEF Environment, Turn, BlockedTurn, BrokenTurn, ExternalEdit, Crash, Shutdown, Stop, control, store
<1> QED
  BY <1>1, AtRest, SameSiblings, FewerSiblings DEF JInv, InFlight, Working

\* A failed step of the way to the commit point turns back.
LEMMA FailedJournal ==
  ASSUME JInv, Kept, Fewer, pc \in Forward, pc' \in {"comp", "stateConv"}, todo' = M.paths,
         UNCHANGED cur, M'.paths = M.paths, M'.published = M.published
  PROVE  SInv' /\ Ahead' /\ Back'
<1>1. pc \in InFlight
  BY DEF InFlight, Working, Forward
<1>2. M'.published \subseteq M'.paths
  BY <1>1, InHandFacts DEF JInv
<1> QED
  BY <1>2, TurnsBack, FewerSiblings DEF JInv

\* Recording the beginning, and the next path.
LEMMA BeginCommitJournal ==
  ASSUME JInv, Kept, BeginCommit
  PROVE  SInv' /\ Ahead' /\ Back'
<1> DEFINE m == [M EXCEPT !.state = "committing"]
<1>1. pc = "prepared" /\ pc \in InFlight /\ pc \in Forward
  BY DEF BeginCommit, InFlight, Working, Forward
<1>2. SameData(m, M) /\ m.published = M.published
  BY <1>1, InHandFacts, StateData DEF JInv
<1>3. /\ UNCHANGED <<store, cur, at>>
      /\ \/ Persist(m) /\ pc' = "intent"
         \/ PersistFails(m) /\ pc' = "comp" /\ todo' = M.paths
  BY DEF BeginCommit, Compensate
<1>4. M' = m
  BY <1>3 DEF Persist, PersistFails, M
<1>5. Fewer
  BY <1>3, SameSiblings DEF store
<1> HIDE DEF m
<1>6. CASE pc' = "comp" /\ todo' = M.paths
  BY <1>1, <1>2, <1>3, <1>4, <1>5, <1>6, FailedJournal DEF SameData
<1>7. CASE pc' = "intent"
  <2>1. Ahead'
    BY <1>1, <1>2, <1>3, <1>4, <1>7 DEF JInv, Ahead, InHand, SameData, store
  <2>2. Back'
    BY <1>7 DEF Back, Backing, Forward
  <2> QED
    BY <1>5, <2>1, <2>2, FewerSiblings DEF JInv
<1> QED
  BY <1>3, <1>6, <1>7

\* The path about to be published is recorded while its file is untouched.
LEMMA PersistIntentJournal ==
  ASSUME JInv, Kept, PersistIntent
  PROVE  SInv' /\ Ahead' /\ Back'
<1> DEFINE f == Min(Unpublished)
           m == [M EXCEPT !.published = @ \cup {f}]
<1>1. pc = "intent" /\ pc \in InFlight /\ pc \in Forward
  BY DEF PersistIntent, InFlight, Working, Forward
<1>2. M \in Manifest /\ f \in M.paths \ M.published
  <2>1. M \in Manifest
    BY <1>1, InHandFacts DEF JInv
  <2>2. Unpublished \in SUBSET Nat /\ Unpublished # {}
    BY <2>1, BoundsAssumption DEF PersistIntent, Unpublished, Manifest
  <2> QED
    BY <2>1, <2>2, MinFacts DEF Unpublished
<1>3. SameData(m, M) /\ m.published = M.published \cup {f}
  BY <1>2 DEF Manifest, SameData
<1>4. /\ UNCHANGED <<store, cur>>
      /\ \/ Persist(m) /\ pc' = "backup" /\ at' = f
         \/ PersistFails(M) /\ pc' = "comp" /\ todo' = M.paths
  BY DEF PersistIntent, Compensate
<1>5. Fewer
  BY <1>4, SameSiblings DEF store
<1> HIDE DEF m, f
<1>6. CASE PersistFails(M) /\ pc' = "comp" /\ todo' = M.paths
  <2>1. M' = M
    BY <1>6 DEF PersistFails, M
  <2> QED
    BY <1>1, <1>4, <1>5, <1>6, <2>1, FailedJournal
<1>7. CASE Persist(m) /\ pc' = "backup" /\ at' = f
  <2>1. M' = m
    BY <1>7 DEF Persist, M
  <2>2. Ahead'
    BY <1>1, <1>2, <1>3, <1>4, <1>7, <2>1 DEF JInv, Ahead, InHand, SameData, store
  <2>3. Back'
    BY <1>7 DEF Back, Backing, Forward
  <2> QED
    BY <1>5, <2>2, <2>3, FewerSiblings DEF JInv
<1> QED
  BY <1>4, <1>6, <1>7

\* The first rename fills the backup of the path in hand.
LEMMA BackupTargetJournal ==
  ASSUME JInv, Kept, BackupTarget
  PROVE  SInv' /\ Ahead' /\ Back'
<1>1. pc = "backup" /\ pc \in InFlight /\ pc \in Forward /\ M' = M /\ UNCHANGED <<tmp, cur, at, txs>>
  BY DEF BackupTarget, InFlight, Working, Forward, M
<1>2. CASE pc' = "comp" /\ todo' = M.paths /\ UNCHANGED bak
  BY <1>1, <1>2, FailedJournal, SameSiblings
<1>3. CASE /\ disk' = [disk EXCEPT ![at] = Absent]
           /\ bak' = [bak EXCEPT ![cur][at] = disk[at]]
           /\ pc' = IF IsWrite(at) THEN "publish" ELSE "progress"
  <2>1. /\ cur \in TxIds /\ cur \in DOMAIN txs /\ at \in Files /\ disk \in Images
        /\ bak \in [TxIds -> Images] /\ at \in M.published /\ M = txs[cur]
        /\ disk[at] = M.fwd[at] /\ M.published \subseteq M.paths
        /\ tmp[cur][at] = M.restore[at]
    BY <1>1, InHandFacts DEF JInv, CInv, IInv, ControlOK, StoreOK, Progress, Waiting, Ahead
  <2>2. SInv'
    <3> SUFFICES ASSUME NEW n \in TxIds, NEW f \in Files PROVE Siblings(n, f)'
      BY DEF SInv
    <3>1. CASE n = cur /\ f = at
      <4>1. bak'[n][f] = M.fwd[f]
        BY <1>3, <2>1, <3>1 DEF Images
      <4> QED
        BY <1>1, <2>1, <3>1, <4>1 DEF JInv, SInv, Siblings
    <3>2. CASE ~(n = cur /\ f = at)
      <4>1. bak'[n][f] = bak[n][f]
        BY <1>3, <2>1, <3>2 DEF Images
      <4> QED
        BY <1>1, <4>1 DEF JInv, SInv, Siblings
    <3> QED
      BY <3>1, <3>2
  <2>3. Ahead'
    <3>1. \A f \in M.paths \ M.published : disk'[f] = M.fwd[f]
      BY <1>1, <1>3, <2>1 DEF JInv, Ahead, Images
    <3>2. disk'[at] = Absent /\ bak'[cur][at] = M.fwd[at]
      BY <1>3, <2>1 DEF Images
    <3>3. \A f \in M.published : InHand(f)' \/ tmp'[cur][f] = Absent
      <4>1. \A f \in M.published : f = at \/ tmp[cur][f] = Absent
        BY <1>1 DEF JInv, Ahead, InHand
      <4>2. pc' = "publish" \/ tmp[cur][at] = Absent
        BY <1>3, <2>1 DEF IsWrite
      <4> QED
        BY <1>1, <4>1, <4>2 DEF InHand
    <3> QED
      BY <1>1, <1>3, <3>1, <3>2, <3>3 DEF Ahead
  <2>4. Back'
    BY <1>3 DEF Back, Backing, Forward
  <2> QED
    BY <2>2, <2>3, <2>4
<1> QED
  BY <1>2, <1>3 DEF BackupTarget, Compensate

\* The second rename consumes the temporary; where it fails the path is empty
\* or as it was.
LEMMA PublishTargetJournal ==
  ASSUME JInv, Kept, PublishTarget
  PROVE  SInv' /\ Ahead' /\ Back'
<1>1. pc = "publish" /\ pc \in InFlight /\ pc \in Forward /\ M' = M /\ UNCHANGED <<cur, at, txs>>
  BY DEF PublishTarget, InFlight, Working, Forward, M
<1>2. /\ cur \in TxIds /\ at \in Files /\ disk \in Images
      /\ tmp \in [TxIds -> Images] /\ bak \in [TxIds -> Images]
      /\ at \in M.published /\ M.published \subseteq M.paths
  BY <1>1, InHandFacts DEF JInv, CInv, IInv, ControlOK, StoreOK, Progress, Waiting
<1>3. Fewer
  BY <1>2 DEF PublishTarget, Fewer, Images
<1>4. CASE pc' = "comp" /\ todo' = M.paths
  BY <1>1, <1>3, <1>4, FailedJournal
<1>5. CASE /\ pc' = "progress" /\ disk' = [disk EXCEPT ![at] = tmp[cur][at]]
           /\ tmp' = [tmp EXCEPT ![cur][at] = Absent]
  <2>1. \A f \in M.paths \ M.published : disk'[f] = M.fwd[f]
    BY <1>1, <1>2, <1>5 DEF JInv, Ahead, Images
  <2>2. \A f \in M.published : tmp'[cur][f] = Absent
    <3>1. \A f \in M.published : f = at \/ tmp[cur][f] = Absent
      BY <1>1 DEF JInv, Ahead, InHand
    <3>2. M.published \subseteq Files
      BY <1>1, InHandFacts DEF JInv
    <3> QED
      BY <1>2, <1>5, <3>1, <3>2 DEF Images
  <2>3. Ahead'
    BY <1>1, <1>5, <2>1, <2>2 DEF Ahead
  <2>4. Back'
    BY <1>5 DEF Back, Backing, Forward
  <2> QED
    BY <1>3, <2>3, <2>4, FewerSiblings DEF JInv
<1> QED
  BY <1>4, <1>5 DEF PublishTarget, Compensate

\* The other steps on the way leave files and siblings alone.
LEMMA ForwardJournal ==
  ASSUME JInv, Kept,
         PersistProgress \/ FilesDone \/ CommitConversation \/ CommitCheckpoints \/ Finalize \/ MarkUndone
  PROVE  SInv' /\ Ahead' /\ Back'
<1>1. UNCHANGED store /\ Fewer
  BY SameSiblings DEF PersistProgress, FilesDone, CommitConversation, CommitCheckpoints,
     Finalize, MarkUndone, store
<1>2. ASSUME pc \in Forward, pc' \in {"comp", "stateConv"}, todo' = M.paths, UNCHANGED <<cur, mem>>
      PROVE  SInv' /\ Ahead' /\ Back'
  <2>1. M' = M
    BY <1>2 DEF M
  <2> QED
    BY <1>1, <1>2, <2>1, FailedJournal
<1>3. ASSUME pc \in {"progress", "intent", "convo", "ckpts"},
             pc' \in {"intent", "convo", "ckpts", "finalize"}, UNCHANGED <<cur, mem>>
      PROVE  SInv' /\ Ahead' /\ Back'
  <2>1. M' = M /\ pc \in Forward
    BY <1>3 DEF M, Forward
  <2>2. Ahead'
    BY <1>1, <1>3, <2>1 DEF JInv, Ahead, InHand, store
  <2>3. Back'
    BY <1>3 DEF Back, Backing, Forward
  <2> QED
    BY <1>1, <2>2, <2>3, FewerSiblings DEF JInv
<1>4. ASSUME pc' \in {"idle", "mark"}
      PROVE  SInv' /\ Ahead' /\ Back'
  BY <1>1, <1>4, AtRest, FewerSiblings DEF JInv, InFlight, Working
<1>5. CASE PersistProgress \/ FilesDone
  BY <1>2, <1>3, <1>5 DEF PersistProgress, FilesDone, Compensate, Forward
<1>6. CASE CommitConversation \/ CommitCheckpoints
  BY <1>2, <1>3, <1>6 DEF CommitConversation, CommitCheckpoints, CompensateState, Forward
<1>7. CASE Finalize
  <2> DEFINE m == [M EXCEPT !.state = "committed"]
  <2>1. pc = "finalize" /\ pc \in InFlight /\ pc \in Forward
    BY <1>7 DEF Finalize, InFlight, Working, Forward
  <2>2. SameData(m, M) /\ m.published = M.published
    BY <2>1, InHandFacts, StateData DEF JInv
  <2>3. \/ pc' \in {"idle", "mark"}
        \/ PersistFails(m) /\ pc' = "stateConv" /\ todo' = M.paths /\ UNCHANGED cur
    BY <1>7 DEF Finalize, CompensateState
  <2>4. PersistFails(m) => M' = m
    BY DEF PersistFails, M
  <2> HIDE DEF m
  <2> QED
    BY <1>1, <1>4, <2>1, <2>2, <2>3, <2>4, FailedJournal DEF SameData
<1>8. CASE MarkUndone
  BY <1>4, <1>8 DEF MarkUndone
<1> QED
  BY <1>5, <1>6, <1>7, <1>8

\* Conversation and checkpoints go back before any path is visited.
LEMMA StateBackJournal ==
  ASSUME JInv, Kept, CompensateConversation \/ CompensateCheckpoints \/ CompensationDone
  PROVE  SInv' /\ Ahead' /\ Back'
<1>1. /\ UNCHANGED <<store, todo, cur, mem, at, compErr>> /\ M' = M /\ Fewer
      /\ pc \in {"stateConv", "stateCkpt", "comp"}
  BY SameSiblings DEF CompensateConversation, CompensateCheckpoints, CompensationDone, store, M
<1>2. pc \in InFlight /\ pc \in Backing
  BY <1>1 DEF InFlight, Working, Backing, Forward
<1>3. Ahead' /\ SInv'
  BY <1>1, FewerSiblings DEF CompensateConversation, CompensateCheckpoints,
     CompensationDone, Ahead, Forward, JInv
<1>4. pc # "comp" => todo = M.paths /\ M.published \ todo = {}
  BY <1>1, <1>2, InHandFacts DEF JInv, Back
<1>5. disk' = disk /\ todo \subseteq M.paths
  BY <1>1, <1>2 DEF JInv, Back, store
<1>6. CASE CompensationDone
  <2>1. /\ pc = "comp" /\ pc' = "verdict" /\ todo = {}
        /\ \A f \in M.published \ todo : compErr \/ disk[f] = M.fwd[f]
    BY <1>6 DEF CompensationDone, JInv, Back
  <2> QED
    BY <1>1, <1>3, <1>5, <2>1 DEF Back
<1>7. CASE CompensateConversation
  <2>1. pc' = "stateCkpt" /\ todo = M.paths
    BY <1>4, <1>7 DEF CompensateConversation
  <2> QED
    BY <1>1, <1>3, <1>5, <2>1 DEF Back
<1>8. CASE CompensateCheckpoints
  <2>1. /\ pc' = "comp" \/ (pc' = "verdict" /\ stateErr')
        /\ M.published \ todo = {}
    BY <1>4, <1>8 DEF CompensateCheckpoints
  <2> QED
    BY <1>1, <1>3, <1>5, <2>1 DEF Back
<1> QED
  BY <1>3, <1>6, <1>7, <1>8

\* A visit to a path on the way back puts its file back, or leaves an error.
LEMMA VisitJournal ==
  ASSUME JInv, Kept, CompensateFile
  PROVE  SInv' /\ Ahead' /\ Back'
<1>1. /\ pc \in {"comp", "compMove"} /\ pc' \in {"comp", "compMove"}
      /\ UNCHANGED <<txs, cur, mem>> /\ M' = M
  BY DEF CompensateFile, CompensateNothing, CompensateUnread, CompensateRename, CompensateForeign,
     CompensateRemove, CompensateMove, Visiting, Visited, Untouched, M
<1>2. pc \in InFlight /\ pc \in Backing
  BY <1>1 DEF InFlight, Working, Backing, Forward
<1>3. /\ cur \in TxIds /\ cur \in DOMAIN txs /\ M \in Manifest /\ M.published \subseteq Files
      /\ M.fwd = txs[cur].fwd
      /\ disk \in Images /\ tmp \in [TxIds -> Images] /\ bak \in [TxIds -> Images]
      /\ todo \subseteq M.paths /\ at \in Files \cup {0}
      /\ \A f \in M.published \ todo : compErr \/ disk[f] = M.fwd[f]
  BY <1>1, <1>2, InHandFacts DEF JInv, CInv, IInv, StoreOK, ControlOK, Back, SameData
<1>4. Fewer
  <2>1. ASSUME NEW f \in Files, CompensateNothing(f) PROVE Fewer
    BY <1>3, <2>1 DEF CompensateNothing, Fewer, Images
  <2>2. ASSUME NEW f \in Files, CompensateRename(f) PROVE Fewer
    <3>1. \/ UNCHANGED <<tmp, bak>>
          \/ UNCHANGED tmp /\ bak' = [bak EXCEPT ![cur][f] = Absent]
          \/ tmp' = [tmp EXCEPT ![cur][f] = Absent] /\ bak' = [bak EXCEPT ![cur][f] = Absent]
      BY <2>2 DEF CompensateRename
    <3> QED
      BY <1>3, <3>1 DEF Fewer, Images
  <2>3. ASSUME NEW f \in Files, CompensateUnread(f) \/ CompensateForeign(f) \/ CompensateRemove(f)
        PROVE  Fewer
    BY <2>3, SameSiblings DEF CompensateUnread, CompensateForeign, CompensateRemove, store
  <2>4. CASE CompensateMove
    BY <1>3, <2>4 DEF CompensateMove, Fewer, Images
  <2> QED
    BY <2>1, <2>2, <2>3, <2>4 DEF CompensateFile
<1>5. Ahead'
  BY <1>1 DEF Ahead, Forward
<1>6. ASSUME todo' \subseteq M.paths, pc' = "compMove" => at' \in M.published /\ disk'[at'] = Absent,
             \A f \in M.published \ todo' : compErr' \/ disk'[f] = M.fwd[f]
      PROVE  Back'
  BY <1>1, <1>6 DEF Back
<1>7. ASSUME NEW f \in Files, CompensateNothing(f) PROVE Back'
  BY <1>3, <1>6, <1>7 DEF CompensateNothing, Visited, AtForward
<1>8. ASSUME NEW f \in Files, CompensateRename(f) PROVE Back'
  <2>1. pc' = "comp" /\ todo' = todo \ {f}
    BY <1>8 DEF CompensateRename, Visited
  <2>2. \/ compErr'
        \/ compErr' = compErr /\ disk' = [disk EXCEPT ![f] = bak[cur][f]] /\ bak[cur][f] = M.fwd[f]
    BY <1>8 DEF CompensateRename, BetweenRenames
  <2>3. \A g \in M.published \ todo' : compErr' \/ disk'[g] = M.fwd[g]
    BY <1>3, <2>1, <2>2 DEF Images
  <2> QED
    BY <1>3, <1>6, <2>1, <2>3
<1>9. ASSUME NEW f \in Files, CompensateUnread(f) \/ CompensateForeign(f) PROVE Back'
  BY <1>3, <1>6, <1>9 DEF CompensateUnread, CompensateForeign, Visited
<1>10. ASSUME NEW f \in Files, CompensateRemove(f) PROVE Back'
  <2>1. f \in M.published /\ disk[f] # M.fwd[f]
    BY <1>10 DEF CompensateRemove, AtForward
  <2>2. CASE compErr' = TRUE /\ Visited(f)
    BY <1>3, <1>6, <2>2 DEF Visited
  <2>3. CASE /\ disk' = [disk EXCEPT ![f] = Absent] /\ UNCHANGED compErr
             /\ IF M.fwd[f] = Absent THEN Visited(f)
                ELSE pc' = "compMove" /\ at' = f /\ UNCHANGED todo
    <3>1. disk'[f] = Absent /\ \A g \in Files : g # f => disk'[g] = disk[g]
      BY <1>3, <2>3 DEF Images
    <3>2. CASE M.fwd[f] = Absent
      BY <1>3, <1>6, <2>3, <3>1, <3>2 DEF Visited
    <3>3. CASE M.fwd[f] # Absent
      <4>1. \A g \in M.published \ todo' : compErr' \/ disk'[g] = M.fwd[g]
        BY <1>3, <2>1, <2>3, <3>1, <3>3
      <4> QED
        BY <1>3, <1>6, <2>1, <2>3, <3>1, <3>3, <4>1
    <3> QED
      BY <3>2, <3>3
  <2> QED
    BY <1>10, <2>2, <2>3 DEF CompensateRemove
<1>11. ASSUME CompensateMove PROVE Back'
  <2>1. pc' = "comp" /\ todo' = todo \ {at} /\ at \in Files
    BY <1>11, <1>3, InHandFacts, <1>2 DEF CompensateMove, Visited, JInv, CInv, IInv, ControlOK
  <2>2. \/ compErr'
        \/ compErr' = compErr /\ disk' = [disk EXCEPT ![at] = M.fwd[at]]
    <3>1. bak[cur][at] # Absent => bak[cur][at] = M.fwd[at]
      BY <1>3, <2>1 DEF JInv, SInv, Siblings
    <3> QED
      BY <1>11, <3>1 DEF CompensateMove
  <2>3. \A g \in M.published \ todo' : compErr' \/ disk'[g] = M.fwd[g]
    BY <1>3, <2>1, <2>2 DEF Images
  <2> QED
    BY <1>3, <1>6, <2>1, <2>3
<1> QED
  BY <1>4, <1>5, <1>7, <1>8, <1>9, <1>10, <1>11, FewerSiblings DEF JInv, CompensateFile

\* A verdict ends a compensation; a recovery takes up one manifest after another.
LEMMA RecoveryJournal ==
  ASSUME JInv, Kept, Verdict \/ RecoverPrepared \/ RecoverCommitting \/ Start \/ PassDone
  PROVE  SInv' /\ Ahead' /\ Back'
<1>1. Fewer
  <2>1. tmp \in [TxIds -> Images] /\ bak \in [TxIds -> Images]
    BY DEF JInv, CInv, IInv, StoreOK
  <2>2. CASE RecoverPrepared
    BY <2>1, <2>2 DEF RecoverPrepared, Fewer, Images
  <2>3. CASE Verdict \/ RecoverCommitting \/ Start \/ PassDone
    BY <2>3, SameSiblings DEF Verdict, RecoverCommitting, Start, PassDone, store
  <2> QED
    BY <2>2, <2>3
<1>2. CASE Verdict \/ RecoverPrepared \/ Start \/ PassDone
  <2>1. pc' \in {"idle", "scan"}
    BY <1>2 DEF Verdict, RecoverPrepared, Start, PassDone, control
  <2> QED
    BY <1>1, <2>1, AtRest, FewerSiblings DEF JInv, InFlight, Working
<1>3. CASE RecoverCommitting
  <2> DEFINE n == Min(Remaining)
  <2>1. Remaining # {} /\ mem' = <<txs[n]>> /\ todo' = txs[n].paths /\ pc' \in {"comp", "stateConv"}
    BY <1>3 DEF RecoverCommitting
  <2>2. n \in DOMAIN txs
    BY <2>1, NextRemaining, Numbered DEF JInv, CInv
  <2> HIDE DEF n
  <2>3. M' = txs[n]
    BY <2>1 DEF M
  <2>4. M'.published \subseteq M'.paths
    BY <2>2, <2>3 DEF JInv, MInv, WellKept
  <2> QED
    BY <1>1, <2>1, <2>3, <2>4, TurnsBack, FewerSiblings DEF JInv
<1> QED
  BY <1>2, <1>3

\* Nothing has been journalled yet.
LEMMA InitJournal == Init => JInv
<1> SUFFICES ASSUME Init PROVE JInv
  OBVIOUS
<1>1. CInv
  BY InitIInv DEF Init, CInv, Underway, Forward
<1>2. txs = <<>> /\ pc = "idle" /\ tmp = [n \in TxIds |-> [f \in Files |-> Absent]] /\ bak = tmp
  BY DEF Init
<1>3. DOMAIN txs = {}
  BY <1>2
<1>4. MInv
  BY <1>2, <1>3 DEF MInv, InStep, InFlight, Working, Journalled, Forward
<1>5. SInv
  BY <1>2 DEF SInv, Siblings
<1>6. Ahead /\ Back
  BY <1>2 DEF Ahead, Back, Backing, InFlight, Working, Forward
<1> QED
  BY <1>1, <1>4, <1>5, <1>6 DEF JInv

\* Every step keeps the journal.
LEMMA NextJournal == JInv /\ [Next]_vars => JInv'
<1> SUFFICES ASSUME JInv, [Next]_vars PROVE JInv'
  OBVIOUS
<1>1. CInv' /\ Kept
  BY NextCInv, NextKept DEF JInv
<1>2. CASE UNCHANGED vars
  <2>1. UNCHANGED <<disk, tmp, bak, txs, cur, mem, pc, at, todo, stateErr, compErr>> /\ M' = M
    BY <1>2 DEF vars, store, control, M
  <2>2. SInv'
    BY <1>1, <2>1, SameSiblings, FewerSiblings DEF JInv
  <2>3. Ahead' /\ Back'
    BY <2>1 DEF JInv, Ahead, Back, InHand
  <2> QED
    BY <1>1, <2>2, <2>3 DEF JInv, Kept
<1>3. CASE Next
  <2>1. SInv' /\ Ahead' /\ Back'
    BY <1>1, <1>3, EnvironmentJournal, RequestJournal, BeginCommitJournal,
       PersistIntentJournal, BackupTargetJournal, PublishTargetJournal, ForwardJournal,
       StateBackJournal, VisitJournal, RecoveryJournal DEF Next, Commit, Recover
  <2> QED
    BY <1>1, <2>1 DEF JInv, Kept
<1> QED
  BY <1>2, <1>3

\* The journal agrees with the files throughout every behaviour: a temporary
\* holds the image to publish, a backup the image that was found, what is not
\* yet published is untouched, and what was compensated is back or on record.
THEOREM JournalAgrees == Spec => []JInv
<1>1. Init => JInv
  BY InitJournal
<1>2. JInv /\ [Next]_vars => JInv'
  BY NextJournal
<1> QED
  BY <1>1, <1>2, PTL DEF Spec

-----------------------------------------------------------------------------
(* What the journal is for *)

\* The images of the manifest in hand are among those known of its paths.
LEMMA InHandKnown ==
  ASSUME JInv, pc \in InFlight, NEW f \in M.paths
  PROVE  M.fwd[f] \in Known(f) /\ M.restore[f] \in Known(f)
<1>1. cur \in DOMAIN txs /\ SameData(M, txs[cur])
  BY InHandFacts DEF JInv
<1>2. cur \in {i \in DOMAIN txs : f \in txs[i].paths}
  BY <1>1 DEF SameData
<1> QED
  BY <1>1, <1>2 DEF Known, SameData

\* A step that moves one file moves an image some manifest has recorded.
LEMMA KnownMoves ==
  ASSUME JInv, [Next]_vars, turns' = turns, edits' = edits, NEW f \in Files, disk'[f] # disk[f]
  PROVE  disk[f] \in Known(f) \cup {Absent}
<1>1. disk \in Images /\ at \in Files \cup {0} /\ turns \in Nat /\ edits \in Nat
  BY BoundsAssumption DEF JInv, CInv, IInv, StoreOK, ControlOK, CountersOK
<1>2. ASSUME NEW g \in Files, NEW i, disk' = [disk EXCEPT ![g] = i] PROVE f = g
  BY <1>1, <1>2 DEF Images
<1>3. CASE BackupTarget
  <2>1. pc = "backup" /\ pc \in InFlight /\ pc \in Forward
    BY <1>3 DEF BackupTarget, InFlight, Working, Forward
  <2>2. at \in Files /\ at \in M.paths /\ disk[at] = M.fwd[at]
    <3>1. at \in M.published /\ M.published \subseteq M.paths
      BY <2>1, InHandFacts DEF JInv, Progress, Waiting
    <3> QED
      BY <2>1, <3>1 DEF JInv, CInv, IInv, ControlOK, Ahead
  <2>3. f = at
    BY <1>2, <1>3, <2>2 DEF BackupTarget
  <2> QED
    BY <2>1, <2>2, <2>3, InHandKnown
<1>4. CASE PublishTarget
  <2>1. pc = "publish" /\ at \in Files /\ disk[at] = Absent
    BY <1>4 DEF PublishTarget, JInv, CInv, IInv, ControlOK, Ahead, Forward
  <2> QED
    BY <1>2, <1>4, <2>1 DEF PublishTarget
<1>5. ASSUME NEW g \in Files, CompensateRename(g)
      PROVE  disk[f] \in Known(f) \cup {Absent}
  BY <1>2, <1>5 DEF CompensateRename, BetweenRenames
<1>6. ASSUME NEW g \in Files, CompensateRemove(g)
      PROVE  disk[f] \in Known(f) \cup {Absent}
  <2>1. pc \in InFlight /\ g \in M.published /\ disk[g] = M.restore[g]
    BY <1>6 DEF CompensateRemove, Visiting, AtRestore, InFlight, Working
  <2>2. g \in M.paths
    BY <2>1, InHandFacts DEF JInv
  <2>3. f = g
    BY <1>2, <1>6 DEF CompensateRemove
  <2> QED
    BY <2>1, <2>2, <2>3, InHandKnown
<1>7. CASE CompensateMove
  <2>1. pc = "compMove" /\ at \in Files /\ disk[at] = Absent
    BY <1>7 DEF CompensateMove, JInv, CInv, IInv, ControlOK, Back, Backing, InFlight, Working, Forward
  <2> QED
    BY <1>2, <1>7, <2>1 DEF CompensateMove
<1>8. CASE Environment
  <2>1. UNCHANGED disk
    <3>1. ASSUME NEW touched, NEW deleted, Turn(touched, deleted) PROVE FALSE
      BY <1>1, <3>1 DEF Turn
    <3>4. ASSUME NEW touched, NEW written, NEW deleted, NEW owned,
                 BlockedTurn \/ BrokenTurn(touched, written, deleted, owned)
          PROVE  FALSE
      <4>1. turns' = turns + 1
        BY <3>4 DEF BlockedTurn, BrokenTurn
      <4> QED
        BY <1>1, <4>1
    <3>2. ASSUME NEW g, NEW image, ExternalEdit(g, image) PROVE FALSE
      BY <1>1, <3>2 DEF ExternalEdit
    <3>3. CASE Crash \/ Shutdown
      BY <3>3 DEF Crash, Shutdown, Stop, store
    <3> QED
      BY <1>8, <3>1, <3>2, <3>3, <3>4 DEF Environment
  <2> QED
    BY <2>1
<1>9. CASE Request \/ UNCHANGED vars
  <2>1. UNCHANGED disk
    BY <1>9 DEF Request, PrepareTransaction, FileRevert, UndoRewind, Begin, Abandon, StageAs,
       store, vars
  <2> QED
    BY <2>1
<1>10. CASE \/ BeginCommit \/ PersistIntent \/ PersistProgress \/ FilesDone
            \/ CommitConversation \/ CommitCheckpoints \/ Finalize \/ MarkUndone
  <2>1. UNCHANGED disk
    BY <1>10 DEF BeginCommit, PersistIntent, PersistProgress, FilesDone, CommitConversation,
       CommitCheckpoints, Finalize, MarkUndone, store
  <2> QED
    BY <2>1
<1>11. CASE \/ CompensateConversation \/ CompensateCheckpoints \/ CompensationDone \/ Verdict
            \/ Start \/ RecoverPrepared \/ RecoverCommitting \/ PassDone
            \/ \E g \in Files : CompensateNothing(g) \/ CompensateUnread(g) \/ CompensateForeign(g)
  <2>1. UNCHANGED disk
    BY <1>11 DEF CompensateConversation, CompensateCheckpoints, CompensationDone, Verdict,
       Start, RecoverPrepared, RecoverCommitting, PassDone, CompensateNothing, CompensateUnread,
       CompensateForeign, store
  <2> QED
    BY <2>1
<1> QED
  BY <1>3, <1>4, <1>5, <1>6, <1>7, <1>8, <1>9, <1>10, <1>11
     DEF Next, Commit, Recover, CompensateFile

\* What the transactions do not know of they leave alone: a file whose content
\* no manifest recorded is neither replaced nor removed by a step of a
\* transaction, a compensation or a recovery, wherever it was interrupted.
THEOREM ForeignKept == Spec => ForeignContentKept
<1>1. JInv /\ [Next]_vars =>
        [\A f \in Files :
           turns' = turns /\ edits' = edits /\ disk[f] \notin Known(f) \cup {Absent} =>
             disk'[f] = disk[f]]_vars
  BY KnownMoves
<1>2. Spec => [][Next]_vars
  BY DEF Spec
<1> QED
  BY <1>1, <1>2, JournalAgrees, PTL DEF ForeignContentKept

-----------------------------------------------------------------------------
(* Orderly histories: who owns the temporaries *)

Unsettled(n) == n \in DOMAIN txs /\ txs[n].state = "committing"

\* At most one manifest is committing, and it is the one in hand.
Alone ==
  /\ \A m, n \in DOMAIN txs : Unsettled(m) /\ Unsettled(n) => m = n
  /\ pc \in Working => \A n \in DOMAIN txs : Unsettled(n) => n = cur

\* A published path is as it was found, moved to its backup, or replaced; only
\* the last of them has consumed the temporary.
Placed(n, f) ==
  \/ disk[f] = txs[n].fwd[f]
  \/ disk[f] = Absent /\ bak[n][f] = txs[n].fwd[f]
  \/ disk[f] = txs[n].restore[f] /\ tmp[n][f] = Absent /\ bak[n][f] = txs[n].fwd[f]
AllPlaced ==
  \A n \in DOMAIN txs : Unsettled(n) => \A f \in txs[n].published : Placed(n, f)

\* The temporary is gone, or its removal failed and was passed over.
Gone(n, f) == tmp[n][f] = Absent \/ <<n, f>> \in litter

\* A visit takes the temporary of its path away or passes over it, or leaves an
\* error on record.
Swept ==
  /\ pc = "compMove" => tmp[cur][at] = Absent
  /\ pc \in {"comp", "compMove", "verdict"} =>
       \A f \in M.paths \ todo : compErr \/ Gone(cur, f)

\* A manifest that came to its end has no temporary left.
Settled(n) == txs[n].state \notin {"prepared", "committing"}
NoneWaiting == \A n \in DOMAIN txs : Settled(n) => \A f \in Files : Gone(n, f)

OInv == orderly => Alone /\ AllPlaced /\ Swept /\ NoneWaiting

\* Once a history is not orderly any more it never is again.
LEMMA OrderlyBefore == [Next]_vars /\ orderly' => orderly
<1> SUFFICES ASSUME [Next]_vars, orderly' PROVE orderly
  OBVIOUS
<1>1. CASE Environment
  BY <1>1 DEF Environment, Turn, BlockedTurn, BrokenTurn, ExternalEdit, Crash, Shutdown, Stop
<1>2. CASE Request
  BY <1>2 DEF Request, PrepareTransaction, FileRevert, UndoRewind, Begin, Abandon, StageAs, counters
<1>3. CASE Commit
  BY <1>3 DEF Commit, BeginCommit, PersistIntent, BackupTarget, PublishTarget,
     PersistProgress, FilesDone, CommitConversation, CommitCheckpoints, Finalize,
     MarkUndone, counters
<1>4. CASE Recover
  BY <1>4 DEF Recover, CompensateConversation, CompensateCheckpoints, CompensateFile,
     CompensateNothing, CompensateUnread, CompensateRename, CompensateForeign, CompensateRemove,
     CompensateMove, CompensationDone, Verdict, Start, RecoverPrepared, RecoverCommitting,
     PassDone, Untouched, counters
<1>5. CASE UNCHANGED vars
  BY <1>5 DEF vars, counters
<1> QED
  BY <1>1, <1>2, <1>3, <1>4, <1>5 DEF Next

\* What was passed over stays so.
LEMMA LitterKept == [Next]_vars => litter \subseteq litter'
<1> SUFFICES ASSUME [Next]_vars PROVE litter \subseteq litter'
  OBVIOUS
<1>1. CASE Environment
  BY <1>1 DEF Environment, Turn, BlockedTurn, BrokenTurn, ExternalEdit, Crash, Shutdown, Stop
<1>2. CASE Request
  BY <1>2 DEF Request, PrepareTransaction, FileRevert, UndoRewind, Begin, Abandon, StageAs, counters
<1>3. CASE Commit
  BY <1>3 DEF Commit, BeginCommit, PersistIntent, BackupTarget, PublishTarget,
     PersistProgress, FilesDone, CommitConversation, CommitCheckpoints, Finalize,
     MarkUndone, counters
<1>4. CASE Recover
  BY <1>4 DEF Recover, CompensateConversation, CompensateCheckpoints, CompensateFile,
     CompensateNothing, CompensateUnread, CompensateRename, CompensateForeign, CompensateRemove,
     CompensateMove, CompensationDone, Verdict, Start, RecoverPrepared, RecoverCommitting,
     PassDone, Untouched, counters
<1>5. CASE UNCHANGED vars
  BY <1>5 DEF vars, counters
<1> QED
  BY <1>1, <1>2, <1>3, <1>4, <1>5 DEF Next

\* A step on the manifest in hand leaves the others alone.
LEMMA InHandOrdered ==
  ASSUME JInv, OInv, Kept, orderly, pc \in Working, NEW c \in DOMAIN txs, c = cur,
         UNCHANGED cur \/ pc' \notin Working,
         DOMAIN txs' = DOMAIN txs,
         \A i \in DOMAIN txs : i # c => txs'[i] = txs[i] /\ tmp'[i] = tmp[i],
         litter \subseteq litter',
         Unsettled(c)' => \A f \in txs'[c].published : Placed(c, f)',
         Settled(c)' => \A f \in Files : Gone(c, f)',
         Swept'
  PROVE  OInv'
<1>1. Alone /\ AllPlaced /\ NoneWaiting
  BY DEF OInv
<1>2. \A n \in DOMAIN txs : Unsettled(n)' => n = c
  BY <1>1 DEF Alone, Unsettled
<1>3. Alone'
  BY <1>2 DEF Alone, Unsettled
<1>4. AllPlaced'
  <2> SUFFICES ASSUME NEW n \in DOMAIN txs, Unsettled(n)', NEW f \in txs'[n].published
               PROVE  Placed(n, f)'
    BY DEF AllPlaced
  <2> QED
    BY <1>2
<1>5. NoneWaiting'
  <2> SUFFICES ASSUME NEW n \in DOMAIN txs, Settled(n)', NEW f \in Files
               PROVE  Gone(n, f)'
    BY DEF NoneWaiting
  <2>1. CASE n = c
    BY <2>1
  <2>2. CASE n # c
    BY <1>1, <2>2 DEF NoneWaiting, Settled, Gone
  <2> QED
    BY <2>1, <2>2
<1> QED
  BY <1>3, <1>4, <1>5 DEF OInv

\* Nothing is being visited, or every path still has to be.
LEMMA SweptLater ==
  ASSUME pc' \notin {"comp", "compMove", "verdict"} \/ (pc' \in {"comp", "verdict"} /\ todo' = M'.paths)
  PROVE  Swept'
  BY DEF Swept

\* A step that moves no file: what was placed still is.
LEMMA InHandStill ==
  ASSUME JInv, OInv, Kept, orderly, pc \in InFlight, NEW c \in DOMAIN txs, c = cur,
         UNCHANGED <<disk, tmp, bak, litter>>, UNCHANGED cur \/ pc' \notin Working,
         DOMAIN txs' = DOMAIN txs, \A i \in DOMAIN txs : i # c => txs'[i] = txs[i],
         txs'[c].published = txs[c].published,
         Settled(c)' => \A f \in Files : Gone(c, f)',
         Swept'
  PROVE  OInv'
<1>1. txs[c].state \in {"prepared", "committing"} /\ WellKept(c) /\ Evolves(c)
  BY DEF JInv, MInv, InStep, Kept
<1>2. \A f \in txs'[c].published : Placed(c, f)'
  <2>1. CASE txs[c].state = "prepared"
    BY <1>1, <2>1 DEF WellKept
  <2>2. CASE txs[c].state = "committing"
    <3>1. \A f \in txs[c].published : Placed(c, f)
      BY <2>2 DEF OInv, AllPlaced, Unsettled
    <3> QED
      BY <1>1, <3>1 DEF Placed, Evolves, SameData
  <2> QED
    BY <1>1, <2>1, <2>2
<1>3. pc \in Working
  BY DEF InFlight
<1> QED
  BY <1>2, <1>3, InHandOrdered

\* The beginning of a commit, and the steps that leave files and manifest alone.
LEMMA StillOrdered ==
  ASSUME JInv, OInv, Kept, orderly,
         \/ BeginCommit \/ PersistProgress \/ FilesDone \/ CommitConversation
         \/ CommitCheckpoints \/ CompensateConversation \/ CompensateCheckpoints
         \/ CompensationDone
  PROVE  OInv'
<1>1. /\ UNCHANGED <<disk, tmp, bak, cur, litter>> /\ pc \in InFlight
      /\ \/ BeginCommit \/ UNCHANGED <<txs, mem>>
  BY DEF BeginCommit, PersistProgress, FilesDone, CommitConversation, CommitCheckpoints,
     CompensateConversation, CompensateCheckpoints, CompensationDone, store, counters,
     InFlight, Working
<1> PICK c \in DOMAIN txs : c = cur
  BY <1>1, InHandFacts DEF JInv
<1>2. CASE BeginCommit
  <2> DEFINE m == [M EXCEPT !.state = "committing"]
  <2>1. SameData(m, M) /\ m.state = "committing" /\ m.published = M.published
        /\ M.published = txs[c].published /\ txs[c].state \in {"prepared", "committing"}
    BY <1>1, InHandFacts, StateData DEF JInv, MInv, InStep
  <2>2. \/ Persist(m) /\ pc' = "intent"
        \/ PersistFails(m) /\ pc' = "comp" /\ todo' = M.paths
    BY <1>2 DEF BeginCommit, Compensate
  <2>3. M' = m
    BY <2>2 DEF Persist, PersistFails, M
  <2> HIDE DEF m
  <2>4. Swept'
    BY <2>1, <2>2, <2>3, SweptLater DEF SameData
  <2>5. /\ DOMAIN txs' = DOMAIN txs /\ \A i \in DOMAIN txs : i # c => txs'[i] = txs[i]
        /\ txs'[c].published = txs[c].published /\ txs'[c].state \in {"prepared", "committing"}
    BY <2>1, <2>2 DEF Persist, PersistFails
  <2> QED
    BY <1>1, <2>4, <2>5, InHandStill DEF Settled
<1>3. CASE UNCHANGED <<txs, mem>>
  <2>1. M' = M /\ txs[c].state \in {"prepared", "committing"}
    BY <1>1, <1>3 DEF M, JInv, MInv, InStep
  <2>2. CASE CompensationDone
    <3>1. Swept'
      BY <1>1, <2>1, <2>2 DEF CompensationDone, OInv, Swept, Gone
    <3> QED
      BY <1>1, <1>3, <2>1, <3>1, InHandStill DEF Settled
  <2>3. CASE \/ PersistProgress \/ FilesDone \/ CommitConversation
             \/ CommitCheckpoints \/ CompensateConversation \/ CompensateCheckpoints
    <3>1. \/ pc' \notin {"comp", "compMove", "verdict"}
          \/ pc' \in {"comp", "verdict"} /\ todo' = M.paths
      BY <2>3 DEF PersistProgress, FilesDone, CommitConversation, CommitCheckpoints, Compensate,
         CompensateState, CompensateConversation, CompensateCheckpoints, JInv, Back
    <3>2. Swept'
      BY <2>1, <3>1, SweptLater
    <3> QED
      BY <1>1, <1>3, <2>1, <3>2, InHandStill DEF Settled
  <2>4. CASE BeginCommit
    BY <1>2, <2>4
  <2> QED
    BY <2>2, <2>3, <2>4
<1> QED
  BY <1>1, <1>2, <1>3

\* The next path is recorded while it is as it was found.
LEMMA PersistIntentOrdered ==
  ASSUME JInv, OInv, Kept, orderly, PersistIntent
  PROVE  OInv'
<1> DEFINE g == Min(Unpublished)
           m == [M EXCEPT !.published = @ \cup {g}]
<1>1. pc = "intent" /\ pc \in InFlight /\ pc \in Forward /\ pc \in Journalled /\ pc \in Working
  BY DEF PersistIntent, InFlight, Working, Forward, Journalled
<1> PICK c \in DOMAIN txs : c = cur
  BY <1>1, InHandFacts DEF JInv
<1>2. /\ M \in Manifest /\ g \in M.paths \ M.published /\ M = txs[c]
      /\ txs[c].state = "committing"
  <2>1. M \in Manifest /\ M = txs[c] /\ txs[c].state = "committing"
    BY <1>1, InHandFacts DEF JInv, MInv, InStep
  <2>2. Unpublished \in SUBSET Nat /\ Unpublished # {}
    BY <2>1, BoundsAssumption DEF PersistIntent, Unpublished, Manifest
  <2> QED
    BY <2>1, <2>2, MinFacts DEF Unpublished
<1>3. SameData(m, M) /\ m.published = M.published \cup {g} /\ m.state = M.state
  BY <1>2 DEF Manifest, SameData
<1>4. /\ UNCHANGED <<disk, tmp, bak, cur, litter>>
      /\ \/ Persist(m) /\ pc' = "backup"
         \/ PersistFails(M) /\ pc' = "comp" /\ todo' = M.paths
  BY DEF PersistIntent, Compensate, store, counters
<1> HIDE DEF m, g
<1>5. CASE Persist(m) /\ pc' = "backup"
  <2>1. DOMAIN txs' = DOMAIN txs /\ txs'[c] = m /\ \A i \in DOMAIN txs : i # c => txs'[i] = txs[i]
    BY <1>5 DEF Persist
  <2>2. \A f \in m.published : Placed(c, f)'
    <3>1. disk[g] = M.fwd[g] /\ \A f \in M.published : Placed(c, f)
      BY <1>1, <1>2 DEF JInv, Ahead, OInv, AllPlaced, Unsettled
    <3> QED
      BY <1>2, <1>3, <1>4, <2>1, <3>1 DEF Placed, SameData
  <2>3. Swept'
    BY <1>5, SweptLater
  <2> QED
    BY <1>1, <1>2, <1>3, <1>4, <2>1, <2>2, <2>3, InHandOrdered DEF Settled
<1>6. CASE PersistFails(M) /\ pc' = "comp" /\ todo' = M.paths
  <2>1. M' = M /\ UNCHANGED txs
    BY <1>6 DEF PersistFails, M
  <2>2. Swept'
    BY <1>6, <2>1, SweptLater
  <2> QED
    BY <1>1, <1>2, <1>4, <2>1, <2>2, InHandStill DEF Settled
<1> QED
  BY <1>4, <1>5, <1>6

\* The two renames: a path is moved to its backup, then replaced.
LEMMA PublishOrdered ==
  ASSUME JInv, OInv, Kept, orderly, BackupTarget \/ PublishTarget
  PROVE  OInv'
<1>1. /\ pc \in {"backup", "publish"} /\ pc \in InFlight /\ pc \in Forward /\ pc \in Journalled
      /\ pc \in Working /\ M' = M /\ UNCHANGED <<cur, at, txs, litter>>
  BY DEF BackupTarget, PublishTarget, InFlight, Working, Forward, Journalled, M, counters
<1> PICK c \in DOMAIN txs : c = cur
  BY <1>1, InHandFacts DEF JInv
<1>2. /\ c \in TxIds /\ at \in Files /\ M.published \subseteq Files /\ M = txs[c]
      /\ disk \in Images /\ tmp \in [TxIds -> Images] /\ bak \in [TxIds -> Images]
      /\ txs[c].state = "committing" /\ tmp[c][at] = M.restore[at]
  BY <1>1, InHandFacts DEF JInv, CInv, IInv, ControlOK, StoreOK, Progress, Waiting, MInv, InStep
<1>3. \A f \in txs[c].published : Placed(c, f)
  BY <1>2 DEF OInv, AllPlaced, Unsettled
<1>4. Swept'
  BY <1>1, SweptLater DEF BackupTarget, PublishTarget, Compensate
<1>5. \A i \in DOMAIN txs : i # c => tmp'[i] = tmp[i]
  BY <1>1, <1>2, Numbered DEF BackupTarget, PublishTarget, JInv, CInv
<1>6. CASE BackupTarget
  <2>1. disk[at] = M.fwd[at]
    BY <1>1, <1>6 DEF BackupTarget, JInv, Ahead
  <2>2. \/ UNCHANGED <<disk, tmp, bak>>
        \/ /\ disk' = [disk EXCEPT ![at] = Absent] /\ UNCHANGED tmp
           /\ bak' = [bak EXCEPT ![c][at] = disk[at]]
    BY <1>6 DEF BackupTarget
  <2>3. \A f \in txs[c].published : Placed(c, f)'
    <3> SUFFICES ASSUME NEW f \in txs[c].published PROVE Placed(c, f)'
      OBVIOUS
    <3>1. CASE f = at /\ ~UNCHANGED <<disk, tmp, bak>>
      BY <1>1, <1>2, <2>1, <2>2, <3>1 DEF Placed, Images
    <3>2. CASE f # at \/ UNCHANGED <<disk, tmp, bak>>
      <4>1. disk'[f] = disk[f] /\ tmp'[c][f] = tmp[c][f] /\ bak'[c][f] = bak[c][f]
        BY <1>2, <2>2, <3>2 DEF Images
      <4> QED
        BY <1>1, <1>3, <4>1 DEF Placed
    <3> QED
      BY <3>1, <3>2
  <2> QED
    BY <1>1, <1>2, <1>4, <1>5, <2>3, InHandOrdered DEF Settled
<1>7. CASE PublishTarget
  <2>1. disk[at] = Absent /\ bak[c][at] = M.fwd[at]
    BY <1>1, <1>7 DEF PublishTarget, JInv, Ahead
  <2>2. \/ UNCHANGED <<disk, tmp, bak>>
        \/ /\ disk' = [disk EXCEPT ![at] = tmp[c][at]] /\ UNCHANGED bak
           /\ tmp' = [tmp EXCEPT ![c][at] = Absent]
        \/ /\ disk' = [disk EXCEPT ![at] = bak[c][at]] /\ UNCHANGED tmp
           /\ bak' = [bak EXCEPT ![c][at] = Absent]
    BY <1>7 DEF PublishTarget
  <2>3. \A f \in txs[c].published : Placed(c, f)'
    <3> SUFFICES ASSUME NEW f \in txs[c].published PROVE Placed(c, f)'
      OBVIOUS
    <3>1. CASE f = at /\ ~UNCHANGED <<disk, tmp, bak>>
      <4>1. \/ disk'[f] = M.restore[f] /\ tmp'[c][f] = Absent /\ bak'[c][f] = M.fwd[f]
            \/ disk'[f] = M.fwd[f]
        BY <1>2, <2>1, <2>2, <3>1 DEF Images
      <4> QED
        BY <1>1, <1>2, <4>1 DEF Placed
    <3>2. CASE f # at \/ UNCHANGED <<disk, tmp, bak>>
      <4>1. disk'[f] = disk[f] /\ tmp'[c][f] = tmp[c][f] /\ bak'[c][f] = bak[c][f]
        BY <1>2, <2>2, <3>2 DEF Images
      <4> QED
        BY <1>1, <1>3, <4>1 DEF Placed
    <3> QED
      BY <3>1, <3>2
  <2> QED
    BY <1>1, <1>2, <1>4, <1>5, <2>3, InHandOrdered DEF Settled
<1> QED
  BY <1>6, <1>7

\* At the commit point every temporary has been consumed.
LEMMA FinalizeOrdered ==
  ASSUME JInv, OInv, Kept, orderly, Finalize
  PROVE  OInv'
<1> DEFINE m == [M EXCEPT !.state = "committed"]
<1>1. pc = "finalize" /\ pc \in InFlight /\ pc \in Forward
  BY DEF Finalize, InFlight, Working, Forward
<1> PICK c \in DOMAIN txs : c = cur
  BY <1>1, InHandFacts DEF JInv
<1>2. /\ SameData(m, M) /\ m.published = M.published /\ M = txs[c] /\ c \in TxIds
      /\ txs[c].state \in {"prepared", "committing"}
  BY <1>1, InHandFacts, StateData DEF JInv, MInv, InStep
<1>3. /\ UNCHANGED <<disk, tmp, bak, litter>>
      /\ \/ txs' = [txs EXCEPT ![c] = m] /\ (pc' = "idle" \/ (pc' = "mark" /\ UNCHANGED cur))
         \/ UNCHANGED <<txs, cur>> /\ pc' = "stateConv"
  BY DEF Finalize, PersistFails, CompensateState, store, counters
<1>4. \A f \in Files : tmp[c][f] = Absent
  <2>1. \A f \in M.published : tmp[c][f] = Absent
    BY <1>1 DEF JInv, Ahead, InHand
  <2>2. M.paths \subseteq M.published
    BY <1>1 DEF JInv, CInv, Underway, Progress, NoneLeft
  <2>3. \A f \in Files : tmp[c][f] # Absent => f \in M.paths
    BY <1>2 DEF JInv, SInv, Siblings
  <2> QED
    BY <2>1, <2>2, <2>3
<1>5. Swept'
  BY <1>3, SweptLater
<1> HIDE DEF m
<1>6. /\ DOMAIN txs' = DOMAIN txs /\ \A i \in DOMAIN txs : i # c => txs'[i] = txs[i]
      /\ txs'[c].published = txs[c].published
  BY <1>2, <1>3
<1> QED
  BY <1>1, <1>3, <1>4, <1>5, <1>6, InHandStill DEF Working, Gone

\* Marking the parent of a committed undo touches no file.
LEMMA MarkUndoneOrdered ==
  ASSUME JInv, OInv, Kept, orderly, MarkUndone
  PROVE  OInv'
<1>1. pc = "mark" /\ pc' = "idle" /\ pc \in Working /\ M = txs[cur] /\ M.kind = "undo"
      /\ UNCHANGED <<store, litter>>
  BY DEF MarkUndone, JInv, MInv, InStep, Working, counters
<1>2. cur \in DOMAIN txs
  BY <1>1, Numbered, InMemory DEF JInv, CInv
<1> DEFINE p == M.parent
<1>3. p \in DOMAIN txs /\ txs[p].state \in {"committed", "undone"} /\ txs[p] \in Manifest
  BY <1>1, <1>2, Numbered DEF JInv, CInv, MInv, WellKept
<1>4. UNCHANGED txs \/ txs' = [txs EXCEPT ![p].state = "undone"]
  BY DEF MarkUndone
<1> HIDE DEF p
<1>5. /\ DOMAIN txs' = DOMAIN txs
      /\ \A i \in DOMAIN txs : txs'[i] = txs[i] \/ (Settled(i) /\ Settled(i)')
  BY <1>3, <1>4 DEF Settled, Manifest
<1>6. Alone'
  BY <1>1, <1>5 DEF OInv, Alone, Unsettled, Settled, Working
<1>7. AllPlaced'
  BY <1>1, <1>5 DEF OInv, AllPlaced, Unsettled, Settled, Placed, store
<1>8. NoneWaiting'
  BY <1>1, <1>5 DEF OInv, NoneWaiting, Settled, Gone, store
<1>9. Swept'
  BY <1>1, SweptLater
<1> QED
  BY <1>6, <1>7, <1>8, <1>9 DEF OInv

\* A visit takes the temporary away or passes over it, wherever the path was left.
LEMMA VisitOrdered ==
  ASSUME JInv, OInv, Kept, orderly, CompensateFile, litter \subseteq litter'
  PROVE  OInv'
<1>1. /\ pc \in {"comp", "compMove"} /\ pc' \in {"comp", "compMove"}
      /\ pc \in InFlight /\ pc \in Working
      /\ UNCHANGED <<txs, cur, mem>> /\ M' = M
  BY DEF CompensateFile, CompensateNothing, CompensateUnread, CompensateRename, CompensateForeign,
     CompensateRemove, CompensateMove, Visiting, Visited, Untouched, M, InFlight, Working
<1> PICK c \in DOMAIN txs : c = cur
  BY <1>1, InHandFacts DEF JInv
<1>2. /\ c \in TxIds /\ M.paths \subseteq Files /\ M.published \subseteq M.paths
      /\ SameData(M, txs[c]) /\ M.published = txs[c].published
      /\ disk \in Images /\ tmp \in [TxIds -> Images] /\ bak \in [TxIds -> Images]
      /\ \A i \in DOMAIN txs : i \in TxIds
      /\ WellKept(c) /\ txs[c].state \in {"prepared", "committing"}
  BY <1>1, InHandFacts, Numbered DEF JInv, CInv, IInv, ControlOK, StoreOK, MInv, InStep
<1>3. /\ \A f \in txs[c].published : Placed(c, f)
      /\ \A f \in M.paths \ todo : compErr \/ Gone(c, f)
      /\ pc = "compMove" => tmp[c][at] = Absent
  <2>1. txs[c].published # {} => Unsettled(c)
    BY <1>2 DEF WellKept, Unsettled
  <2> QED
    BY <1>1, <2>1 DEF OInv, AllPlaced, Swept
<1>4. ASSUME NEW g \in Files,
             \A f \in Files : f # g =>
               disk'[f] = disk[f] /\ bak'[c][f] = bak[c][f],
             \A i \in DOMAIN txs : i # c => tmp'[i] = tmp[i],
             \A f \in Files : tmp'[c][f] \in {tmp[c][f], Absent},
             g \in M.published => Placed(c, g)',
             \/ /\ pc' = "comp" /\ todo' = todo \ {g}
                /\ compErr' = TRUE \/ (compErr' = compErr /\ Gone(c, g)')
             \/ /\ pc' = "compMove" /\ todo' = todo /\ at' = g
                /\ tmp'[c][g] = Absent /\ compErr' = compErr
      PROVE  OInv'
  <2>1. \A f \in txs'[c].published : Placed(c, f)'
    BY <1>1, <1>2, <1>3, <1>4 DEF Placed
  <2>2. \A f \in Files : Gone(c, f) => Gone(c, f)'
    BY <1>4 DEF Gone
  <2>3. Swept'
    <3>1. pc' # "verdict" /\ (pc' = "compMove" => tmp'[c][at'] = Absent)
      BY <1>1, <1>4
    <3>2. \A f \in M.paths \ todo' : compErr' \/ Gone(c, f)'
      BY <1>2, <1>3, <1>4, <2>2
    <3> QED
      BY <1>1, <3>1, <3>2 DEF Swept
  <2> QED
    BY <1>1, <1>2, <1>4, <2>1, <2>3, InHandOrdered DEF Settled
<1>5. ASSUME NEW f \in Files, CompensateNothing(f) PROVE OInv'
  <2>1. /\ UNCHANGED <<disk, bak, compErr>> /\ pc' = "comp" /\ todo' = todo \ {f}
        /\ \/ tmp' = [tmp EXCEPT ![c][f] = Absent]
           \/ UNCHANGED tmp /\ <<c, f>> \in litter'
    BY <1>5 DEF CompensateNothing, Visited
  <2>2. /\ Gone(c, f)' /\ \A g \in Files : tmp'[c][g] \in {tmp[c][g], Absent}
        /\ \A i \in DOMAIN txs : i # c => tmp'[i] = tmp[i]
    BY <1>2, <2>1 DEF Images, Gone
  <2>3. f \in M.published => Placed(c, f)'
    BY <1>1, <1>2, <1>3, <2>1, <2>2 DEF Placed
  <2> QED
    BY <1>2, <1>4, <2>1, <2>2, <2>3
<1>6. ASSUME NEW f \in Files, CompensateRename(f) PROVE OInv'
  <2>1. /\ pc' = "comp" /\ todo' = todo \ {f} /\ bak[c][f] = M.fwd[f]
        /\ \/ /\ UNCHANGED compErr /\ disk' = [disk EXCEPT ![f] = bak[c][f]]
              /\ bak' = [bak EXCEPT ![c][f] = Absent] /\ tmp' = [tmp EXCEPT ![c][f] = Absent]
           \/ /\ compErr' = TRUE /\ UNCHANGED tmp
              /\ \/ UNCHANGED <<disk, bak>>
                 \/ /\ disk' = [disk EXCEPT ![f] = bak[c][f]]
                    /\ bak' = [bak EXCEPT ![c][f] = Absent]
    BY <1>6 DEF CompensateRename, BetweenRenames, Visited
  <2>2. /\ \A g \in Files : g # f => disk'[g] = disk[g] /\ bak'[c][g] = bak[c][g]
        /\ \A g \in Files : tmp'[c][g] \in {tmp[c][g], Absent}
        /\ \A i \in DOMAIN txs : i # c => tmp'[i] = tmp[i]
        /\ compErr' = TRUE \/ (compErr' = compErr /\ Gone(c, f)')
    BY <1>2, <2>1 DEF Images, Gone
  <2>3. \/ disk'[f] = M.fwd[f]
        \/ disk'[f] = disk[f] /\ bak'[c][f] = bak[c][f] /\ tmp'[c][f] = tmp[c][f]
    BY <1>2, <2>1 DEF Images
  <2>4. f \in M.published => Placed(c, f)'
    BY <1>1, <1>2, <1>3, <2>3 DEF Placed, SameData
  <2> QED
    BY <1>4, <2>1, <2>2, <2>4
<1>7. ASSUME NEW f \in Files, CompensateUnread(f) \/ CompensateForeign(f) PROVE OInv'
  <2>1. /\ UNCHANGED <<disk, tmp, bak>> /\ compErr' = TRUE /\ pc' = "comp" /\ todo' = todo \ {f}
    BY <1>7 DEF CompensateUnread, CompensateForeign, Visited, store
  <2>2. f \in M.published => Placed(c, f)'
    BY <1>1, <1>2, <1>3, <2>1 DEF Placed
  <2> QED
    BY <1>4, <2>1, <2>2
<1>8. ASSUME NEW f \in Files, CompensateRemove(f) PROVE OInv'
  <2>1. /\ f \in M.published /\ disk[f] # M.fwd[f] /\ disk[f] = M.restore[f]
        /\ ~(M.fwd[f] # Absent /\ disk[f] = Absent /\ bak[c][f] = M.fwd[f]
             /\ (M.restore[f] # Absent => tmp[c][f] # Absent))
    BY <1>8 DEF CompensateRemove, AtForward, AtRestore, BetweenRenames, IsWrite
  <2>2. tmp[c][f] = Absent /\ bak[c][f] = M.fwd[f]
    BY <1>2, <1>3, <2>1 DEF Placed, SameData
  <2>3. /\ UNCHANGED <<tmp, bak>>
        /\ \/ /\ disk' = [disk EXCEPT ![f] = Absent] /\ UNCHANGED compErr
              /\ \/ pc' = "comp" /\ todo' = todo \ {f}
                 \/ pc' = "compMove" /\ at' = f /\ todo' = todo
           \/ compErr' = TRUE /\ UNCHANGED disk /\ pc' = "comp" /\ todo' = todo \ {f}
    BY <1>8 DEF CompensateRemove, Visited
  <2>4. Placed(c, f)'
    BY <1>1, <1>2, <1>3, <2>1, <2>2, <2>3 DEF Placed, SameData, Images
  <2>5. (\A g \in Files : g # f => disk'[g] = disk[g]) /\ Gone(c, f)'
    BY <1>2, <2>2, <2>3 DEF Images, Gone
  <2> QED
    BY <1>4, <2>2, <2>3, <2>4, <2>5
<1>9. ASSUME CompensateMove PROVE OInv'
  <2>1. pc = "compMove" /\ at \in M.published /\ at \in Files
    BY <1>9, <1>2 DEF CompensateMove, JInv, Back
  <2>2. /\ UNCHANGED tmp /\ pc' = "comp" /\ todo' = todo \ {at}
        /\ \/ /\ compErr' = compErr /\ bak' = [bak EXCEPT ![c][at] = Absent]
              /\ disk' = [disk EXCEPT ![at] = IF bak[c][at] # Absent THEN bak[c][at] ELSE M.fwd[at]]
           \/ compErr' = TRUE /\ UNCHANGED <<disk, bak>>
    BY <1>9 DEF CompensateMove, Visited
  <2>3. bak[c][at] # Absent => bak[c][at] = M.fwd[at]
    BY <1>2, <2>1 DEF JInv, SInv, Siblings, SameData
  <2> PICK g \in Files : g = at
    BY <2>1
  <2>4. \/ disk'[g] = M.fwd[g]
        \/ disk'[g] = disk[g] /\ bak'[c][g] = bak[c][g]
    BY <1>2, <2>2, <2>3 DEF Images
  <2>5. Placed(c, g)'
    BY <1>1, <1>2, <1>3, <2>1, <2>2, <2>4 DEF Placed, SameData
  <2>6. /\ \A h \in Files : h # g => disk'[h] = disk[h] /\ bak'[c][h] = bak[c][h]
        /\ Gone(c, g)'
    BY <1>2, <1>3, <2>1, <2>2 DEF Images, Gone
  <2> QED
    BY <1>4, <2>2, <2>5, <2>6
<1> QED
  BY <1>5, <1>6, <1>7, <1>8, <1>9 DEF CompensateFile

\* An aborted manifest has had every path visited without an error.
LEMMA VerdictOrdered ==
  ASSUME JInv, OInv, Kept, orderly, Verdict
  PROVE  OInv'
<1> DEFINE s == IF stateErr \/ compErr THEN "committing" ELSE "aborted"
           m == [M EXCEPT !.state = s]
<1>1. pc = "verdict" /\ pc \in InFlight /\ pc' \in {"idle", "scan"}
  BY DEF Verdict, InFlight, Working
<1> PICK c \in DOMAIN txs : c = cur
  BY <1>1, InHandFacts DEF JInv
<1>2. /\ SameData(m, M) /\ m.published = M.published /\ m.state = s /\ c \in TxIds
      /\ M.published = txs[c].published /\ SameData(M, txs[c])
      /\ txs[c].state \in {"prepared", "committing"}
  BY <1>1, InHandFacts, StateData DEF JInv, MInv, InStep
<1>3. UNCHANGED <<disk, tmp, bak, litter>> /\ (txs' = [txs EXCEPT ![c] = m] \/ UNCHANGED txs)
  BY DEF Verdict, store, counters
<1>4. s = "aborted" => \A f \in Files : Gone(c, f)
  <2> SUFFICES ASSUME ~stateErr, ~compErr, NEW f \in Files PROVE Gone(c, f)
    OBVIOUS
  <2>1. f \in M.paths => Gone(c, f)
    BY <1>1 DEF JInv, Back, OInv, Swept
  <2>2. f \notin M.paths => Gone(c, f)
    BY <1>2 DEF JInv, SInv, Siblings, SameData, Gone
  <2> QED
    BY <2>1, <2>2
<1>5. Swept'
  BY <1>1, SweptLater
<1>6. s \in {"committing", "aborted"}
  OBVIOUS
<1> HIDE DEF m, s
<1>7. /\ DOMAIN txs' = DOMAIN txs /\ \A i \in DOMAIN txs : i # c => txs'[i] = txs[i]
      /\ txs'[c].published = txs[c].published
      /\ txs'[c].state \in {txs[c].state, s}
  BY <1>2, <1>3
<1>8. Settled(c)' => \A f \in Files : Gone(c, f)'
  BY <1>2, <1>3, <1>4, <1>6, <1>7 DEF Settled, Gone
<1> QED
  BY <1>1, <1>3, <1>5, <1>7, <1>8, InHandStill DEF Working

\* Recovery discards the temporaries of what never began to commit, and takes
\* the one committing manifest in hand.
LEMMA RecoveryOrdered ==
  ASSUME JInv, OInv, Kept, orderly, RecoverPrepared \/ RecoverCommitting \/ Start \/ PassDone
  PROVE  OInv'
<1>1. /\ Alone /\ AllPlaced /\ NoneWaiting /\ tmp \in [TxIds -> Images]
      /\ \A i \in DOMAIN txs : i \in TxIds
  BY Numbered DEF OInv, JInv, CInv, IInv, StoreOK
<1>2. CASE RecoverPrepared
  <2>1. Remaining # {} /\ Min(Remaining) \in DOMAIN txs
    BY <1>2, NextRemaining, Numbered DEF RecoverPrepared, JInv, CInv
  <2> PICK n \in DOMAIN txs : n = Min(Remaining)
    BY <2>1
  <2>2. /\ txs[n].state = "prepared" /\ UNCHANGED <<disk, bak>> /\ pc' = "scan"
        /\ txs' = [txs EXCEPT ![n].state = "aborted"] \/ UNCHANGED txs
    BY <1>2 DEF RecoverPrepared, control
  <2>8. PICK left \in SUBSET Files :
          /\ tmp' = [tmp EXCEPT ![n] = [f \in Files |-> IF f \in left THEN tmp[n][f] ELSE Absent]]
          /\ litter' = litter \cup ({n} \X left)
    BY <1>2 DEF RecoverPrepared
  <2>3. txs[n] \in Manifest
    BY Numbered DEF JInv, CInv
  <2>4. /\ DOMAIN txs' = DOMAIN txs
        /\ \A i \in DOMAIN txs : i # n => txs'[i] = txs[i] /\ tmp'[i] = tmp[i]
        /\ ~Unsettled(n)' /\ \A f \in Files : Gone(n, f)'
    BY <1>1, <2>2, <2>3, <2>8 DEF Unsettled, Manifest, Gone
  <2>5. Alone'
    BY <1>1, <2>2, <2>4 DEF Alone, Unsettled, Working
  <2>6. AllPlaced'
    <3> SUFFICES ASSUME NEW i \in DOMAIN txs, Unsettled(i)', NEW f \in txs'[i].published
                 PROVE  Placed(i, f)'
      BY <2>4 DEF AllPlaced
    <3>1. i # n
      BY <2>4
    <3> QED
      BY <1>1, <2>2, <2>4, <3>1 DEF AllPlaced, Unsettled, Placed
  <2>7. NoneWaiting'
    <3> SUFFICES ASSUME NEW i \in DOMAIN txs, Settled(i)', NEW f \in Files
                 PROVE  Gone(i, f)'
      BY <2>4 DEF NoneWaiting
    <3>1. CASE i = n
      BY <2>4, <3>1
    <3>2. CASE i # n
      BY <1>1, <2>4, <2>8, <3>2 DEF NoneWaiting, Settled, Gone
    <3> QED
      BY <3>1, <3>2
  <2> QED
    BY <2>2, <2>5, <2>6, <2>7, SweptLater DEF OInv
<1>3. CASE RecoverCommitting \/ Start \/ PassDone
  <2>1. /\ UNCHANGED <<disk, tmp, bak, txs, litter>>
        /\ \/ pc' \in {"scan", "idle"}
           \/ RecoverCommitting
    BY <1>3 DEF RecoverCommitting, Start, PassDone, store, counters
  <2>2. AllPlaced' /\ NoneWaiting'
    BY <1>1, <2>1 DEF AllPlaced, Unsettled, Placed, NoneWaiting, Settled, Gone
  <2>3. CASE pc' \in {"scan", "idle"}
    <3>1. Alone'
      BY <1>1, <2>1, <2>3 DEF Alone, Unsettled, Working
    <3> QED
      BY <2>2, <2>3, <3>1, SweptLater DEF OInv
  <2>4. CASE RecoverCommitting
    <3> DEFINE n == Min(Remaining)
    <3>1. /\ Remaining # {} /\ txs[n].state = "committing" /\ cur' = n
          /\ mem' = <<txs[n]>> /\ todo' = txs[n].paths /\ pc' \in {"stateConv", "comp"}
      BY <2>4 DEF RecoverCommitting
    <3>2. n \in DOMAIN txs
      BY <3>1, NextRemaining, Numbered DEF JInv, CInv
    <3> HIDE DEF n
    <3>3. Alone'
      BY <1>1, <2>1, <3>1, <3>2 DEF Alone, Unsettled
    <3>4. M' = txs[n]
      BY <3>1 DEF M
    <3> QED
      BY <2>2, <3>1, <3>3, <3>4, SweptLater DEF OInv
  <2> QED
    BY <2>1, <2>3, <2>4
<1> QED
  BY <1>2, <1>3

\* With nothing committing, nothing has to be placed; nor after a stop, where
\* everything is as it was.
LEMMA EnvironmentOrdered ==
  ASSUME JInv, OInv, Kept, orderly, orderly', Environment
  PROVE  OInv'
<1>1. /\ UNCHANGED <<tmp, bak, txs, litter>> /\ pc' \in {"idle", "down"}
      /\ (\A n \in DOMAIN txs : ~Unsettled(n)) \/ UNCHANGED disk
  BY DEF Environment, Turn, BlockedTurn, BrokenTurn, ExternalEdit, Crash, Shutdown, Stop, control, store,
     NoManifestCommitting, Unsettled
<1>2. Alone' /\ NoneWaiting'
  BY <1>1 DEF OInv, Alone, Unsettled, Working, NoneWaiting, Settled, Gone
<1>3. AllPlaced'
  BY <1>1 DEF OInv, AllPlaced, Unsettled, Placed
<1> QED
  BY <1>1, <1>2, <1>3, SweptLater DEF OInv

\* A new manifest is prepared, or aborted with what it leaves passed over.
LEMMA AddsOrdered ==
  ASSUME JInv, OInv, orderly, orderly', NEW m \in Manifest, Adds(m)
  PROVE  OInv'
<1> PICK k : k = Len(txs) + 1
  OBVIOUS
<1>0. PICK left \in SUBSET m.paths :
        /\ tmp' = [tmp EXCEPT ![k] = Row(m, left)]
        /\ \/ m.state = "prepared" /\ UNCHANGED litter /\ NoManifestCommitting
           \/ /\ m.state \in {"aborted", "prepared"} /\ UNCHANGED <<pc, cur, mem>>
              /\ litter' = litter \cup ({k} \X left)
  BY DEF Adds
<1>1. /\ DOMAIN txs' = DOMAIN txs \cup {k} /\ k \notin DOMAIN txs /\ k \in TxIds
      /\ txs'[k] = m /\ \A i \in DOMAIN txs : txs'[i] = txs[i]
  <2>1. txs' = Append(txs, m) /\ k <= MaxTransactions
    BY DEF Adds
  <2> QED
    BY <2>1, NewestManifest, BoundsAssumption DEF JInv, CInv, TxIds

<1>2. /\ tmp \in [TxIds -> Images] /\ UNCHANGED <<disk, bak>> /\ pc' \in {"prepared", "idle"}
      /\ m.state \in {"prepared", "aborted"} /\ litter \subseteq litter'
      /\ pc' = "prepared" => NoManifestCommitting
  BY <1>0 DEF Adds, JInv, CInv, IInv, StoreOK
<1>3. /\ \A i \in DOMAIN txs : tmp'[i] = tmp[i]
      /\ m.state = "aborted" => \A f \in Files : Gone(k, f)'
  <2>1. \A f \in Files : tmp'[k][f] = IF f \in left THEN m.restore[f] ELSE Absent
    BY <1>0, <1>1, <1>2 DEF Row
  <2>2. \A i \in DOMAIN txs : tmp'[i] = tmp[i]
    BY <1>0, <1>1, <1>2
  <2>3. ASSUME m.state = "aborted", NEW f \in Files PROVE Gone(k, f)'
    <3>1. CASE f \in left
      <4>1. <<k, f>> \in litter'
        BY <1>0, <2>3, <3>1
      <4> QED
        BY <4>1 DEF Gone
    <3>2. CASE f \notin left
      BY <2>1, <3>2 DEF Gone
    <3> QED
      BY <3>1, <3>2
  <2> QED
    BY <2>2, <2>3
<1>4. \A i \in DOMAIN txs' : Unsettled(i)' => i \in DOMAIN txs /\ Unsettled(i)
  BY <1>1, <1>2 DEF Unsettled
<1>5. Alone'
  <2>1. \A i \in DOMAIN txs' : pc' = "prepared" => ~Unsettled(i)'
    BY <1>2, <1>4 DEF NoManifestCommitting, Unsettled
  <2>2. \A i, j \in DOMAIN txs' : Unsettled(i)' /\ Unsettled(j)' => i = j
    BY <1>4 DEF OInv, Alone
  <2> QED
    BY <1>2, <2>1, <2>2 DEF Alone, Working
<1>6. AllPlaced'
  BY <1>1, <1>2, <1>3, <1>4 DEF OInv, AllPlaced, Placed
<1>7. NoneWaiting'
  <2> SUFFICES ASSUME NEW i \in DOMAIN txs', Settled(i)', NEW f \in Files
               PROVE  Gone(i, f)'
    BY DEF NoneWaiting
  <2>1. CASE i \in DOMAIN txs
    BY <1>1, <1>2, <1>3, <2>1 DEF OInv, NoneWaiting, Settled, Gone
  <2>2. CASE i = k
    <3>1. m.state = "aborted"
      BY <1>1, <1>2, <2>2 DEF Settled
    <3> QED
      BY <1>3, <2>2, <3>1
  <2> QED
    BY <1>1, <2>1, <2>2
<1>8. Swept'
  BY <1>2, SweptLater
<1> QED
  BY <1>5, <1>6, <1>7, <1>8 DEF OInv

\* Requests add what they prepared.
LEMMA RequestOrdered ==
  ASSUME JInv, OInv, orderly, orderly', Request
  PROVE  OInv'
  BY RequestAdds, AddsOrdered DEF JInv, CInv

\* Every step of an orderly history keeps the temporaries owned.
LEMMA NextOrdered == JInv /\ OInv /\ [Next]_vars => OInv'
<1> SUFFICES ASSUME JInv, OInv, [Next]_vars, orderly' PROVE OInv'
  BY DEF OInv
<1>1. orderly /\ Kept /\ litter \subseteq litter'
  BY OrderlyBefore, NextKept, LitterKept DEF JInv
<1>2. CASE UNCHANGED vars
  <2>1. UNCHANGED <<disk, tmp, bak, txs, cur, mem, pc, at, todo, compErr, litter>> /\ M' = M
    BY <1>2 DEF vars, store, control, counters, M
  <2>2. Alone /\ AllPlaced /\ Swept /\ NoneWaiting
    BY <1>1 DEF OInv
  <2>3. Alone' /\ AllPlaced' /\ Swept' /\ NoneWaiting'
    BY <2>1, <2>2 DEF Alone, Unsettled, AllPlaced, Placed, Swept, NoneWaiting, Settled, Gone
  <2> QED
    BY <2>3 DEF OInv
<1>3. CASE Next
  BY <1>1, <1>3, EnvironmentOrdered, RequestOrdered, StillOrdered, PersistIntentOrdered,
     PublishOrdered, FinalizeOrdered, MarkUndoneOrdered, VisitOrdered, VerdictOrdered,
     RecoveryOrdered DEF Next, Commit, Recover
<1> QED
  BY <1>2, <1>3

\* In an orderly history at most one manifest is committing, its files are
\* where publishTarget can have left them, and no temporary waits for nobody.
THEOREM OrderlyStore == Spec => [](JInv /\ OInv)
<1>1. Init => OInv
  BY DEF Init, OInv, Alone, AllPlaced, Swept, NoneWaiting
<1>2. OInv /\ JInv /\ [Next]_vars => OInv'
  BY NextOrdered
<1> QED
  BY <1>1, <1>2, JournalAgrees, PTL DEF Spec

\* No publish temporary outlives the transaction it was staged for, but for those
\* whose removal failed and was ignored: any other belongs to a manifest the next
\* recovery will visit.
THEOREM TemporariesHaveOwners == Spec => []TemporariesOwned
<1>1. JInv /\ OInv => TemporariesOwned
  BY DEF JInv, SInv, Siblings, OInv, NoneWaiting, Settled, Gone, TemporariesOwned
<1> QED
  BY <1>1, OrderlyStore, PTL

-----------------------------------------------------------------------------
(* Which rewind an undo follows *)

\* The conversation a manifest leaves, and the two ends it moves between.
Rewound(m) == IF WantsConversation(m.scope) THEN Upto(m.forward, m.boundary) ELSE m.forward
Before(m) == IF m.kind = "undo" THEN Rewound(m) ELSE m.forward
After(m) == IF m.kind = "undo" THEN m.forward ELSE Rewound(m)

\* Messages and manifests are dated by turns that have begun.
Heard ==
  /\ Range(conv) \subseteq 1..turns /\ Range(convDisk) \subseteq 1..turns
  /\ \A n \in DOMAIN txs : Range(txs[n].forward) \subseteq 1..turns /\ txs[n].when <= turns

\* An undo has the data of the rewind it reverts.
Inherits(n) ==
  LET p == txs[n].parent
  IN /\ txs[p].kind = "rewind" /\ txs[n].forward = txs[p].forward /\ txs[n].when = txs[p].when
     /\ txs[n].scope = txs[p].scope /\ txs[n].boundary = txs[p].boundary
Inherited == \A n \in DOMAIN txs : txs[n].kind = "undo" => Inherits(n)

\* What may be undone, and is being undone, is the newest rewind that stands.
Top(i) == i \in UndoCandidates /\ \A k \in UndoCandidates : k <= i
Newest ==
  /\ lastUndo # 0 /\ pc # "mark" => Top(lastUndo)
  /\ pc \in Forward => cur = Len(txs) /\ (M.kind = "undo" => Top(M.parent))

LInv == Heard /\ Inherited /\ Newest

\* Only the commit point and the mark after it change what is committed.
LEMMA CommittedSame ==
  ASSUME JInv, [Next]_vars, ~Finalize, ~MarkUndone
  PROVE  /\ \A n \in DOMAIN txs : n \in DOMAIN txs' /\ (txs'[n].state = "committed" <=> txs[n].state = "committed")
         /\ \A n \in DOMAIN txs' \ DOMAIN txs : txs'[n].state # "committed"
<1>1. ASSUME NEW m \in Manifest, m.state # "committed", txs' = Append(txs, m)
      PROVE  /\ \A n \in DOMAIN txs : n \in DOMAIN txs' /\ (txs'[n].state = "committed" <=> txs[n].state = "committed")
             /\ \A n \in DOMAIN txs' \ DOMAIN txs : txs'[n].state # "committed"
  <2>1. txs \in Seq(Manifest) /\ Len(txs) \in Nat /\ DOMAIN txs = 1..Len(txs)
    BY Numbered DEF JInv, CInv
  <2>2. /\ txs' \in Seq(Manifest) /\ Len(txs') = Len(txs) + 1 /\ txs'[Len(txs) + 1] = m
        /\ \A i \in 1..Len(txs) : txs'[i] = txs[i]
    BY <1>1, <2>1, AppendProperties
  <2>3. DOMAIN txs' = 1..(Len(txs) + 1)
    BY <2>1, <2>2, LenProperties
  <2> QED
    BY <1>1, <2>1, <2>2, <2>3
<1>2. ASSUME NEW n \in DOMAIN txs, NEW m, txs' = [txs EXCEPT ![n] = m],
             m.state # "committed", txs[n].state # "committed"
      PROVE  /\ \A i \in DOMAIN txs : i \in DOMAIN txs' /\ (txs'[i].state = "committed" <=> txs[i].state = "committed")
             /\ \A i \in DOMAIN txs' \ DOMAIN txs : txs'[i].state # "committed"
  BY <1>2
<1>3. CASE Request
  <2> PICK m \in Manifest : Adds(m) /\ Asked(m)
    BY <1>3, RequestAdds DEF JInv, CInv
  <2> QED
    BY <1>1, AskedFacts DEF Adds, JInv, CInv
<1>4. CASE BeginCommit \/ PersistIntent \/ Verdict
  <2>1. pc \in InFlight
    BY <1>4 DEF BeginCommit, PersistIntent, Verdict, InFlight, Working
  <2>2. /\ M \in Manifest /\ cur \in DOMAIN txs /\ txs[cur].state \in {"prepared", "committing"}
        /\ pc = "intent" => M.state = txs[cur].state
    BY <2>1, InHandFacts DEF JInv, MInv, InStep, Forward
  <2>3. \/ UNCHANGED txs
        \/ \E m : txs' = [txs EXCEPT ![cur] = m] /\ m.state # "committed"
    <3>1. CASE BeginCommit
      <4> DEFINE m == [M EXCEPT !.state = "committing"]
      <4>1. m.state # "committed"
        BY <2>2, StateData
      <4>2. txs' = [txs EXCEPT ![cur] = m] \/ UNCHANGED txs
        BY <3>1 DEF BeginCommit, Persist, PersistFails
      <4> HIDE DEF m
      <4> QED
        BY <4>1, <4>2
    <3>2. CASE PersistIntent
      <4> DEFINE m == [M EXCEPT !.published = @ \cup {Min(Unpublished)}]
      <4>1. m.state # "committed"
        BY <2>2, <3>2 DEF PersistIntent, Manifest
      <4> HIDE DEF m
      <4> QED
        BY <3>2, <4>1 DEF PersistIntent, Persist, PersistFails, m
    <3>3. CASE Verdict
      <4> DEFINE s == IF stateErr \/ compErr THEN "committing" ELSE "aborted"
                 m == [M EXCEPT !.state = s]
      <4>1. m.state = s /\ s # "committed"
        BY <2>2, StateData
      <4>2. txs' = [txs EXCEPT ![cur] = m] \/ UNCHANGED txs
        BY <3>3 DEF Verdict
      <4> HIDE DEF m, s
      <4> QED
        BY <4>1, <4>2
    <3> QED
      BY <1>4, <3>1, <3>2, <3>3
  <2> QED
    BY <1>2, <2>2, <2>3
<1>6. CASE UNCHANGED txs
  BY <1>6
<1>5. CASE RecoverPrepared
  <2>1. /\ Min(Remaining) \in DOMAIN txs /\ txs[Min(Remaining)] \in Manifest
        /\ txs[Min(Remaining)].state = "prepared"
    BY <1>5, NextRemaining, Numbered DEF RecoverPrepared, JInv, CInv
  <2> PICK n \in DOMAIN txs : n = Min(Remaining)
    BY <2>1
  <2> DEFINE m == [txs[n] EXCEPT !.state = "aborted"]
  <2>2. UNCHANGED txs \/ txs' = [txs EXCEPT ![n] = m]
    BY <1>5 DEF RecoverPrepared
  <2>3. m.state # "committed" /\ txs[n].state # "committed"
    BY <2>1, StateData
  <2> HIDE DEF m
  <2> QED
    BY <1>2, <1>6, <2>2, <2>3
<1>7. CASE \/ Environment \/ UNCHANGED vars \/ BackupTarget \/ PublishTarget \/ PersistProgress
           \/ FilesDone \/ CommitConversation \/ CommitCheckpoints \/ CompensateConversation
           \/ CompensateCheckpoints \/ CompensateFile \/ CompensationDone \/ Start
           \/ RecoverCommitting \/ PassDone
  <2>1. UNCHANGED txs
    BY <1>7 DEF Environment, Turn, BlockedTurn, BrokenTurn, ExternalEdit, Crash, Shutdown, Stop, vars, BackupTarget,
       PublishTarget, PersistProgress, FilesDone, CommitConversation, CommitCheckpoints,
       CompensateConversation, CompensateCheckpoints, CompensateFile, CompensateNothing, CompensateUnread,
       CompensateRename, CompensateForeign, CompensateRemove, CompensateMove,
       CompensationDone, Start, RecoverCommitting, PassDone, Untouched
  <2> QED
    BY <1>6, <2>1
<1> QED
  BY <1>3, <1>4, <1>5, <1>7 DEF Next, Commit, Recover

\* What stands and may be undone depends on what is committed alone.
LEMMA CandidatesSame ==
  ASSUME Kept,
         \A n \in DOMAIN txs : txs'[n].state = "committed" <=> txs[n].state = "committed",
         \A n \in DOMAIN txs' \ DOMAIN txs : txs'[n].state # "committed"
  PROVE  UndoCandidates' = UndoCandidates
<1>1. \A n \in DOMAIN txs : n \in DOMAIN txs' /\ txs'[n].kind = txs[n].kind /\ txs'[n].parent = txs[n].parent
  BY DEF Kept, Evolves, SameData
<1> QED
  BY <1>1 DEF UndoCandidates

\* A truncated transcript: its messages, and that truncating again changes nothing.
LEMMA UptoFacts ==
  ASSUME NEW s \in Seq(Nat), NEW b \in Nat
  PROVE  /\ Upto(Upto(s, b), b) = Upto(s, b)
         /\ b <= Len(s) => Range(Upto(s, b)) \subseteq Range(s)
<1>1. Upto(s, b) = [i \in 1..b |-> s[i]]
  BY DEF Upto
<1>2. Upto(Upto(s, b), b) = Upto(s, b)
  BY DEF Upto
<1>3. ASSUME b <= Len(s) PROVE Range(Upto(s, b)) \subseteq Range(s)
  <2>1. DOMAIN s = 1..Len(s) /\ Len(s) \in Nat
    BY LenProperties
  <2>2. \A i \in 1..b : s[i] \in {s[x] : x \in DOMAIN s}
    BY <1>3, <2>1
  <2> QED
    BY <1>1, <2>2 DEF Range
<1> QED
  BY <1>2, <1>3

\* What a new manifest is made of.
LEMMA NewManifest ==
  ASSUME JInv, LInv, Request
  PROVE  \E m \in Manifest :
           /\ txs' = Append(txs, m) /\ Adds(m) /\ Asked(m)
           /\ \/ m.kind = "rewind" /\ m.forward = conv /\ m.when = turns
              \/ /\ m.kind = "undo" /\ m.parent = lastUndo /\ lastUndo \in DOMAIN txs
                 /\ Top(lastUndo) /\ m.forward = txs[lastUndo].forward
                 /\ m.scope = txs[lastUndo].scope /\ m.boundary = txs[lastUndo].boundary
                 /\ m.when = txs[lastUndo].when
           /\ pc = "idle" /\ UNCHANGED <<conv, convDisk, turns, lastUndo>>
           /\ \/ pc' = "prepared" /\ mem' = <<m>> /\ cur' = Len(txs) + 1 /\ m.state = "prepared"
                 /\ (orderly' => NoManifestCommitting /\ convDisk = conv /\ m.when = turns)
              \/ pc' = "idle" /\ m.state \in {"prepared", "aborted"}
<1>0. IInv
  BY DEF JInv, CInv
<1> PICK m \in Manifest : Adds(m) /\ Asked(m)
  BY <1>0, RequestAdds
<1>1. m.kind \in {"rewind", "undo"} /\ pc = "idle" /\ UNCHANGED <<conv, convDisk, turns, lastUndo>>
  BY DEF Adds, Manifest, session
<1>2. \/ m.kind = "rewind" /\ m.forward = conv /\ m.when = turns
      \/ /\ m.kind = "undo" /\ m.parent = lastUndo /\ lastUndo \in DOMAIN txs
         /\ Top(lastUndo) /\ m.forward = txs[lastUndo].forward
         /\ m.scope = txs[lastUndo].scope /\ m.boundary = txs[lastUndo].boundary
         /\ m.when = txs[lastUndo].when
  <2>1. m.kind = "undo" => Top(lastUndo)
    <3>1. m.kind = "undo" => lastUndo # 0 /\ pc # "mark"
      BY <1>0, <1>1, AskedFacts, Numbered
    <3> QED
      BY <3>1 DEF LInv, Newest
  <2> QED
    BY <1>0, <1>1, <2>1, AskedFacts
<1>3. \/ pc' = "prepared" /\ mem' = <<m>> /\ cur' = Len(txs) + 1 /\ m.state = "prepared"
         /\ (orderly' => NoManifestCommitting /\ convDisk = conv
                         /\ (m.kind = "undo" => NoTurnSince(m)))
      \/ pc' = "idle" /\ m.state \in {"prepared", "aborted"}
  BY DEF Adds
<1>4. m.kind = "undo" /\ NoTurnSince(m) => m.when = turns
  BY DEF NoTurnSince
<1>5. txs' = Append(txs, m)
  BY DEF Adds
<1> QED
  BY <1>1, <1>2, <1>3, <1>4, <1>5

\* The conversation gains one message with a turn and none otherwise.
LEMMA NextHeard == JInv /\ LInv /\ [Next]_vars => Heard'
<1> SUFFICES ASSUME JInv, LInv, [Next]_vars PROVE Heard'
  OBVIOUS
<1>0. /\ Kept /\ turns \in Nat /\ conv \in Seq(Nat)
      /\ Range(conv) \subseteq 1..turns /\ Range(convDisk) \subseteq 1..turns
      /\ \A n \in DOMAIN txs : /\ Range(txs[n].forward) \subseteq 1..turns
                               /\ txs[n].when <= turns /\ txs[n].when \in Nat
  <2>1. \A n \in DOMAIN txs : txs[n].when \in Nat
    BY Numbered DEF JInv, CInv, Manifest
  <2> QED
    BY <2>1, NextKept, BoundsAssumption DEF JInv, LInv, Heard, CInv, IInv, SessionOK, CountersOK
<1>1. ASSUME turns' \in {turns, turns + 1},
             Range(conv') \subseteq 1..turns', Range(convDisk') \subseteq 1..turns',
             \A n \in DOMAIN txs' :
               \/ n \in DOMAIN txs
               \/ /\ Range(txs'[n].forward) \subseteq 1..turns
                  /\ txs'[n].when <= turns /\ txs'[n].when \in Nat
      PROVE  Heard'
  <2>1. \A n \in DOMAIN txs : txs'[n].forward = txs[n].forward /\ txs'[n].when = txs[n].when
    BY <1>0 DEF Kept, Evolves, SameData
  <2> QED
    BY <1>0, <1>1, <2>1 DEF Heard
<1>2. CASE Environment
  <2>1. ASSUME AnyTurn PROVE Heard'
    <3> DEFINE longer == Append(conv, turns + 1)
    <3>1. /\ turns' = turns + 1 /\ UNCHANGED txs
          /\ conv' \in {conv, convDisk, longer} /\ convDisk' \in {conv, convDisk, longer}
      BY <2>1, TurnEnds DEF Opens, Ended, Died, JInv, CInv
    <3>2. Range(longer) \subseteq 1..(turns + 1)
      <4>1. /\ longer \in Seq(Nat) /\ Len(longer) = Len(conv) + 1 /\ Len(conv) \in Nat
            /\ longer[Len(conv) + 1] = turns + 1
            /\ \A i \in 1..Len(conv) : longer[i] = conv[i]
        BY <1>0, AppendProperties, LenProperties
      <4>2. DOMAIN longer = 1..(Len(conv) + 1) /\ DOMAIN conv = 1..Len(conv)
        BY <1>0, <4>1, LenProperties
      <4>3. \A i \in DOMAIN conv : conv[i] \in 1..turns
        BY <1>0 DEF Range
      <4>4. \A i \in DOMAIN longer : longer[i] \in 1..(turns + 1)
        BY <1>0, <4>1, <4>2, <4>3
      <4> QED
        BY <4>4 DEF Range
    <3> HIDE DEF longer
    <3>3. 1..turns \subseteq 1..(turns + 1)
      BY <1>0
    <3> QED
      BY <1>0, <1>1, <3>1, <3>2, <3>3
  <2>2. CASE \/ \E f \in Files : \E image \in {Absent, EditImage(edits + 1)} : ExternalEdit(f, image)
             \/ Crash \/ Shutdown
    <3>1. UNCHANGED <<turns, txs, convDisk>> /\ conv' \in {conv, convDisk}
      BY <2>2 DEF ExternalEdit, Crash, Shutdown, Stop, session
    <3> QED
      BY <1>0, <1>1, <3>1
  <2> QED
    BY <1>2, <2>1, <2>2 DEF Environment, AnyTurn
<1>3. CASE Request
  <2> PICK m \in Manifest :
           /\ txs' = Append(txs, m) /\ Range(m.forward) \subseteq 1..turns
           /\ m.when <= turns /\ UNCHANGED <<conv, convDisk, turns>>
    BY <1>0, <1>3, NewManifest
  <2>1. \A n \in DOMAIN txs' : n \in DOMAIN txs \/ txs'[n] = m
    <3>1. txs \in Seq(Manifest) /\ Len(txs) \in Nat /\ DOMAIN txs = 1..Len(txs)
      BY Numbered DEF JInv, CInv
    <3>2. txs' \in Seq(Manifest) /\ Len(txs') = Len(txs) + 1 /\ txs'[Len(txs) + 1] = m
      BY <3>1, AppendProperties
    <3>3. DOMAIN txs' = 1..(Len(txs) + 1)
      BY <3>1, <3>2, LenProperties
    <3> QED
      BY <3>1, <3>2, <3>3
  <2> QED
    BY <1>0, <1>1, <2>1 DEF Manifest
<1>4. CASE CommitConversation \/ CompensateConversation
  <2>1. pc \in InFlight /\ UNCHANGED <<txs, turns>>
    BY <1>4 DEF CommitConversation, CompensateConversation, InFlight, Working, counters
  <2>2. /\ M \in Manifest /\ M.forward \in Seq(Nat) /\ M.boundary \in Nat
        /\ Range(M.forward) \subseteq 1..turns
    BY <1>0, <2>1, InHandFacts DEF JInv, Manifest, SameData
  <2>3. M.boundary <= Len(conv) => Range(Upto(conv, M.boundary)) \subseteq 1..turns
    BY <1>0, <2>2, UptoFacts
  <2>4. \/ /\ conv' \in {conv, M.forward} /\ convDisk' \in {convDisk, M.forward}
        \/ ~TooShort /\ conv' = Upto(conv, M.boundary) /\ convDisk' = conv'
    BY <1>4 DEF CommitConversation, CompensateConversation, Forwards, ForwardsFails, Backwards,
       BackwardsFails, TruncateConversation, TruncateFails, RestoreConversation, RestoreFails
  <2>5. ~TooShort => M.boundary <= Len(conv)
    BY <1>0, <2>2, LenProperties DEF TooShort
  <2> QED
    BY <1>0, <1>1, <2>1, <2>2, <2>3, <2>4, <2>5
<1>5. CASE \/ UNCHANGED vars \/ BeginCommit \/ PersistIntent \/ BackupTarget \/ PublishTarget
           \/ PersistProgress \/ FilesDone \/ CommitCheckpoints \/ Finalize \/ MarkUndone
           \/ CompensateCheckpoints \/ CompensateFile \/ CompensationDone \/ Verdict
           \/ Start \/ RecoverPrepared \/ RecoverCommitting \/ PassDone
  <2>1. UNCHANGED <<conv, convDisk, turns>>
    BY <1>5 DEF vars, BeginCommit, PersistIntent, BackupTarget, PublishTarget, PersistProgress,
       FilesDone, CommitCheckpoints, Finalize, MarkUndone, CompensateCheckpoints,
       CompensateFile, CompensateNothing, CompensateUnread, CompensateRename, CompensateForeign,
       CompensateRemove, CompensateMove, CompensationDone, Verdict, Start, RecoverPrepared,
       RecoverCommitting, PassDone, Untouched, session, counters
  <2>2. DOMAIN txs' = DOMAIN txs
    BY <1>5 DEF vars, BeginCommit, PersistIntent, BackupTarget, PublishTarget, PersistProgress,
       FilesDone, CommitCheckpoints, Finalize, MarkUndone, CompensateCheckpoints,
       CompensateFile, CompensateNothing, CompensateUnread, CompensateRename, CompensateForeign,
       CompensateRemove, CompensateMove, CompensationDone, Verdict, Start, RecoverPrepared,
       RecoverCommitting, PassDone, Untouched, Persist, PersistFails
  <2> QED
    BY <1>0, <1>1, <2>1, <2>2
<1> QED
  BY <1>2, <1>3, <1>4, <1>5 DEF Next, Commit, Recover

\* A new manifest is the last one.
LEMMA AppendedLast ==
  ASSUME IInv, NEW m \in Manifest, txs' = Append(txs, m)
  PROVE  /\ Len(txs') = Len(txs) + 1 /\ Len(txs) + 1 \notin DOMAIN txs
         /\ DOMAIN txs' = DOMAIN txs \cup {Len(txs) + 1}
         /\ txs'[Len(txs) + 1] = m /\ \A i \in DOMAIN txs : txs'[i] = txs[i]
<1>1. txs \in Seq(Manifest) /\ Len(txs) \in Nat /\ DOMAIN txs = 1..Len(txs)
  BY Numbered
<1>2. /\ txs' \in Seq(Manifest) /\ Len(txs') = Len(txs) + 1 /\ txs'[Len(txs) + 1] = m
      /\ \A i \in 1..Len(txs) : txs'[i] = txs[i]
  BY <1>1, AppendProperties
<1>3. DOMAIN txs' = 1..(Len(txs) + 1)
  BY <1>1, <1>2, LenProperties
<1> QED
  BY <1>1, <1>2, <1>3

\* An undo keeps what it has from its rewind; both stay as they are.
LEMMA NextInherited == JInv /\ LInv /\ [Next]_vars => Inherited'
<1> SUFFICES ASSUME JInv, LInv, [Next]_vars, NEW n \in DOMAIN txs', txs'[n].kind = "undo"
             PROVE  Inherits(n)'
  BY DEF Inherited
<1>1. Kept
  BY NextKept DEF JInv
<1>2. CASE n \in DOMAIN txs
  <2>1. SameData(txs'[n], txs[n]) /\ txs[n].kind = "undo" /\ Inherits(n) /\ WellKept(n)
    BY <1>1, <1>2 DEF Kept, Evolves, SameData, LInv, Inherited, JInv, MInv
  <2>2. SameData(txs'[txs[n].parent], txs[txs[n].parent])
    BY <1>1, <2>1 DEF WellKept, Kept, Evolves
  <2> QED
    BY <2>1, <2>2 DEF Inherits, SameData
<1>3. CASE n \notin DOMAIN txs
  <2>1. Request \/ DOMAIN txs' = DOMAIN txs
    BY DEF Next, Environment, Commit, Recover, Turn, BlockedTurn, BrokenTurn, ExternalEdit, Crash, Shutdown, Stop, vars,
       BeginCommit, PersistIntent, BackupTarget, PublishTarget, PersistProgress, FilesDone,
       CommitConversation, CommitCheckpoints, Finalize, MarkUndone, CompensateConversation,
       CompensateCheckpoints, CompensateFile, CompensateNothing, CompensateUnread, CompensateRename,
       CompensateForeign, CompensateRemove, CompensateMove, CompensationDone, Verdict, Start,
       RecoverPrepared, RecoverCommitting, PassDone, Untouched, Persist, PersistFails
  <2> PICK m \in Manifest :
        /\ txs' = Append(txs, m)
        /\ \/ m.kind = "rewind"
           \/ /\ m.kind = "undo" /\ m.parent = lastUndo /\ lastUndo \in DOMAIN txs
              /\ Top(lastUndo) /\ m.forward = txs[lastUndo].forward
              /\ m.scope = txs[lastUndo].scope /\ m.boundary = txs[lastUndo].boundary
              /\ m.when = txs[lastUndo].when
    BY <1>3, <2>1, NewManifest
  <2>2. txs'[n] = m /\ \A i \in DOMAIN txs : txs'[i] = txs[i]
    BY <1>3, AppendedLast DEF JInv, CInv
  <2>3. m.kind = "undo" /\ txs[lastUndo].kind = "rewind"
    BY <2>2 DEF Top, UndoCandidates
  <2> QED
    BY <2>2, <2>3 DEF Inherits
<1> QED
  BY <1>2, <1>3

\* The newest standing rewind is found again after every step.
LEMMA NextNewest == JInv /\ LInv /\ [Next]_vars => Newest'
<1> SUFFICES ASSUME JInv, LInv, [Next]_vars PROVE Newest'
  OBVIOUS
<1>0. /\ Kept /\ JInv' /\ Newest /\ Inherited
      /\ txs \in Seq(Manifest) /\ Len(txs) \in Nat /\ DOMAIN txs = 1..Len(txs)
      /\ txs' \in Seq(Manifest) /\ Len(txs') \in Nat /\ DOMAIN txs' = 1..Len(txs')
  <2>1. JInv'
    BY NextJournal
  <2> QED
    BY <2>1, NextKept, Numbered, LenProperties DEF JInv, CInv, IInv, ManifestsOK, LInv
<1>1. CASE Finalize
  <2> DEFINE m == [M EXCEPT !.state = "committed"]
  <2>1. pc = "finalize" /\ pc \in InFlight /\ pc \in Forward
    BY <1>1 DEF Finalize, InFlight, Working, Forward
  <2>2. /\ cur \in DOMAIN txs /\ SameData(m, txs[cur]) /\ m.state = "committed"
        /\ txs[cur].state \in {"prepared", "committing"} /\ cur = Len(txs) /\ M.kind = m.kind
        /\ M.kind \in {"rewind", "undo"}
    BY <1>0, <2>1, InHandFacts, StateData DEF JInv, MInv, InStep, SameData, Newest, Manifest
  <2>3. \/ pc' = "mark"
        \/ pc' = "stateConv" /\ UNCHANGED <<txs, lastUndo>>
        \/ /\ M.kind # "undo" /\ pc' = "idle" /\ lastUndo' = cur
           /\ txs' = [txs EXCEPT ![cur] = m]
    BY <1>1 DEF Finalize, CompensateState, PersistFails
  <2> HIDE DEF m
  <2>4. CASE pc' = "mark"
    BY <2>4 DEF Newest, Forward
  <2>5. CASE pc' = "stateConv" /\ UNCHANGED <<txs, lastUndo>>
    BY <1>0, <2>1, <2>5 DEF Newest, Forward, Top, UndoCandidates
  <2>6. CASE /\ M.kind # "undo" /\ pc' = "idle" /\ lastUndo' = cur
             /\ txs' = [txs EXCEPT ![cur] = m]
    <3> PICK c \in DOMAIN txs : c = cur
      BY <2>2
    <3>1. /\ DOMAIN txs' = DOMAIN txs /\ txs'[c] = m /\ \A i \in DOMAIN txs : i # c => txs'[i] = txs[i]
      BY <2>6
    <3>2. \A u \in DOMAIN txs' :
            ~(txs'[u].kind = "undo" /\ txs'[u].state = "committed" /\ txs'[u].parent = c)
      BY <2>2, <2>6, <3>1 DEF JInv, MInv, WellKept
    <3>3. c \in UndoCandidates'
      BY <2>2, <2>6, <3>1, <3>2 DEF UndoCandidates
    <3>4. \A k \in UndoCandidates' : k <= c
      BY <1>0, <2>2, <3>1 DEF UndoCandidates
    <3> QED
      BY <2>6, <3>3, <3>4 DEF Newest, Top, Forward
  <2> QED
    BY <2>3, <2>4, <2>5, <2>6
<1>2. CASE MarkUndone
  BY <1>2 DEF MarkUndone, Newest, Forward
<1>3. CASE ~Finalize /\ ~MarkUndone
  <2>1. UndoCandidates' = UndoCandidates
    BY <1>0, <1>3, CommittedSame, CandidatesSame
  <2>2. ASSUME lastUndo' \in {0, lastUndo}, lastUndo' # 0 => pc # "mark" PROVE lastUndo' # 0 => Top(lastUndo)'
    BY <1>0, <2>1, <2>2 DEF Newest, Top
  <2>3. ASSUME pc' \notin Forward, lastUndo' # 0 => Top(lastUndo)' PROVE Newest'
    BY <2>3 DEF Newest
  <2>4. CASE Request
    <3> PICK m \in Manifest :
        /\ txs' = Append(txs, m)
        /\ m.kind = "rewind" \/ (m.kind = "undo" /\ m.parent = lastUndo /\ Top(lastUndo))
        /\ pc = "idle" /\ UNCHANGED lastUndo
        /\ (pc' = "prepared" /\ mem' = <<m>> /\ cur' = Len(txs) + 1) \/ pc' = "idle"
      BY <2>4, NewManifest
    <3>1. mem' = <<m>> => M' = m
      BY DEF M
    <3>2. Len(txs') = Len(txs) + 1
      BY AppendedLast DEF JInv, CInv
    <3>3. lastUndo' # 0 => Top(lastUndo)'
      BY <2>2
    <3>4. m.kind = "undo" => m.parent = lastUndo /\ Top(lastUndo)
      OBVIOUS
    <3>5. pc' = "prepared" => cur' = Len(txs') /\ (M'.kind = "undo" => Top(M.parent)')
      <4> SUFFICES ASSUME pc' = "prepared", mem' = <<m>>, cur' = Len(txs) + 1
                   PROVE  cur' = Len(txs') /\ (M'.kind = "undo" => Top(M.parent)')
        OBVIOUS
      <4> QED
        BY <2>1, <3>1, <3>2, <3>4 DEF Top
    <3> QED
      BY <3>3, <3>5 DEF Newest, Forward
  <2>5. CASE /\ pc' \in Forward /\ pc \in Forward /\ UNCHANGED <<cur, lastUndo>> /\ Len(txs') = Len(txs)
             /\ M'.kind = M.kind /\ M'.parent = M.parent
    BY <1>0, <2>1, <2>5 DEF Newest, Top, Forward
  <2>6. CASE \/ BeginCommit \/ PersistIntent \/ BackupTarget \/ PublishTarget
             \/ PersistProgress \/ FilesDone \/ CommitConversation \/ CommitCheckpoints
    <3>1. pc \in Forward /\ UNCHANGED <<cur, lastUndo>> /\ pc' \in Forward \cup {"comp", "stateConv"} /\ pc # "mark"
      BY <2>6 DEF BeginCommit, PersistIntent, BackupTarget, PublishTarget, PersistProgress,
         FilesDone, CommitConversation, CommitCheckpoints, Compensate, CompensateState, Forward
    <3>2. DOMAIN txs' = DOMAIN txs
      BY <2>6 DEF BeginCommit, PersistIntent, BackupTarget, PublishTarget, PersistProgress,
         FilesDone, CommitConversation, CommitCheckpoints, Persist, PersistFails
    <3>3. Len(txs') = Len(txs)
      <4>1. ASSUME NEW a \in Nat, NEW b \in Nat, 1..a = 1..b, a < b PROVE FALSE
        <5>1. b \in 1..b /\ b \notin 1..a
          BY <4>1
        <5> QED
          BY <4>1, <5>1
      <4>2. ~(Len(txs) < Len(txs')) /\ ~(Len(txs') < Len(txs))
        BY <1>0, <3>2, <4>1
      <4>3. Len(txs) \in Nat /\ Len(txs') \in Nat
        BY <1>0
      <4> QED
        BY <4>2, <4>3
    <3>4. pc' \in Forward => M'.kind = M.kind /\ M'.parent = M.parent
      <4>1. pc' \in Forward => M' = txs'[cur] /\ M = txs[cur] /\ cur \in DOMAIN txs
        BY <1>0, <3>1, InHandFacts DEF JInv, CInv, Underway, InFlight, Working, Forward
      <4> QED
        BY <1>0, <4>1 DEF Kept, Evolves, SameData
    <3>5. CASE pc' \in Forward
      BY <2>5, <3>1, <3>3, <3>4, <3>5
    <3>6. CASE pc' \in {"comp", "stateConv"}
      BY <2>2, <2>3, <3>1, <3>6 DEF Forward
    <3> QED
      BY <3>1, <3>5, <3>6
  <2>7. CASE PassDone
    <3> DEFINE S == UndoCandidates
    <3>1. S \in SUBSET (0..Len(txs))
      BY <1>0 DEF UndoCandidates
    <3>2. S # {} => Max(S) \in S /\ \A k \in S : Max(S) >= k
      BY <1>0, <3>1, MaxFacts
    <3>3. \A k \in S : k \in Nat
      BY <3>1
    <3>4. lastUndo' # 0 => lastUndo' = Max(S) /\ S # {}
      BY <2>7 DEF PassDone
    <3> HIDE DEF S
    <3>5. lastUndo' # 0 => lastUndo' \in S /\ \A k \in S : k <= lastUndo'
      BY <3>2, <3>3, <3>4
    <3>6. lastUndo' # 0 => Top(lastUndo)'
      BY <2>1, <3>5 DEF Top, S
    <3>7. pc' \notin Forward
      BY <2>7 DEF PassDone, Forward
    <3> QED
      BY <2>3, <3>6, <3>7
  <2>8. CASE \/ Environment \/ CompensateConversation
             \/ CompensateCheckpoints \/ CompensateFile \/ CompensationDone \/ Verdict
             \/ Start \/ RecoverPrepared \/ RecoverCommitting
    <3>1. /\ lastUndo' \in {0, lastUndo}
          /\ lastUndo' # 0 => pc # "mark"
          /\ pc' \notin Forward
      BY <2>8 DEF Environment, Turn, BlockedTurn, BrokenTurn, ExternalEdit, Crash, Shutdown, Stop,
       CompensateConversation, CompensateCheckpoints,
       CompensateFile, CompensateNothing, CompensateUnread, CompensateRename, CompensateForeign,
       CompensateRemove, CompensateMove, CompensationDone, Verdict, Start, RecoverPrepared,
       RecoverCommitting, Untouched, Visiting, Visited, control, Forward
    <3> QED
      BY <2>2, <2>3, <3>1
  <2>9. CASE UNCHANGED vars
    <3>1. UNCHANGED <<txs, lastUndo, pc, cur, mem>> /\ M' = M
      BY <2>9 DEF vars, control, M
    <3> QED
      BY <1>0, <2>1, <3>1 DEF Newest, Top
  <2> QED
    BY <1>3, <2>4, <2>6, <2>7, <2>8, <2>9 DEF Next, Commit, Recover
<1> QED
  BY <1>1, <1>2, <1>3

\* Whatever a step does, the messages, the rewinds they belong to and the undo
\* slot stay in line.
LEMMA NextLineage == JInv /\ LInv /\ [Next]_vars => LInv'
  BY NextHeard, NextInherited, NextNewest DEF LInv

-----------------------------------------------------------------------------
(* Orderly histories: where the conversation is *)

BothAt(c) == conv = c /\ convDisk = c
Ends(m) == {Before(m), After(m)}

\* Live or saved, the conversation is at one end or the other of what commits; a
\* turn alone may leave more in memory than on disk.
AtAnEnd ==
  /\ \A n \in DOMAIN txs : Unsettled(n) => conv \in Ends(txs[n]) /\ convDisk \in Ends(txs[n])
  /\ NoManifestCommitting /\ pc # "idle" => convDisk = conv

\* Both are at the end the next step counts on, or the way back failed.
AtTheEnd ==
  /\ pc \in Forward \ {"ckpts", "finalize"} => BothAt(Before(M))
  /\ pc \in InFlight => M.when = turns
  /\ pc = "convo" => WantsConversation(M.scope) \/ M.kind = "undo"
  /\ pc \in {"ckpts", "finalize"} => BothAt(After(M))
  /\ pc \in {"stateCkpt", "comp", "compMove", "verdict"} =>
       BothAt(Before(M)) \/ (stateErr /\ txs[cur].state = "committing")

\* Unless a turn began since m was asked for, at w, c is what m left behind.
Follows(c, m, w) == m.when = w => c = Rewound(m)

\* The standing rewinds follow one another, and the conversation the newest.
Chain ==
  /\ \A i \in DOMAIN txs : Top(i) =>
       /\ NoManifestCommitting => Follows(conv, txs[i], turns)
       /\ \A n \in DOMAIN txs : Unsettled(n) => Follows(Before(txs[n]), txs[i], turns)
  /\ \A i, j \in UndoCandidates :
       i < j /\ (\A k \in UndoCandidates : k <= i \/ j <= k)
       => Follows(txs[j].forward, txs[i], txs[j].when)
  /\ \A n \in DOMAIN txs : Unsettled(n) => txs[n].when = turns

TInv == orderly => AtAnEnd /\ AtTheEnd /\ Chain

\* Versions of one manifest agree on where they come from and where they lead.
LEMMA SameEnds ==
  ASSUME NEW a, NEW b, SameData(a, b)
  PROVE  /\ Before(a) = Before(b) /\ After(a) = After(b) /\ Rewound(a) = Rewound(b)
         /\ Ends(a) = Ends(b) /\ \A c, w : Follows(c, a, w) <=> Follows(c, b, w)
  BY DEF SameData, Before, After, Rewound, Ends, Follows

\* The chain holds as long as the same rewinds stand and what settles is where
\* its conversation was before.
LEMMA ChainKept ==
  ASSUME Kept, Chain, UndoCandidates' = UndoCandidates, turns' = turns,
         \A n \in DOMAIN txs' : Unsettled(n)' =>
           /\ n \in DOMAIN txs
           /\ \/ Unsettled(n)
              \/ NoManifestCommitting /\ conv = Before(txs[n]) /\ txs[n].when = turns,
         NoManifestCommitting' =>
           \/ NoManifestCommitting /\ conv' = conv
           \/ \E n \in DOMAIN txs : Unsettled(n) /\ conv' = Before(txs[n])
  PROVE  Chain'
<1>1. /\ \A i \in DOMAIN txs : i \in DOMAIN txs' /\ SameData(txs'[i], txs[i])
      /\ \A i \in UndoCandidates : i \in DOMAIN txs
  BY DEF Kept, Evolves, UndoCandidates
<1>2. ASSUME NEW i \in DOMAIN txs', Top(i)', NoManifestCommitting'
      PROVE  Follows(conv', txs'[i], turns)
  <2>1. Top(i) /\ i \in DOMAIN txs
    BY <1>1, <1>2 DEF Top
  <2>2. CASE NoManifestCommitting /\ conv' = conv
    BY <1>1, <2>1, <2>2, SameEnds DEF Chain
  <2>3. CASE \E n \in DOMAIN txs : Unsettled(n) /\ conv' = Before(txs[n])
    BY <1>1, <2>1, <2>3, SameEnds DEF Chain
  <2> QED
    BY <1>2, <2>2, <2>3
<1>3. ASSUME NEW i \in DOMAIN txs', Top(i)', NEW n \in DOMAIN txs', Unsettled(n)'
      PROVE  Follows(Before(txs'[n]), txs'[i], turns)
  <2>1. Top(i) /\ i \in DOMAIN txs /\ n \in DOMAIN txs
    BY <1>1, <1>3 DEF Top
  <2>2. Follows(Before(txs[n]), txs[i], turns)
    BY <1>3, <2>1 DEF Chain
  <2> QED
    BY <1>1, <2>1, <2>2, SameEnds
<1>4. ASSUME NEW i \in UndoCandidates, NEW j \in UndoCandidates,
             i < j, \A k \in UndoCandidates : k <= i \/ j <= k
      PROVE  Follows(txs'[j].forward, txs'[i], txs'[j].when)
  <2>1. Follows(txs[j].forward, txs[i], txs[j].when)
    BY <1>4 DEF Chain
  <2> QED
    BY <1>1, <2>1, SameEnds DEF SameData
<1>5. ASSUME NEW n \in DOMAIN txs', Unsettled(n)' PROVE txs'[n].when = turns
  BY <1>1, <1>5 DEF Chain, SameData
<1> QED
  BY <1>2, <1>3, <1>4, <1>5 DEF Chain

\* The conversation stays where it is and so does what is committing.
LEMMA EndsKept ==
  ASSUME Kept, AtAnEnd, UNCHANGED <<conv, convDisk>>,
         \A n \in DOMAIN txs' : Unsettled(n)' =>
           n \in DOMAIN txs /\ (Unsettled(n) \/ BothAt(Before(txs[n]))),
         NoManifestCommitting' /\ pc' # "idle" =>
           (NoManifestCommitting /\ pc # "idle") \/ conv = convDisk
  PROVE  AtAnEnd'
<1>1. \A n \in DOMAIN txs : n \in DOMAIN txs' /\ SameData(txs'[n], txs[n])
  BY DEF Kept, Evolves
<1>2. ASSUME NEW n \in DOMAIN txs', Unsettled(n)'
      PROVE  conv' \in Ends(txs'[n]) /\ convDisk' \in Ends(txs'[n])
  <2>1. n \in DOMAIN txs /\ conv \in Ends(txs[n]) /\ convDisk \in Ends(txs[n])
    BY <1>2 DEF AtAnEnd, BothAt, Ends
  <2> QED
    BY <1>1, <2>1, SameEnds
<1> QED
  BY <1>2 DEF AtAnEnd

\* A step that moves neither the conversation nor what is committing.
LEMMA TranscriptStill ==
  ASSUME Kept, AtAnEnd, Chain, UndoCandidates' = UndoCandidates,
         UNCHANGED <<conv, convDisk, turns>>, pc # "idle" \/ pc' = "idle" \/ convDisk = conv,
         \A n \in DOMAIN txs' : Unsettled(n)' => n \in DOMAIN txs /\ Unsettled(n),
         \A n \in DOMAIN txs : Unsettled(n) => Unsettled(n)',
         AtTheEnd'
  PROVE  TInv'
<1>1. NoManifestCommitting' => NoManifestCommitting
  BY DEF NoManifestCommitting, Unsettled, Kept, Evolves
<1>2. AtAnEnd'
  BY <1>1, EndsKept
<1>3. Chain'
  BY <1>1, ChainKept
<1> QED
  BY <1>2, <1>3 DEF TInv

\* The manifest in hand, as the transcripts have it.
LEMMA InHandEnds ==
  ASSUME JInv, pc \in InFlight
  PROVE  /\ cur \in DOMAIN txs /\ M \in Manifest /\ SameData(M, txs[cur])
         /\ Before(M) = Before(txs[cur]) /\ After(M) = After(txs[cur])
         /\ Ends(M) = Ends(txs[cur])
         /\ ~WantsConversation(M.scope) => Before(M) = M.forward /\ After(M) = M.forward
         /\ M.kind \in {"rewind", "undo"}
<1>1. cur \in DOMAIN txs /\ M \in Manifest /\ SameData(M, txs[cur])
  BY InHandFacts DEF JInv
<1>2. Before(M) = Before(txs[cur]) /\ After(M) = After(txs[cur]) /\ Ends(M) = Ends(txs[cur])
  BY <1>1, SameEnds
<1>3. ~WantsConversation(M.scope) => Before(M) = M.forward /\ After(M) = M.forward
  BY DEF Before, After, Rewound
<1> QED
  BY <1>1, <1>2, <1>3 DEF Manifest

\* What may be undone changes at the commit point only.
LEMMA CandidatesKept ==
  ASSUME JInv, LInv, [Next]_vars, ~Finalize
  PROVE  UndoCandidates' = UndoCandidates
<1>1. CASE ~MarkUndone
  BY <1>1, NextKept, CommittedSame, CandidatesSame DEF JInv
<1>2. CASE MarkUndone
  <2>1. pc = "mark" /\ M = txs[cur] /\ M.kind = "undo" /\ M.state = "committed" /\ cur \in DOMAIN txs
    BY <1>2, Numbered, InMemory DEF MarkUndone, JInv, CInv, MInv, InStep, Working
  <2>2. /\ M.parent \in DOMAIN txs /\ txs[M.parent].kind = "rewind" /\ txs[M.parent] \in Manifest
        /\ M.parent \notin UndoCandidates
    BY <2>1, Numbered DEF JInv, CInv, MInv, WellKept, LInv, Inherited, Inherits, UndoCandidates
  <2> PICK p \in DOMAIN txs : p = M.parent
    BY <2>2
  <2>3. UNCHANGED txs \/ txs' = [txs EXCEPT ![p] = [txs[p] EXCEPT !.state = "undone"]]
    BY <1>2 DEF MarkUndone
  <2>4. CASE txs' = [txs EXCEPT ![p] = [txs[p] EXCEPT !.state = "undone"]]
    <3>1. /\ DOMAIN txs' = DOMAIN txs /\ \A i \in DOMAIN txs : i # p => txs'[i] = txs[i]
          /\ txs'[p].kind = "rewind" /\ txs'[p].state = "undone" /\ txs'[p].parent = txs[p].parent
      BY <2>2, <2>4 DEF Manifest
    <3>2. \A i \in DOMAIN txs :
            (\E u \in DOMAIN txs' : txs'[u].kind = "undo" /\ txs'[u].state = "committed" /\ txs'[u].parent = i)
            <=> (\E u \in DOMAIN txs : txs[u].kind = "undo" /\ txs[u].state = "committed" /\ txs[u].parent = i)
      BY <2>2, <3>1
    <3> QED
      BY <2>2, <3>1, <3>2 DEF UndoCandidates
  <2>5. CASE UNCHANGED txs
    BY <2>5 DEF UndoCandidates
  <2> QED
    BY <2>3, <2>4, <2>5
<1> QED
  BY <1>1, <1>2

\* The steps of a commit that leave the conversation where it is.
LEMMA ForwardTranscript ==
  ASSUME JInv, LInv, OInv, TInv, Kept, orderly, UndoCandidates' = UndoCandidates,
         \/ PersistIntent \/ BackupTarget \/ PublishTarget \/ PersistProgress
         \/ FilesDone \/ CommitCheckpoints
  PROVE  TInv'
<1>1. /\ pc \in {"intent", "backup", "publish", "progress", "ckpts"}
      /\ pc \in InFlight /\ pc \in Forward /\ pc \in Journalled
      /\ UNCHANGED <<conv, convDisk, cur, turns>> /\ (PersistIntent \/ UNCHANGED <<txs, mem>>)
  BY DEF PersistIntent, BackupTarget, PublishTarget, PersistProgress, FilesDone,
     CommitCheckpoints, InFlight, Working, Forward, Journalled, session, counters
<1>2. /\ AtAnEnd /\ AtTheEnd /\ Chain /\ txs[cur].state = "committing" /\ M = txs[cur]
  BY <1>1, InHandFacts DEF TInv, JInv, MInv, InStep
<1>3. SameData(M', M)
      /\ (\A n \in DOMAIN txs' : Unsettled(n)' => n \in DOMAIN txs /\ Unsettled(n))
      /\ (\A n \in DOMAIN txs : Unsettled(n) => Unsettled(n)')
  <2>1. CASE PersistIntent
    <3> DEFINE m == [M EXCEPT !.published = @ \cup {Min(Unpublished)}]
    <3>1. M \in Manifest /\ cur \in DOMAIN txs
      BY <1>1, InHandEnds
    <3>2. SameData(m, M) /\ m.state = M.state
      BY <3>1 DEF Manifest, SameData
    <3>3. Persist(m) \/ PersistFails(M)
      BY <2>1 DEF PersistIntent
    <3> HIDE DEF m
    <3>4. M' = m \/ M' = M
      BY <3>3 DEF Persist, PersistFails, M
    <3>5. SameData(M', M)
      BY <3>2, <3>4 DEF SameData
    <3>6. /\ DOMAIN txs' = DOMAIN txs /\ \A n \in DOMAIN txs : txs'[n].state = txs[n].state
      BY <1>2, <3>2, <3>3, <3>1 DEF Persist, PersistFails
    <3> QED
      BY <3>5, <3>6 DEF Unsettled
  <2>2. CASE UNCHANGED <<txs, mem>>
    BY <2>2 DEF M, SameData, Unsettled
  <2> QED
    BY <1>1, <2>1, <2>2
<1>4. /\ Before(M') = Before(M) /\ After(M') = After(M) /\ M'.scope = M.scope /\ M'.kind = M.kind
      /\ M'.when = turns
  BY <1>1, <1>2, <1>3, SameEnds DEF SameData, AtTheEnd
<1>5. AtTheEnd'
  <2>1. CASE pc = "ckpts"
    <3>1. pc' \in {"finalize", "stateConv"}
      BY <1>1, <2>1 DEF PersistIntent, BackupTarget, PublishTarget, PersistProgress, FilesDone,
         CommitCheckpoints, CompensateState
    <3> QED
      BY <1>1, <1>2, <1>4, <2>1, <3>1 DEF AtTheEnd, BothAt, Forward, InFlight, Working
  <2>2. CASE pc # "ckpts"
    <3>1. BothAt(Before(M))
      BY <1>1, <1>2, <2>2 DEF AtTheEnd
    <3>2. \/ pc' \in {"intent", "backup", "publish", "progress", "comp"}
          \/ pc' = "convo" /\ (WantsConversation(M.scope) \/ M.kind = "undo")
          \/ pc' = "finalize" /\ ~WantsConversation(M.scope)
      BY <1>1, <2>2 DEF PersistIntent, BackupTarget, PublishTarget, PersistProgress, FilesDone,
         CommitCheckpoints, Compensate
    <3>3. ~WantsConversation(M.scope) => After(M) = Before(M)
      BY <1>1, InHandEnds
    <3> QED
      BY <1>1, <1>4, <3>1, <3>2, <3>3 DEF AtTheEnd, BothAt, Forward, InFlight, Working
  <2> QED
    BY <2>1, <2>2
<1>6. pc # "idle"
  BY <1>1
<1> QED
  BY <1>1, <1>2, <1>3, <1>5, <1>6, TranscriptStill

\* BeginCommit: the manifest becomes the one that is committing.
LEMMA BeginCommitTranscript ==
  ASSUME JInv, LInv, OInv, TInv, Kept, orderly, UndoCandidates' = UndoCandidates, BeginCommit
  PROVE  TInv'
<1> DEFINE m == [M EXCEPT !.state = "committing"]
<1>1. /\ pc = "prepared" /\ pc \in InFlight /\ pc \in Forward /\ pc \in Working
      /\ UNCHANGED <<conv, convDisk, cur, turns>>
      /\ \/ Persist(m) /\ pc' = "intent"
         \/ PersistFails(m) /\ pc' = "comp"
  BY DEF BeginCommit, Compensate, InFlight, Working, Forward, session, counters
<1>2. AtAnEnd /\ Chain /\ BothAt(Before(M)) /\ Alone /\ M.when = turns
  BY <1>1 DEF TInv, OInv, AtTheEnd
<1> PICK c \in DOMAIN txs : c = cur
  BY <1>1, InHandEnds
<1>3. SameData(m, M) /\ m.state = "committing" /\ Before(m) = Before(M) /\ Before(M) = Before(txs[c])
      /\ M = txs[c] /\ m.when = turns
  <2>1. SameData(m, M) /\ m.state = "committing" /\ M = txs[c]
    BY <1>1, InHandFacts, InHandEnds, StateData DEF JInv
  <2>2. m.when = M.when
    BY <2>1 DEF SameData
  <2> QED
    BY <1>2, <2>1, <2>2, SameEnds
<1>4. M' = m
  BY <1>1 DEF Persist, PersistFails, M
<1> HIDE DEF m
<1>5. AtTheEnd'
  BY <1>1, <1>2, <1>3, <1>4 DEF AtTheEnd, BothAt, Forward, InFlight, Working
<1>6. /\ DOMAIN txs' = DOMAIN txs /\ \A n \in DOMAIN txs : n # c => txs'[n] = txs[n]
      /\ txs'[c] = m \/ txs'[c] = txs[c]
  BY <1>1 DEF Persist, PersistFails
<1>7. \A n \in DOMAIN txs : Unsettled(n) => n = c
  BY <1>1, <1>2 DEF Alone
<1>8. /\ \A n \in DOMAIN txs' : Unsettled(n)' => n = c
      /\ NoManifestCommitting' => NoManifestCommitting
      /\ Unsettled(c) \/ NoManifestCommitting
  BY <1>3, <1>6, <1>7 DEF Unsettled, NoManifestCommitting
<1>9. AtAnEnd'
  BY <1>1, <1>2, <1>3, <1>8, EndsKept
<1>10. Chain'
  BY <1>1, <1>2, <1>3, <1>8, ChainKept DEF BothAt
<1> QED
  BY <1>5, <1>9, <1>10 DEF TInv

\* Applying the conversation moves it to the far end, or stops short.
LEMMA CommitConversationTranscript ==
  ASSUME JInv, LInv, OInv, TInv, Kept, orderly, UndoCandidates' = UndoCandidates,
         CommitConversation
  PROVE  TInv'
<1>1. /\ pc = "convo" /\ pc \in InFlight /\ pc \in Forward /\ pc \in Journalled
      /\ UNCHANGED <<txs, mem, cur, turns>> /\ M' = M
  BY DEF CommitConversation, InFlight, Working, Forward, Journalled, M, counters
<1>2. /\ AtAnEnd /\ Chain /\ BothAt(Before(M)) /\ M.when = turns /\ (WantsConversation(M.scope) \/ M.kind = "undo")
      /\ txs[cur].state = "committing" /\ Alone
  BY <1>1 DEF TInv, OInv, AtTheEnd, JInv, MInv, InStep, Forward
<1> PICK c \in DOMAIN txs : c = cur
  BY <1>1, InHandEnds
<1>3. /\ M.kind \in {"rewind", "undo"} /\ SameData(M, txs[c]) /\ Ends(M) = Ends(txs[c])
      /\ M.forward \in Ends(M)
  BY <1>1, InHandEnds DEF Ends, Before, After
<1>4. \/ pc' = "ckpts" /\ conv' = After(M) /\ convDisk' = After(M)
      \/ pc' = "stateConv" /\ conv' \in {conv, M.forward} /\ convDisk' = convDisk
  <2>1. CASE M.kind = "undo"
    BY <2>1 DEF CommitConversation, Forwards, ForwardsFails, RestoreConversation, RestoreFails,
       After, CompensateState
  <2>2. CASE M.kind = "rewind"
    BY <1>2, <2>2 DEF CommitConversation, Forwards, ForwardsFails, TruncateConversation,
       TruncateFails, Before, After, Rewound, BothAt, CompensateState
  <2> QED
    BY <1>3, <2>1, <2>2
<1>5. conv' \in Ends(M) /\ convDisk' \in Ends(M)
  BY <1>2, <1>3, <1>4 DEF BothAt, Ends
<1>6. \A n \in DOMAIN txs : Unsettled(n) => n = c
  BY <1>1, <1>2 DEF Alone, InFlight
<1>7. ~NoManifestCommitting /\ Unsettled(c)
  BY <1>2 DEF NoManifestCommitting, Unsettled
<1>8. AtAnEnd'
  BY <1>1, <1>3, <1>5, <1>6, <1>7 DEF AtAnEnd, Unsettled, NoManifestCommitting
<1>9. AtTheEnd'
  BY <1>1, <1>2, <1>4 DEF AtTheEnd, BothAt, Forward, InFlight, Working
<1>10. Chain'
  BY <1>1, <1>2, <1>7, ChainKept DEF Unsettled, NoManifestCommitting
<1> QED
  BY <1>8, <1>9, <1>10 DEF TInv

\* Compensating brings it back to the near end, or leaves an error.
LEMMA CompensateConversationTranscript ==
  ASSUME JInv, LInv, OInv, TInv, Kept, orderly, UndoCandidates' = UndoCandidates,
         CompensateConversation
  PROVE  TInv'
<1>1. /\ pc = "stateConv" /\ pc \in InFlight /\ pc \in Journalled /\ pc' = "stateCkpt"
      /\ UNCHANGED <<txs, mem, cur, turns>> /\ M' = M
  BY DEF CompensateConversation, InFlight, Working, Forward, Journalled, M, counters
<1>2. AtAnEnd /\ Chain /\ txs[cur].state = "committing" /\ Alone /\ M.when = turns
  BY <1>1 DEF TInv, AtTheEnd, OInv, JInv, MInv, InStep
<1> PICK c \in DOMAIN txs : c = cur
  BY <1>1, InHandEnds
<1>3. /\ M.kind \in {"rewind", "undo"} /\ M \in Manifest /\ Ends(M) = Ends(txs[c])
      /\ M.forward \in Ends(M)
      /\ ~WantsConversation(M.scope) => Before(M) = M.forward /\ After(M) = M.forward
  BY <1>1, InHandEnds DEF Ends, Before, After
<1>4. Unsettled(c) /\ ~NoManifestCommitting /\ conv \in Ends(M) /\ convDisk \in Ends(M)
  BY <1>2, <1>3 DEF AtAnEnd, Unsettled, NoManifestCommitting
<1>5. \/ conv' = Before(M) /\ convDisk' = Before(M)
      \/ stateErr' /\ conv' \in {conv, M.forward} /\ convDisk' = convDisk
  <2>1. CASE ~WantsConversation(M.scope) /\ (M.kind = "undo" \/ M.scope = "file")
    BY <1>3, <1>4, <2>1 DEF CompensateConversation, Ends
  <2>2. CASE M.kind = "rewind" /\ ~(~WantsConversation(M.scope) /\ (M.kind = "undo" \/ M.scope = "file"))
    BY <2>2 DEF CompensateConversation, Backwards, BackwardsFails, RestoreConversation,
       RestoreFails, Before
  <2>3. CASE M.kind = "undo" /\ WantsConversation(M.scope)
    <3>1. Upto(conv, M.boundary) = Before(M)
      <4>1. M.forward \in Seq(Nat) /\ M.boundary \in Nat
        BY <1>3 DEF Manifest
      <4> QED
        BY <1>4, <2>3, <4>1, UptoFacts DEF Ends, Before, After, Rewound
    <3> QED
      BY <2>3, <3>1 DEF CompensateConversation, Backwards, BackwardsFails,
         TruncateConversation, TruncateFails
  <2> QED
    BY <1>3, <2>1, <2>2, <2>3
<1>6. conv' \in Ends(M) /\ convDisk' \in Ends(M)
  BY <1>3, <1>4, <1>5 DEF Ends
<1>7. \A n \in DOMAIN txs : Unsettled(n) => n = c
  BY <1>1, <1>2 DEF Alone, InFlight
<1>8. AtAnEnd'
  BY <1>1, <1>3, <1>4, <1>6, <1>7 DEF AtAnEnd, Unsettled, NoManifestCommitting
<1>9. AtTheEnd'
  BY <1>1, <1>2, <1>5 DEF AtTheEnd, BothAt, Forward, InFlight, Working
<1>10. Chain'
  BY <1>1, <1>2, <1>4, ChainKept DEF Unsettled, NoManifestCommitting
<1> QED
  BY <1>8, <1>9, <1>10 DEF TInv

\* The steps back that leave the conversation alone.
LEMMA BackTranscript ==
  ASSUME JInv, LInv, OInv, TInv, Kept, orderly, UndoCandidates' = UndoCandidates,
         CompensateCheckpoints \/ CompensateFile \/ CompensationDone
  PROVE  TInv'
<1> DEFINE Moves == /\ pc \in {"stateCkpt", "comp", "compMove"}
                    /\ pc' \in {"comp", "compMove", "verdict"}
                    /\ UNCHANGED <<txs, cur, mem, conv, convDisk, turns>>
                    /\ stateErr' = stateErr \/ stateErr' = TRUE
<1>1. ASSUME CompensateCheckpoints \/ CompensationDone PROVE Moves
  BY <1>1 DEF CompensateCheckpoints, CompensationDone, session, counters
<1>2. ASSUME NEW f \in Files, CompensateNothing(f) PROVE Moves
  BY <1>2 DEF CompensateNothing, Visiting, Visited, session
<1>3. ASSUME NEW f \in Files, CompensateUnread(f) \/ CompensateRename(f) \/ CompensateForeign(f)
      PROVE  Moves
  BY <1>3 DEF CompensateUnread, CompensateRename, CompensateForeign, Visiting, Visited,
     Untouched, session, counters
<1>4. ASSUME (\E f \in Files : CompensateRemove(f)) \/ CompensateMove PROVE Moves
  BY <1>4 DEF CompensateRemove, CompensateMove, Visiting, Visited, Untouched, session, counters
<1>5. Moves
  BY <1>1, <1>2, <1>3, <1>4 DEF CompensateFile
<1>6. AtAnEnd /\ AtTheEnd /\ Chain
  BY DEF TInv
<1>7. M' = M
  BY <1>5 DEF M
<1>8. AtTheEnd'
  BY <1>5, <1>6, <1>7 DEF AtTheEnd, BothAt, Forward, InFlight, Working
<1> QED
  BY <1>5, <1>6, <1>8, TranscriptStill DEF Unsettled

\* A verdict settles the manifest where its conversation was before.
LEMMA VerdictTranscript ==
  ASSUME JInv, LInv, OInv, TInv, Kept, orderly, UndoCandidates' = UndoCandidates, Verdict
  PROVE  TInv'
<1> DEFINE s == IF stateErr \/ compErr THEN "committing" ELSE "aborted"
           m == [M EXCEPT !.state = s]
<1>1. /\ pc = "verdict" /\ pc \in InFlight /\ pc \in Working /\ pc' \in {"idle", "scan"}
      /\ UNCHANGED <<conv, convDisk, turns>>
  BY DEF Verdict, InFlight, Working, session, counters
<1>2. /\ AtAnEnd /\ Chain /\ Alone
      /\ BothAt(Before(M)) \/ (stateErr /\ txs[cur].state = "committing")
      /\ M.when = turns
  BY <1>1 DEF TInv, OInv, AtTheEnd
<1> PICK c \in DOMAIN txs : c = cur
  BY <1>1, InHandEnds
<1>3. /\ m.state = s /\ Before(M) = Before(txs[c]) /\ txs[c].state \in {"prepared", "committing"}
      /\ txs' = [txs EXCEPT ![c] = m] \/ UNCHANGED txs
  BY <1>1, InHandEnds, StateData DEF Verdict, JInv, MInv, InStep
<1>4. stateErr => s = "committing"
  OBVIOUS
<1> HIDE DEF m, s
<1>5. /\ DOMAIN txs' = DOMAIN txs /\ \A n \in DOMAIN txs : n # c => txs'[n] = txs[n]
      /\ txs'[c].state \in {s, txs[c].state}
  BY <1>3
<1>6. \A n \in DOMAIN txs : Unsettled(n) => n = c
  BY <1>1, <1>2 DEF Alone
<1>7. /\ \A n \in DOMAIN txs' : Unsettled(n)' => n = c
      /\ Unsettled(c) \/ NoManifestCommitting
      /\ Unsettled(c) \/ BothAt(Before(txs[c]))
      /\ NoManifestCommitting' => NoManifestCommitting \/ (Unsettled(c) /\ BothAt(Before(txs[c])))
      /\ pc # "idle"
  BY <1>1, <1>2, <1>3, <1>4, <1>5, <1>6 DEF Unsettled, NoManifestCommitting
<1>8. txs[c].when = turns
  BY <1>1, <1>2, InHandEnds DEF SameData
<1>9. AtAnEnd'
  BY <1>1, <1>2, <1>7, EndsKept DEF BothAt
<1>10. Chain'
  BY <1>1, <1>2, <1>7, <1>8, ChainKept DEF BothAt
<1>11. AtTheEnd'
  BY <1>1 DEF AtTheEnd, Forward, InFlight, Working
<1> QED
  BY <1>9, <1>10, <1>11 DEF TInv

\* Recovery aborts what never began, and finds a conversation at one of its ends.
LEMMA RecoveryTranscript ==
  ASSUME JInv, LInv, OInv, TInv, Kept, orderly, UndoCandidates' = UndoCandidates,
         RecoverPrepared \/ RecoverCommitting \/ Start \/ PassDone
  PROVE  TInv'
<1>1. UNCHANGED <<conv, convDisk, turns>> /\ AtAnEnd /\ Chain /\ pc # "idle"
  BY DEF RecoverPrepared, RecoverCommitting, Start, PassDone, session, counters, TInv
<1>2. CASE RecoverPrepared
  <2>1. /\ Min(Remaining) \in DOMAIN txs /\ txs[Min(Remaining)] \in Manifest
        /\ txs[Min(Remaining)].state = "prepared" /\ pc' = "scan"
    BY <1>2, NextRemaining, Numbered DEF RecoverPrepared, JInv, CInv, control
  <2> PICK n \in DOMAIN txs : n = Min(Remaining)
    BY <2>1
  <2> DEFINE m == [txs[n] EXCEPT !.state = "aborted"]
  <2>2. txs' = [txs EXCEPT ![n] = m] \/ UNCHANGED txs
    BY <1>2 DEF RecoverPrepared
  <2>3. m.state = "aborted"
    BY <2>1, StateData
  <2> HIDE DEF m
  <2>4. /\ \A i \in DOMAIN txs' : Unsettled(i)' => i \in DOMAIN txs /\ Unsettled(i)
        /\ \A i \in DOMAIN txs : Unsettled(i) => Unsettled(i)'
    BY <2>1, <2>2, <2>3 DEF Unsettled
  <2>5. AtTheEnd'
    BY <2>1 DEF AtTheEnd, Forward, InFlight, Working
  <2> QED
    BY <1>1, <2>4, <2>5, TranscriptStill
<1>3. CASE RecoverCommitting
  <2>1. /\ Min(Remaining) \in DOMAIN txs /\ txs[Min(Remaining)] \in Manifest
        /\ txs[Min(Remaining)].state = "committing" /\ UNCHANGED txs
        /\ mem' = <<txs[Min(Remaining)]>>
        /\ pc' = IF WantsConversation(txs[Min(Remaining)].scope) THEN "stateConv" ELSE "comp"
    BY <1>3, NextRemaining, Numbered DEF RecoverCommitting, JInv, CInv
  <2> PICK n \in DOMAIN txs : n = Min(Remaining)
    BY <2>1
  <2>2. M' = txs[n]
    BY <2>1 DEF M
  <2>3. conv \in Ends(txs[n]) /\ convDisk \in Ends(txs[n])
    BY <1>1, <2>1 DEF AtAnEnd, Unsettled
  <2>4. ~WantsConversation(txs[n].scope) => BothAt(Before(txs[n]))
    BY <2>3 DEF Ends, Before, After, Rewound, BothAt
  <2>5. txs[n].when = turns
    BY <1>1, <2>1 DEF Chain, Unsettled
  <2>6. AtTheEnd'
    BY <1>1, <2>1, <2>2, <2>4, <2>5 DEF AtTheEnd, BothAt, Forward, InFlight, Working
  <2> QED
    BY <1>1, <2>1, <2>6, TranscriptStill DEF Unsettled
<1>4. CASE Start \/ PassDone
  <2>1. UNCHANGED txs /\ pc' \in {"scan", "idle"}
    BY <1>4 DEF Start, PassDone
  <2>2. AtTheEnd'
    BY <2>1 DEF AtTheEnd, Forward, InFlight, Working
  <2> QED
    BY <1>1, <2>1, <2>2, TranscriptStill DEF Unsettled
<1> QED
  BY <1>2, <1>3, <1>4

\* A turn is later than every transaction; a restart finds the saved conversation.
LEMMA EnvironmentTranscript ==
  ASSUME JInv, LInv, OInv, TInv, Kept, orderly, orderly', UndoCandidates' = UndoCandidates,
         Environment
  PROVE  TInv'
<1>1. UNCHANGED txs /\ pc' \in {"idle", "down"} /\ AtAnEnd /\ Chain
  BY DEF Environment, Turn, BlockedTurn, BrokenTurn, ExternalEdit, Crash, Shutdown, Stop, control, TInv
<1>2. AtTheEnd'
  BY <1>1 DEF AtTheEnd, Forward, InFlight, Working
<1>3. ASSUME AnyTurn PROVE TInv'
  <2> PICK c : Opens(c) /\ (Ended(c) \/ Died(c))
    BY <1>3, TurnEnds DEF JInv, CInv
  <2>1. /\ NoManifestCommitting /\ turns' = turns + 1 /\ turns \in Nat
        /\ pc' = "idle" \/ convDisk' = conv'
    <3>1. NoManifestCommitting /\ turns' = turns + 1
      BY DEF Opens
    <3>2. pc' = "idle" \/ convDisk' = conv'
      BY DEF Ended, Died
    <3> QED
      BY <3>1, <3>2, BoundsAssumption DEF JInv, CInv, IInv, CountersOK
  <2>2. \A n \in DOMAIN txs : ~Unsettled(n) /\ txs[n].when <= turns /\ txs[n].when \in Nat
    BY <2>1, Numbered DEF NoManifestCommitting, Unsettled, LInv, Heard, JInv, CInv, Manifest
  <2>3. AtAnEnd'
    BY <1>1, <2>1, <2>2 DEF AtAnEnd, Unsettled
  <2>4. \A n \in DOMAIN txs : \A d : Follows(d, txs[n], turns')
    BY <2>1, <2>2 DEF Follows
  <2>5. Chain'
    BY <1>1, <2>2, <2>4 DEF Chain, Unsettled
  <2> QED
    BY <1>2, <2>3, <2>5 DEF TInv
<1>4. ASSUME NEW f, NEW image, ExternalEdit(f, image) PROVE TInv'
  <2>1. UNCHANGED <<conv, convDisk, turns, pc>>
    BY <1>4 DEF ExternalEdit, session, control
  <2> QED
    BY <1>1, <1>2, <2>1, TranscriptStill DEF Unsettled
<1>5. CASE Crash \/ Shutdown
  <2>1. /\ conv' = convDisk /\ convDisk' = convDisk /\ turns' = turns
        /\ pc = "idle" => convDisk = conv
    BY <1>5 DEF Crash, Shutdown, Stop, Resumable
  <2>2. AtAnEnd'
    BY <1>1, <2>1 DEF AtAnEnd, Unsettled, NoManifestCommitting
  <2>3. NoManifestCommitting' => NoManifestCommitting /\ conv' = conv
    BY <1>1, <2>1 DEF AtAnEnd, NoManifestCommitting
  <2>4. Chain'
    BY <1>1, <2>1, <2>3, ChainKept DEF Unsettled
  <2> QED
    BY <1>2, <2>2, <2>4 DEF TInv
<1> QED
  BY <1>3, <1>4, <1>5 DEF Environment, AnyTurn

\* A new transaction starts where the conversation is; for an undo that is where
\* its rewind left it.
LEMMA RequestTranscript ==
  ASSUME JInv, LInv, OInv, TInv, Kept, orderly, orderly', UndoCandidates' = UndoCandidates,
         Request
  PROVE  TInv'
<1> PICK m \in Manifest :
      /\ txs' = Append(txs, m)
      /\ \/ m.kind = "rewind" /\ m.forward = conv /\ m.when = turns
         \/ /\ m.kind = "undo" /\ lastUndo \in DOMAIN txs
            /\ Top(lastUndo) /\ m.forward = txs[lastUndo].forward
            /\ m.scope = txs[lastUndo].scope /\ m.boundary = txs[lastUndo].boundary
            /\ m.when = txs[lastUndo].when
      /\ pc = "idle" /\ UNCHANGED <<conv, convDisk, turns>>
      /\ \/ pc' = "prepared" /\ mem' = <<m>> /\ m.state = "prepared"
            /\ (orderly' => NoManifestCommitting /\ convDisk = conv /\ m.when = turns)
         \/ pc' = "idle" /\ m.state \in {"prepared", "aborted"}
  BY NewManifest
<1>1. AtAnEnd /\ Chain
  BY DEF TInv
<1>2. /\ DOMAIN txs' = DOMAIN txs \cup {Len(txs) + 1} /\ txs'[Len(txs) + 1].state # "committing"
      /\ \A i \in DOMAIN txs : txs'[i] = txs[i]
  BY AppendedLast DEF JInv, CInv
<1>3. /\ \A n \in DOMAIN txs' : Unsettled(n)' => n \in DOMAIN txs /\ Unsettled(n)
      /\ \A n \in DOMAIN txs : Unsettled(n) => Unsettled(n)'
  BY <1>2 DEF Unsettled
<1>4. ASSUME pc' = "prepared" PROVE conv = Before(m) /\ convDisk = conv /\ m.when = turns
  <2>1. convDisk = conv /\ NoManifestCommitting /\ m.when = turns
    BY <1>4
  <2>2. CASE m.kind = "rewind"
    BY <2>1, <2>2 DEF Before
  <2>3. CASE m.kind = "undo"
    <3>1. Follows(conv, txs[lastUndo], turns) /\ txs[lastUndo].when = turns
      BY <1>1, <2>1, <2>3 DEF Chain
    <3>2. conv = Rewound(txs[lastUndo])
      BY <3>1 DEF Follows
    <3>3. Rewound(txs[lastUndo]) = Rewound(m)
      BY <2>3 DEF Rewound
    <3> QED
      BY <2>1, <2>3, <3>2, <3>3 DEF Before
  <2> QED
    BY <2>1, <2>2, <2>3
<1>5. AtTheEnd'
  <2>1. CASE pc' = "prepared"
    <3>1. M' = m
      BY <2>1 DEF M
    <3> QED
      BY <1>4, <2>1, <3>1 DEF AtTheEnd, BothAt, Forward, InFlight, Working
  <2>2. CASE pc' = "idle"
    BY <2>2 DEF AtTheEnd, Forward, InFlight, Working
  <2> QED
    BY <2>1, <2>2
<1>6. pc' = "idle" \/ convDisk = conv
  BY <1>4
<1> QED
  BY <1>1, <1>3, <1>5, <1>6, TranscriptStill

\* The mark on the rewind that was undone moves nothing.
LEMMA MarkUndoneTranscript ==
  ASSUME JInv, LInv, OInv, TInv, Kept, orderly, UndoCandidates' = UndoCandidates, MarkUndone
  PROVE  TInv'
<1>1. pc = "mark" /\ M = txs[cur] /\ M.kind = "undo" /\ cur \in DOMAIN txs
  BY Numbered, InMemory DEF MarkUndone, JInv, CInv, MInv, InStep, Working
<1>2. M.parent \in DOMAIN txs /\ txs[M.parent].state \in {"committed", "undone"} /\ txs[M.parent] \in Manifest
  BY <1>1, Numbered DEF JInv, CInv, MInv, WellKept
<1> PICK p \in DOMAIN txs : p = M.parent
  BY <1>2
<1> DEFINE m == [txs[p] EXCEPT !.state = "undone"]
<1>3. txs' = [txs EXCEPT ![p] = m] \/ UNCHANGED txs
  BY DEF MarkUndone
<1>4. m.state = "undone"
  BY <1>2, StateData
<1> HIDE DEF m
<1>5. /\ \A n \in DOMAIN txs' : Unsettled(n)' => n \in DOMAIN txs /\ Unsettled(n)
      /\ \A n \in DOMAIN txs : Unsettled(n) => Unsettled(n)'
  BY <1>2, <1>3, <1>4 DEF Unsettled
<1>6. AtTheEnd' /\ UNCHANGED <<conv, convDisk, turns>> /\ pc' = "idle"
  BY DEF MarkUndone, AtTheEnd, Forward, InFlight, Working, session, counters
<1> QED
  BY <1>5, <1>6, TranscriptStill DEF TInv

\* The commit point: a rewind becomes the newest that stands, an undo takes the one
\* it reverts away.
LEMMA CandidatesAtCommit ==
  ASSUME JInv, LInv, Kept, pc = "finalize", NEW c \in DOMAIN txs, c = cur, NEW m,
         SameData(m, M), m.state = "committed", txs' = [txs EXCEPT ![c] = m]
  PROVE  /\ \A i \in UndoCandidates : i \in DOMAIN txs /\ i # c /\ i \in Nat /\ i < c
         /\ M.kind = "rewind" => UndoCandidates' = UndoCandidates \cup {c}
         /\ M.kind = "undo" => M.parent \in UndoCandidates
                               /\ UndoCandidates' = UndoCandidates \ {M.parent}
<1>1. pc \in InFlight /\ pc \in Forward /\ pc \in Journalled
  BY DEF InFlight, Working, Forward, Journalled
<1>2. /\ M = txs[c] /\ M \in Manifest /\ txs[c].state = "committing"
      /\ c = Len(txs) /\ (M.kind = "undo" => Top(M.parent))
  BY <1>1, InHandFacts, InHandEnds DEF JInv, MInv, InStep, LInv, Newest
<1>3. m.kind = M.kind /\ m.parent = M.parent
  BY DEF SameData
<1>4. /\ DOMAIN txs' = DOMAIN txs /\ txs'[c] = m
      /\ \A n \in DOMAIN txs : n # c => txs'[n] = txs[n]
      /\ \A n \in DOMAIN txs : SameData(txs'[n], txs[n])
      /\ DOMAIN txs = 1..Len(txs) /\ Len(txs) \in Nat
  BY Numbered DEF Kept, Evolves, JInv, CInv
<1>5. \A i \in UndoCandidates : i \in DOMAIN txs /\ i # c /\ i \in Nat /\ i < c
  BY <1>2, <1>4 DEF UndoCandidates
<1>6. ASSUME M.kind = "rewind" PROVE UndoCandidates' = UndoCandidates \cup {c}
  <2>1. \A u \in DOMAIN txs : ~(txs[u].kind = "undo" /\ txs[u].state = "committed" /\ txs[u].parent = c)
    BY <1>2 DEF JInv, MInv, WellKept
  <2>2. \A i \in DOMAIN txs :
          (\E u \in DOMAIN txs' : txs'[u].kind = "undo" /\ txs'[u].state = "committed" /\ txs'[u].parent = i)
          <=> (\E u \in DOMAIN txs : txs[u].kind = "undo" /\ txs[u].state = "committed" /\ txs[u].parent = i)
    BY <1>2, <1>3, <1>4, <1>6
  <2> QED
    BY <1>2, <1>3, <1>4, <1>6, <2>1, <2>2 DEF UndoCandidates
<1>7. ASSUME M.kind = "undo"
      PROVE  M.parent \in UndoCandidates /\ UndoCandidates' = UndoCandidates \ {M.parent}
  <2> PICK p \in UndoCandidates : p = M.parent
    BY <1>2, <1>7 DEF Top
  <2>1. \A i \in DOMAIN txs :
          (\E u \in DOMAIN txs' : txs'[u].kind = "undo" /\ txs'[u].state = "committed" /\ txs'[u].parent = i)
          <=> \/ i = p
              \/ \E u \in DOMAIN txs : txs[u].kind = "undo" /\ txs[u].state = "committed" /\ txs[u].parent = i
    <3>1. txs'[c].kind = "undo" /\ txs'[c].state = "committed" /\ txs'[c].parent = p
      BY <1>3, <1>4, <1>7
    <3>2. txs[c].state # "committed"
      BY <1>2
    <3> QED
      BY <1>4, <3>1, <3>2
  <2>2. \A i \in DOMAIN txs : /\ txs'[i].kind = txs[i].kind
                              /\ i # c => txs'[i].state = txs[i].state
    BY <1>4 DEF SameData
  <2>3. txs[c].kind = "undo"
    BY <1>2, <1>7
  <2> QED
    BY <1>4, <2>1, <2>2, <2>3 DEF UndoCandidates
<1> QED
  BY <1>5, <1>6, <1>7

\* The commit point: a rewind becomes the newest that stands, an undo takes its
\* rewind, the newest, away; either way nothing is committing any more.
LEMMA FinalizeTranscript ==
  ASSUME JInv, LInv, OInv, TInv, Kept, orderly, Finalize
  PROVE  TInv'
<1> DEFINE m == [M EXCEPT !.state = "committed"]
<1>1. /\ pc = "finalize" /\ pc \in InFlight /\ pc \in Forward /\ pc \in Journalled /\ pc \in Working
      /\ UNCHANGED <<conv, convDisk, turns>> /\ pc # "idle"
  BY DEF Finalize, InFlight, Working, Forward, Journalled, session, counters
<1> PICK c \in DOMAIN txs : c = cur
  BY <1>1, InHandEnds
<1>2. /\ AtAnEnd /\ Chain /\ BothAt(After(M)) /\ Alone /\ M = txs[c] /\ M \in Manifest
      /\ txs[c].state = "committing" /\ M.kind \in {"rewind", "undo"}
      /\ c = Len(txs) /\ (M.kind = "undo" => Top(M.parent)) /\ M.when = turns
  BY <1>1, InHandFacts, InHandEnds DEF TInv, OInv, AtTheEnd, JInv, MInv, InStep, LInv, Newest
<1>3. /\ SameData(m, M) /\ m.state = "committed" /\ m.kind = M.kind /\ m.parent = M.parent
      /\ m.when = M.when
  BY <1>2, StateData DEF SameData
<1>4. \/ UNCHANGED txs /\ pc' = "stateConv" /\ mem' = <<m>>
      \/ txs' = [txs EXCEPT ![c] = m] /\ pc' \in {"mark", "idle"}
  BY DEF Finalize, CompensateState, PersistFails
<1> HIDE DEF m
<1>5. AtTheEnd'
  <2>1. pc' = "stateConv" => M'.when = turns'
    BY <1>1, <1>2, <1>3, <1>4 DEF M
  <2> QED
    BY <1>4, <2>1 DEF AtTheEnd, Forward, InFlight, Working
<1>6. CASE UNCHANGED txs /\ pc' = "stateConv"
  BY <1>1, <1>2, <1>5, <1>6, TranscriptStill DEF Unsettled, UndoCandidates
<1>7. CASE txs' = [txs EXCEPT ![c] = m]
  <2>1. /\ DOMAIN txs' = DOMAIN txs /\ txs'[c] = m
        /\ \A n \in DOMAIN txs : n # c => txs'[n] = txs[n]
        /\ \A n \in DOMAIN txs : SameData(txs'[n], txs[n])
        /\ DOMAIN txs = 1..Len(txs) /\ Len(txs) \in Nat
    BY <1>7, Numbered DEF Kept, Evolves, JInv, CInv
  <2>2. \A n \in DOMAIN txs' : ~Unsettled(n)'
    BY <1>1, <1>2, <1>3, <2>1 DEF Alone, Unsettled
  <2>3. AtAnEnd'
    BY <1>1, <1>2, <2>2 DEF AtAnEnd, BothAt
  <2>4. \A n \in DOMAIN txs : \A d, w : Follows(d, txs'[n], w) <=> Follows(d, txs[n], w)
    BY <2>1, SameEnds
  <2>5. \A i, j \in UndoCandidates :
          i < j /\ (\A k \in UndoCandidates : k <= i \/ j <= k)
          => Follows(txs[j].forward, txs[i], txs[j].when)
    BY <1>2 DEF Chain
  <2>6. SUFFICES /\ \A i \in UndoCandidates' :
                      (\A k \in UndoCandidates' : k <= i) => Follows(conv, txs[i], turns)
                 /\ \A i, j \in UndoCandidates' :
                      i < j /\ (\A k \in UndoCandidates' : k <= i \/ j <= k)
                      => Follows(txs[j].forward, txs[i], txs[j].when)
    <3>1. /\ \A i \in UndoCandidates' : i \in DOMAIN txs
          /\ \A n \in DOMAIN txs : txs'[n].forward = txs[n].forward /\ txs'[n].when = txs[n].when
      BY <2>1 DEF UndoCandidates, SameData
    <3>2. Chain'
      BY <1>1, <2>2, <2>4, <2>6, <3>1 DEF Chain, Top
    <3> QED
      BY <1>5, <2>3, <3>2 DEF TInv
  <2>7. /\ \A i \in UndoCandidates : i \in DOMAIN txs /\ i # c /\ i \in Nat /\ i < c
        /\ M.kind = "rewind" => UndoCandidates' = UndoCandidates \cup {c}
        /\ M.kind = "undo" => UndoCandidates' = UndoCandidates \ {M.parent}
    BY <1>1, <1>2, <1>3, <1>7, CandidatesAtCommit
  <2>8. CASE M.kind = "rewind"
    <3>1. UndoCandidates' = UndoCandidates \cup {c}
      BY <2>7, <2>8
    <3>2. Follows(conv, txs[c], turns)
      BY <1>2, <2>8 DEF Follows, After, BothAt
    <3>3. ASSUME NEW i \in UndoCandidates', \A k \in UndoCandidates' : k <= i
          PROVE  Follows(conv, txs[i], turns)
      BY <1>2, <2>1, <2>7, <3>1, <3>2, <3>3
    <3>4. ASSUME NEW i \in UndoCandidates', NEW j \in UndoCandidates', i < j,
                 \A k \in UndoCandidates' : k <= i \/ j <= k
          PROVE  Follows(txs[j].forward, txs[i], txs[j].when)
      <4>1. i \in UndoCandidates /\ i \in DOMAIN txs
        BY <2>1, <2>7, <3>1, <3>4
      <4>2. CASE j = c
        <5>1. \A k \in UndoCandidates : k <= i
          BY <2>1, <2>7, <3>1, <3>4, <4>2
        <5>2. Follows(Before(txs[c]), txs[i], turns)
          BY <1>2, <4>1, <5>1 DEF Chain, Top, Unsettled
        <5> QED
          BY <1>2, <2>8, <4>2, <5>2 DEF Before
      <4>3. CASE j # c
        BY <2>5, <3>1, <3>4, <4>1, <4>3
      <4> QED
        BY <4>2, <4>3
    <3> QED
      BY <3>3, <3>4
  <2>9. CASE M.kind = "undo"
    <3> PICK p \in UndoCandidates : p = M.parent
      BY <1>2, <2>9 DEF Top
    <3>1. p \in DOMAIN txs /\ p \in Nat /\ p # c /\ \A k \in UndoCandidates : k <= p
      BY <1>2, <2>7, <2>9 DEF Top
    <3>2. UndoCandidates' = UndoCandidates \ {p}
      BY <2>7, <2>9
    <3>3. txs[p].forward = M.forward /\ conv = M.forward /\ txs[p].when = turns
      BY <1>2, <2>9 DEF LInv, Inherited, Inherits, After, BothAt
    <3>4. ASSUME NEW i \in UndoCandidates', \A k \in UndoCandidates' : k <= i
          PROVE  Follows(conv, txs[i], turns)
      <4>1. i \in UndoCandidates /\ i # p /\ i < p
        BY <2>7, <3>1, <3>2
      <4>2. \A k \in UndoCandidates : k <= i \/ p <= k
        BY <3>1, <3>2, <3>4
      <4> QED
        BY <2>5, <3>3, <4>1, <4>2
    <3>5. ASSUME NEW i \in UndoCandidates', NEW j \in UndoCandidates', i < j,
                 \A k \in UndoCandidates' : k <= i \/ j <= k
          PROVE  Follows(txs[j].forward, txs[i], txs[j].when)
      <4>1. i \in UndoCandidates /\ j \in UndoCandidates
        BY <3>2
      <4>2. \A k \in UndoCandidates : k <= i \/ j <= k
        BY <3>1, <3>2, <3>5, <4>1
      <4> QED
        BY <2>5, <3>5, <4>1, <4>2
    <3> QED
      BY <3>4, <3>5
  <2> QED
    BY <1>2, <2>8, <2>9
<1> QED
  BY <1>4, <1>6, <1>7

\* Every step keeps the transcripts in line.
LEMMA NextTranscript == JInv /\ LInv /\ OInv /\ TInv /\ [Next]_vars => TInv'
<1> SUFFICES ASSUME JInv, LInv, OInv, TInv, [Next]_vars, orderly' PROVE TInv'
  BY DEF TInv
<1>1. Kept /\ orderly
  BY NextKept, OrderlyBefore DEF JInv
<1>2. CASE Finalize
  BY <1>1, <1>2, FinalizeTranscript
<1>3. CASE ~Finalize
  <2>1. UndoCandidates' = UndoCandidates
    BY <1>3, CandidatesKept
  <2>2. CASE Environment
    BY <1>1, <2>1, <2>2, EnvironmentTranscript
  <2>3. CASE Request
    BY <1>1, <2>1, <2>3, RequestTranscript
  <2>4. CASE Commit
    BY <1>1, <1>3, <2>1, <2>4, BeginCommitTranscript, ForwardTranscript,
       CommitConversationTranscript, MarkUndoneTranscript DEF Commit
  <2>5. CASE Recover
    BY <1>1, <2>1, <2>5, CompensateConversationTranscript, BackTranscript, VerdictTranscript,
       RecoveryTranscript DEF Recover
  <2>6. CASE UNCHANGED vars
    <3>1. UNCHANGED <<conv, convDisk, txs, pc, mem, cur, stateErr, turns>>
      BY <2>6 DEF vars, session, control, counters
    <3>2. AtAnEnd /\ AtTheEnd /\ Chain
      BY <1>1 DEF TInv
    <3>3. AtTheEnd'
      BY <3>1, <3>2 DEF AtTheEnd, BothAt, M
    <3> QED
      BY <1>1, <2>1, <3>1, <3>2, <3>3, TranscriptStill DEF Unsettled
  <2> QED
    BY <2>2, <2>3, <2>4, <2>5, <2>6 DEF Next
<1> QED
  BY <1>2, <1>3

\* In every orderly history the conversation, live or saved, is at one end of what
\* is committing, at the end the step in hand counts on, and where the newest
\* standing rewind left it unless turns were taken since.
THEOREM OrderlyTranscripts == Spec => [](JInv /\ LInv /\ OInv /\ TInv)
<1>1. Init => LInv
  <2> SUFFICES ASSUME Init PROVE LInv
    OBVIOUS
  <2>1. DOMAIN txs = {} /\ conv = <<>> /\ convDisk = <<>> /\ lastUndo = 0 /\ pc = "idle"
    BY DEF Init
  <2>2. Range(conv) = {} /\ Range(convDisk) = {}
    BY <2>1 DEF Range
  <2> QED
    BY <2>1, <2>2 DEF LInv, Heard, Inherited, Newest, Forward
<1>2. Init => TInv
  BY DEF Init, TInv, AtAnEnd, AtTheEnd, Chain, Top, UndoCandidates, Forward, InFlight,
     Working
<1>3. JInv /\ LInv /\ OInv /\ TInv /\ [Next]_vars => (LInv /\ TInv)'
  BY NextLineage, NextTranscript
<1> QED
  BY <1>1, <1>2, <1>3, OrderlyStore, PTL DEF Spec

\* A manifest that was committing is given up by a verdict alone, and only when no
\* error is on record.
LEMMA AbortsByVerdict ==
  ASSUME JInv, [Next]_vars, NEW n \in DOMAIN txs, txs[n].state = "committing",
         txs'[n].state = "aborted"
  PROVE  Verdict /\ n = cur /\ ~stateErr /\ ~compErr
<1>0. /\ txs \in Seq(Manifest) /\ Len(txs) \in Nat /\ DOMAIN txs = 1..Len(txs)
      /\ txs[n] \in Manifest
  BY Numbered DEF JInv, CInv
<1>1. CASE Request
  <2>1. ASSUME NEW m, txs' = Append(txs, m) PROVE FALSE
    BY <1>0, <2>1
  <2> QED
    BY <1>1, <2>1 DEF Request, PrepareTransaction, FileRevert, UndoRewind, StageAs, Begin, Abandon
<1>2. CASE BeginCommit \/ PersistIntent \/ Finalize \/ Verdict
  <2>1. pc \in InFlight /\ (pc \in Forward \/ Verdict)
    BY <1>2 DEF BeginCommit, PersistIntent, Finalize, Verdict, InFlight, Working, Forward
  <2>2. /\ M \in Manifest /\ cur \in DOMAIN txs /\ (pc \in Forward => M = txs[cur])
    BY <2>1, InHandFacts DEF JInv
  <2>3. CASE BeginCommit
    <3> DEFINE m == [M EXCEPT !.state = "committing"]
    <3>1. m.state = "committing"
      BY <2>2, StateData
    <3>2. txs' = [txs EXCEPT ![cur] = m] \/ UNCHANGED txs
      BY <2>3 DEF BeginCommit, Persist, PersistFails
    <3> HIDE DEF m
    <3> QED
      BY <3>1, <3>2
  <2>4. CASE PersistIntent
    <3> DEFINE m == [M EXCEPT !.published = @ \cup {Min(Unpublished)}]
    <3>1. m.state = M.state /\ pc \in Forward
      BY <2>2, <2>4 DEF Manifest, PersistIntent, Forward
    <3>2. txs' = [txs EXCEPT ![cur] = m] \/ UNCHANGED txs
      BY <2>4 DEF PersistIntent, Persist, PersistFails
    <3> HIDE DEF m
    <3> QED
      BY <2>2, <3>1, <3>2
  <2>5. CASE Finalize
    <3> DEFINE m == [M EXCEPT !.state = "committed"]
    <3>1. m.state = "committed"
      BY <2>2, StateData
    <3>2. txs' = [txs EXCEPT ![cur] = m] \/ UNCHANGED txs
      BY <2>5 DEF Finalize, PersistFails
    <3> HIDE DEF m
    <3> QED
      BY <3>1, <3>2
  <2>6. CASE Verdict
    <3> DEFINE s == IF stateErr \/ compErr THEN "committing" ELSE "aborted"
               m == [M EXCEPT !.state = s]
    <3>1. m.state = s
      BY <2>2, StateData
    <3>2. txs' = [txs EXCEPT ![cur] = m] \/ UNCHANGED txs
      BY <2>6 DEF Verdict
    <3>3. s = "aborted" => ~stateErr /\ ~compErr
      OBVIOUS
    <3> HIDE DEF m, s
    <3> QED
      BY <2>6, <3>1, <3>2, <3>3
  <2> QED
    BY <1>2, <2>3, <2>4, <2>5, <2>6
<1>3. CASE MarkUndone
  <2>1. pc = "mark" /\ cur \in DOMAIN txs /\ M = txs[cur] /\ M.kind = "undo"
    BY <1>3, Numbered, InMemory DEF MarkUndone, JInv, CInv, MInv, InStep, Working
  <2>2. M.parent \in DOMAIN txs /\ txs[M.parent] \in Manifest
    BY <2>1, Numbered DEF JInv, CInv, MInv, WellKept
  <2> PICK p \in DOMAIN txs : p = M.parent
    BY <2>2
  <2> DEFINE m == [txs[p] EXCEPT !.state = "undone"]
  <2>3. txs' = [txs EXCEPT ![p] = m] \/ UNCHANGED txs
    BY <1>3 DEF MarkUndone
  <2>4. m.state = "undone"
    BY <2>2, StateData
  <2> HIDE DEF m
  <2> QED
    BY <2>3, <2>4
<1>4. CASE RecoverPrepared
  <2>1. Min(Remaining) \in DOMAIN txs /\ txs[Min(Remaining)].state = "prepared"
    BY <1>4, NextRemaining, Numbered DEF RecoverPrepared, JInv, CInv
  <2> PICK p \in DOMAIN txs : p = Min(Remaining)
    BY <2>1
  <2> DEFINE m == [txs[p] EXCEPT !.state = "aborted"]
  <2>2. txs' = [txs EXCEPT ![p] = m] \/ UNCHANGED txs
    BY <1>4 DEF RecoverPrepared
  <2> HIDE DEF m
  <2> QED
    BY <2>1, <2>2
<1>5. CASE \/ Environment \/ UNCHANGED vars \/ BackupTarget \/ PublishTarget \/ PersistProgress
           \/ FilesDone \/ CommitConversation \/ CommitCheckpoints \/ CompensateConversation
           \/ CompensateCheckpoints \/ CompensateFile \/ CompensationDone \/ Start
           \/ RecoverCommitting \/ PassDone
  <2>1. UNCHANGED txs
    BY <1>5 DEF Environment, Turn, BlockedTurn, BrokenTurn, ExternalEdit, Crash, Shutdown, Stop, vars, BackupTarget,
       PublishTarget, PersistProgress, FilesDone, CommitConversation, CommitCheckpoints,
       CompensateConversation, CompensateCheckpoints, CompensateFile, CompensateNothing, CompensateUnread,
       CompensateRename, CompensateForeign, CompensateRemove, CompensateMove,
       CompensationDone, Start, RecoverCommitting, PassDone, Untouched
  <2> QED
    BY <2>1
<1> QED
  BY <1>1, <1>2, <1>3, <1>4, <1>5 DEF Next, Commit, Recover

\* Whatever was given up is as it was found: failTransaction and
\* recoverTransactions abort a manifest only after every file it may have published
\* and the conversation have been brought back.
LEMMA AbortStep ==
  ASSUME JInv, TInv, orderly, [Next]_vars, NEW n \in DOMAIN txs,
         txs[n].state = "committing", txs'[n].state = "aborted"
  PROVE  /\ \A f \in txs[n].published : disk[f] = txs[n].fwd[f]
         /\ ConversationAt(txs[n], txs[n].kind = "rewind")
<1>1. Verdict /\ n = cur /\ ~stateErr /\ ~compErr
  BY AbortsByVerdict
<1>2. pc = "verdict" /\ pc \in InFlight
  BY <1>1 DEF Verdict, InFlight, Working
<1>3. /\ SameData(M, txs[n]) /\ M.published = txs[n].published
      /\ Before(M) = Before(txs[n]) /\ M.kind \in {"rewind", "undo"}
  BY <1>1, <1>2, InHandFacts, InHandEnds DEF JInv
<1>4. \A f \in M.published : disk[f] = M.fwd[f]
  BY <1>1, <1>2 DEF JInv, Back
<1>5. BothAt(Before(txs[n]))
  BY <1>1, <1>2, <1>3 DEF TInv, AtTheEnd
<1>6. WantsConversation(txs[n].scope) =>
        Before(txs[n]) = IF txs[n].kind = "rewind" THEN txs[n].forward
                         ELSE Upto(txs[n].forward, txs[n].boundary)
  BY <1>3 DEF Before, Rewound, SameData
<1> QED
  BY <1>3, <1>4, <1>5, <1>6 DEF SameData, ConversationAt, BothAt

\* The property of the runs, for every number of files, turns, transactions, edits
\* and disturbances.
THEOREM AbortsWhole == Spec => AbortIsWhole
<1>1. JInv /\ TInv /\ [Next]_vars =>
        [\A n \in DOMAIN txs :
           orderly /\ txs[n].state = "committing" /\ txs'[n].state = "aborted" =>
             /\ \A f \in txs[n].published : disk[f] = txs[n].fwd[f]
             /\ ConversationAt(txs[n], txs[n].kind = "rewind")]_vars
  BY AbortStep
<1> QED
  BY <1>1, OrderlyTranscripts, PTL DEF Spec, AbortIsWhole
=============================================================================
