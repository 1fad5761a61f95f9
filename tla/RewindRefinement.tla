-------------------------- MODULE RewindRefinement --------------------------
(***************************************************************************)
(* The journalled transaction implements the atomic rewind.  Until its     *)
(* manifest is durably "committed" a transaction is invisible: a path it   *)
(* may have published still counts as its forward image, and the           *)
(* conversation and the checkpoints as what the transaction found.  The    *)
(* single persist of Finalize is then the abstract step, and everything a  *)
(* compensation or a recovery does is stuttering.                          *)
(***************************************************************************)
EXTENDS RewindTransaction

Committing == {n \in DOMAIN txs : txs[n].state = "committing"}
Hidden == txs[Max(Committing)]     \* the transaction not yet visible

AbsFiles ==
  [f \in Files |-> IF Committing # {} /\ f \in Hidden.published THEN Hidden.fwd[f]
                   ELSE disk[f]]

AbsTalk ==
  IF Committing # {} /\ WantsConversation(Hidden.scope)
  THEN IF Hidden.kind = "undo" THEN Upto(Hidden.forward, Hidden.boundary)
       ELSE Hidden.forward
  ELSE conv

AbsCheckpoints ==
  IF Committing # {} /\ WantsConversation(Hidden.scope)
  THEN IF Hidden.kind = "undo" THEN TruncatedAt(Hidden.turn) ELSE Merge(Hidden.backup)
  ELSE ckpt

Marks(cs) == {[turn |-> c.turn, files |-> c.pre, changed |-> c.touched,
                 length |-> c.boundary] : c \in cs}

AbsUndoable ==
  {[id |-> n, files |-> txs[n].fwd, talk |-> txs[n].forward,
    dropped |-> Marks(txs[n].backup)] : n \in UndoCandidates}

Atomic ==
  INSTANCE AtomicRewind WITH
    Images <- Image, Messages <- 1..MaxTurns, Ids <- TxIds,
    files <- AbsFiles, talk <- AbsTalk, marks <- Marks(AbsCheckpoints),
    undoable <- AbsUndoable, orderly <- orderly /\ edits = 0

\* Seen through the mapping, every rewind and every undo happens to files,
\* conversation and checkpoints in one step, whatever call fails and wherever
\* the process dies (commitTransaction, commitUndoTransaction, recovery).
ImplementsAtomicRewind == Atomic!Spec
=============================================================================
