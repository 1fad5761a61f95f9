------------------------------ MODULE MCRewind -------------------------------
(***************************************************************************)
(* RewindRefinement for TLC, with joint bounds on its histories.  Every    *)
(* step that must happen has an outcome within them (no fault, and nothing *)
(* begun), so they stop nobody.                                            *)
(***************************************************************************)
EXTENDS RewindRefinement

\* An outside edit uses up one of the disturbances.
EditsAreDisturbances == edits + disturbed <= MaxDisturbances

\* Turns, transactions and disturbances do not all reach their bounds at once.
NotAllAtOnce ==
  turns + Len(txs) + disturbed < MaxTurns + MaxTransactions + MaxDisturbances
=============================================================================
