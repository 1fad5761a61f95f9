--------------------------- MODULE MCBackgroundJobs ---------------------------
(* A background task, a sub-agent of the turn or of the task, a parent write. *)
EXTENDS BackgroundJobs

CONSTANTS j1, a1

MCJobs == {j1}
MCAcquirers == {j1, a1}
MCRequests ==
  {[writer |-> FALSE, paths |-> {}], [writer |-> TRUE, paths |-> {1}]}
=============================================================================
