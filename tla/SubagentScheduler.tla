-------------------------- MODULE SubagentScheduler --------------------------
(***************************************************************************)
(* internal/agent/scheduler.go: the session's pool of sub-agent slots.  A  *)
(* run takes a slot and, if it may write, a claim on paths; a call that    *)
(* finds no room waits in a queue, or fails at once when it is made inside *)
(* a run that holds a slot itself.  Write calls of the parent agent claim  *)
(* paths without taking a slot.  Whoever gives something back scans the    *)
(* queue under the mutex and starts everything that now fits.              *)
(*                                                                         *)
(* An acquirer is one call of Acquire and the run behind it, a write one   *)
(* call of ReserveParentWrite.  A claim is the set of paths it covers, the *)
(* whole workspace being all of them, so that Overlaps is intersection;    *)
(* the normalisation of paths is left out.                                 *)
(***************************************************************************)
EXTENDS Integers, Sequences, FiniteSets, SequencesExt

CONSTANTS
  Acquirers,   \* calls of Acquire ever made
  Writes,      \* calls of ReserveParentWrite ever made
  Paths,       \* paths of the workspace
  Requests,    \* what a call may ask for: [writer, paths]
  MaxTotal,    \* slots
  MaxWriters,  \* slots for writers
  None

ASSUME SchedulerAssumption ==
  /\ IsFiniteSet(Acquirers) /\ IsFiniteSet(Writes) /\ Acquirers \cap Writes = {}
  /\ None \notin Acquirers /\ None \notin Writes
  /\ Requests \subseteq [writer : BOOLEAN, paths : SUBSET Paths]
  /\ MaxTotal \in Nat /\ MaxWriters \in Nat

VARIABLES
  activeTotal, activeWriters,   \* occupied slots
  activeClaims,   \* bag of the claims of runs: how often each is listed
  parentClaims,   \* bag of the claims of parent writes
  waiters,        \* queue of acquirers
  mu, scan,       \* who scans the queue under the mutex, and how far it is
  ready,          \* waiters whose channel is closed and who have not noticed
  ended,          \* acquirers whose context has ended
  pc, req,        \* acquirer -> where it is, what it asked for
  under,          \* acquirer -> the run it is nested in, None for the parent
  wpc, claim      \* write -> where it is, what it claims

counts == <<activeTotal, activeWriters, activeClaims>>
calls == <<req, under, ended>>
writeCalls == <<wpc, claim>>
schedulerVars ==
  <<counts, parentClaims, waiters, mu, scan, ready, pc, calls, writeCalls>>

NoClaims == [c \in SUBSET Paths |-> 0]
NoRequest == [writer |-> FALSE, paths |-> {}]

SchedulerInit ==
  /\ activeTotal = 0 /\ activeWriters = 0
  /\ activeClaims = NoClaims /\ parentClaims = NoClaims
  /\ waiters = <<>> /\ mu = None /\ scan = 1
  /\ ready = {} /\ ended = {}
  /\ pc = [a \in Acquirers |-> "idle"] /\ req = [a \in Acquirers |-> NoRequest]
  /\ under = [a \in Acquirers |-> None]
  /\ wpc = [w \in Writes |-> "idle"] /\ claim = [w \in Writes |-> {}]

At(a, label) == pc' = [pc EXCEPT ![a] = label]
Overlaps(c, d) == c \cap d # {}

\* conflictLocked: nobody, run or parent write, claims an overlapping path.
Unclaimed(paths) ==
  \A c \in SUBSET Paths :
    activeClaims[c] > 0 \/ parentClaims[c] > 0 => ~Overlaps(c, paths)

\* Wrong on purpose: the paths of parent writes are not looked at.
CanStartOverParent(r) ==
  /\ activeTotal < MaxTotal
  /\ r.writer => /\ activeWriters < MaxWriters
                 /\ \A c \in SUBSET Paths : activeClaims[c] > 0 => ~Overlaps(c, r.paths)

\* canStartLocked
CanStart(r) ==
  /\ activeTotal < MaxTotal
  /\ r.writer => activeWriters < MaxWriters /\ Unclaimed(r.paths)

Claims(r) == r.writer /\ r.paths # {}

\* activateLocked
Activate(r) ==
  /\ activeTotal' = activeTotal + 1
  /\ activeWriters' = IF r.writer THEN activeWriters + 1 ELSE activeWriters
  /\ activeClaims' = IF Claims(r) THEN [activeClaims EXCEPT ![r.paths] = @ + 1]
                     ELSE activeClaims

Less(n) == IF n > 0 THEN n - 1 ELSE 0

\* Wrong on purpose: a reader is taken off the writers.
DeactivateWriter(r) ==
  /\ activeTotal' = Less(activeTotal)
  /\ activeWriters' = activeWriters - 1
  /\ activeClaims' = IF Claims(r) THEN [activeClaims EXCEPT ![r.paths] = Less(@)]
                     ELSE activeClaims

\* deactivateLocked
Deactivate(r) ==
  /\ activeTotal' = Less(activeTotal)
  /\ activeWriters' = IF r.writer THEN Less(activeWriters) ELSE activeWriters
  /\ activeClaims' = IF Claims(r) THEN [activeClaims EXCEPT ![r.paths] = Less(@)]
                     ELSE activeClaims

Call(a) ==
  /\ pc[a] = "idle" /\ mu = None
  /\ UNCHANGED <<parentClaims, mu, scan, ready, ended, writeCalls>>

Asks(a, r, h) == req' = [req EXCEPT ![a] = r] /\ under' = [under EXCEPT ![a] = h]

\* Wrong on purpose: a call that finds no room waits, wherever it is made.
AcquireWaiting(a, r, h) ==
  /\ Call(a) /\ Asks(a, r, h)
  /\ IF CanStart(r) THEN Activate(r) /\ At(a, "holding") /\ UNCHANGED waiters
     ELSE waiters' = Append(waiters, a) /\ At(a, "queued") /\ UNCHANGED counts

\* Acquire up to the select, made by the parent agent (h = None) or inside the
\* run of h: a slot, an error for a nested call, or a place in the queue.
Acquire(a, r, h) ==
  /\ Call(a)
  /\ \/ /\ CanStart(r)
        /\ Activate(r) /\ Asks(a, r, h) /\ At(a, "holding")
        /\ UNCHANGED waiters
     \/ /\ ~CanStart(r) /\ h # None
        /\ At(a, "done")
        /\ UNCHANGED <<counts, waiters, req, under>>
     \/ /\ ~CanStart(r) /\ h = None
        /\ waiters' = Append(waiters, a) /\ Asks(a, r, h) /\ At(a, "queued")
        /\ UNCHANGED counts

\* The select: the slot arrived ...
Started(a) ==
  /\ pc[a] = "queued" /\ a \in ready
  /\ ready' = ready \ {a} /\ At(a, "holding")
  /\ UNCHANGED <<counts, parentClaims, waiters, mu, scan, calls, writeCalls>>

\* ... or the context ended; with both, either branch may be taken.
Cancelled(a) ==
  /\ pc[a] = "queued" /\ a \in ended
  /\ At(a, "leaving")
  /\ UNCHANGED <<counts, parentClaims, waiters, mu, scan, ready, calls, writeCalls>>

\* The call is over; what it asked for goes with it.
Forget(a) == req' = [req EXCEPT ![a] = NoRequest] /\ under' = [under EXCEPT ![a] = None]

\* removeWaiterLocked: a call is queued at most once.
Without(a) ==
  IF \E i \in 1..Len(waiters) : waiters[i] = a
  THEN RemoveAt(waiters, CHOOSE i \in 1..Len(waiters) : waiters[i] = a)
  ELSE waiters

Leave(a) ==
  /\ pc[a] = "leaving" /\ mu = None
  /\ waiters' = Without(a) /\ ready' = ready \ {a}
  /\ UNCHANGED <<counts, parentClaims, mu, scan, ended, writeCalls>>

\* Wrong on purpose: the slot that arrived meanwhile is not given back.
RemoveWaiterOnly(a) == Leave(a) /\ At(a, "done") /\ Forget(a)

\* A cancelled call leaves the queue and looks at its channel once more: nobody
\* can close it any longer.
RemoveWaiter(a) ==
  /\ Leave(a)
  /\ \/ a \in ready /\ At(a, "dropping") /\ UNCHANGED <<req, under>>
     \/ a \notin ready /\ At(a, "done") /\ Forget(a)

\* A run waits for the runs it has nested in it.
Inside(h) == {a \in Acquirers : under[a] = h /\ pc[a] \notin {"idle", "done"}}

\* Wrong on purpose: a run that ends does not look at the queue.
ReleaseQuietly(a) ==
  /\ pc[a] \in {"holding", "dropping"} /\ Inside(a) = {} /\ mu = None
  /\ Deactivate(req[a]) /\ At(a, "done") /\ Forget(a)
  /\ UNCHANGED <<parentClaims, waiters, mu, scan, ready, ended, writeCalls>>

\* The release function of a slot, up to pumpWaitersLocked.
Release(a) ==
  /\ pc[a] \in {"holding", "dropping"} /\ Inside(a) = {} /\ mu = None
  /\ Deactivate(req[a]) /\ Forget(a)
  /\ mu' = a /\ scan' = 1 /\ At(a, "pumping")
  /\ UNCHANGED <<parentClaims, waiters, ready, ended, writeCalls>>

\* ReserveParentWrite fails at once when the paths are claimed.
ReserveParentWrite(w, paths) ==
  /\ wpc[w] = "idle" /\ mu = None /\ paths # {}
  /\ \/ /\ Unclaimed(paths)
        /\ parentClaims' = [parentClaims EXCEPT ![paths] = @ + 1]
        /\ claim' = [claim EXCEPT ![w] = paths]
        /\ wpc' = [wpc EXCEPT ![w] = "writing"]
     \/ /\ ~Unclaimed(paths)
        /\ wpc' = [wpc EXCEPT ![w] = "done"]
        /\ UNCHANGED <<parentClaims, claim>>
  /\ UNCHANGED <<counts, waiters, mu, scan, ready, pc, calls>>

ReleaseParentWrite(w) ==
  /\ wpc[w] = "writing" /\ mu = None
  /\ parentClaims' = [parentClaims EXCEPT ![claim[w]] = Less(@)]
  /\ claim' = [claim EXCEPT ![w] = {}]
  /\ mu' = w /\ scan' = 1 /\ wpc' = [wpc EXCEPT ![w] = "pumping"]
  /\ UNCHANGED <<counts, waiters, ready, pc, calls>>

\* One turn of the loop of pumpWaitersLocked: start the waiter or leave it.
Pump ==
  /\ mu # None /\ scan <= Len(waiters)
  /\ LET a == waiters[scan]
     IN IF CanStart(req[a])
        THEN /\ Activate(req[a])
             /\ ready' = ready \cup {a}
             /\ waiters' = RemoveAt(waiters, scan)
             /\ UNCHANGED scan
        ELSE scan' = scan + 1 /\ UNCHANGED <<counts, ready, waiters>>
  /\ UNCHANGED <<parentClaims, mu, pc, calls, writeCalls>>

\* The end of the scan: the mutex is free, the release function returns.
Pumped ==
  /\ mu # None /\ scan > Len(waiters)
  /\ mu' = None /\ scan' = 1
  /\ pc' = IF mu \in Acquirers THEN [pc EXCEPT ![mu] = "done"] ELSE pc
  /\ wpc' = IF mu \in Writes THEN [wpc EXCEPT ![mu] = "done"] ELSE wpc
  /\ UNCHANGED <<counts, parentClaims, waiters, ready, calls, claim>>

\* The context of a call ends.
EndContext(a) ==
  /\ ended' = ended \cup {a}
  /\ UNCHANGED <<counts, parentClaims, waiters, mu, scan, ready, pc, req, under, writeCalls>>

Holders == {a \in Acquirers : pc[a] = "holding"}

\* The steps of a call that is on its way, and of the scan.
Proceed(a) == Started(a) \/ Cancelled(a) \/ RemoveWaiter(a) \/ Release(a)

SchedulerNext ==
  \/ \E a \in Acquirers, r \in Requests, h \in Holders \cup {None} : Acquire(a, r, h)
  \/ \E a \in Acquirers : Proceed(a)
  \/ \E a \in Acquirers : pc[a] = "queued" /\ EndContext(a)
  \/ \E w \in Writes, paths \in SUBSET Paths : ReserveParentWrite(w, paths)
  \/ \E w \in Writes : ReleaseParentWrite(w)
  \/ Pump \/ Pumped

SchedulerSpec == SchedulerInit /\ [][SchedulerNext]_schedulerVars

-----------------------------------------------------------------------------
(* Properties *)

\* Every variable has its type.
SchedulerTypeOK ==
  /\ activeTotal \in Nat /\ activeWriters \in Nat
  /\ activeClaims \in [SUBSET Paths -> Nat] /\ parentClaims \in [SUBSET Paths -> Nat]
  /\ waiters \in Seq(Acquirers)
  /\ mu \in Acquirers \cup Writes \cup {None} /\ scan \in Nat \ {0}
  /\ ready \subseteq Acquirers /\ ended \subseteq Acquirers
  /\ pc \in [Acquirers -> {"idle", "queued", "leaving", "dropping", "holding", "pumping",
                           "done"}]
  /\ req \in [Acquirers -> [writer : BOOLEAN, paths : SUBSET Paths]]
  /\ under \in [Acquirers -> Acquirers \cup {None}]
  /\ wpc \in [Writes -> {"idle", "writing", "pumping", "done"}]
  /\ claim \in [Writes -> SUBSET Paths]

\* Who has a slot: the runs, and the calls that were given one and have not
\* noticed or are about to hand it back.
Owns(a) == pc[a] \in {"holding", "dropping"} \/ a \in ready

\* The counters and the bag of claims say exactly who has a slot, and the limits
\* hold, whatever cancellation meets whatever activation (Acquire's second look
\* at the channel, makeRelease).
SlotsAccounted ==
  /\ activeTotal = Cardinality({a \in Acquirers : Owns(a)})
  /\ activeWriters = Cardinality({a \in Acquirers : Owns(a) /\ req[a].writer})
  /\ \A c \in SUBSET Paths :
       activeClaims[c] = Cardinality({a \in Acquirers : Owns(a) /\ Claims(req[a])
                                                          /\ req[a].paths = c})
  /\ activeTotal <= MaxTotal /\ activeWriters <= MaxWriters

\* Two runs that may write, or a run and a write of the parent, never have
\* overlapping claims at the same time (canStartLocked, conflictLocked).
ClaimsDisjoint ==
  /\ \A a, b \in Acquirers :
       Owns(a) /\ Owns(b) /\ req[a].writer /\ req[b].writer /\ a # b
         => ~Overlaps(req[a].paths, req[b].paths)
  /\ \A a \in Acquirers, w \in Writes :
       Owns(a) /\ req[a].writer /\ wpc[w] = "writing" => ~Overlaps(req[a].paths, claim[w])
  /\ \A v, w \in Writes :
       wpc[v] = "writing" /\ wpc[w] = "writing" /\ v # w => ~Overlaps(claim[v], claim[w])

\* Nobody waits for what is free: whenever the mutex is free, no call in the
\* queue could start (pumpWaitersLocked after every release).
NoLostWakeup ==
  mu = None => \A i \in 1..Len(waiters) : ~CanStart(req[waiters[i]])
=============================================================================
