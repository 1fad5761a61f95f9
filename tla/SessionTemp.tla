----------------------------- MODULE SessionTemp -----------------------------
(***************************************************************************)
(* internal/sessiontemp: the private temporary directory of a logical      *)
(* session.  Controllers own the Manager together; a command leases the    *)
(* current generation for as long as it runs.  A rotation, or the last     *)
(* owner leaving, retires the generation, and its directory goes with its  *)
(* last lease.  Directories of a process that died are swept by the next   *)
(* one, which takes a free owner lock as the proof that nobody uses them.  *)
(*                                                                         *)
(* The operations run under Manager.mu and are single steps, for modules   *)
(* that decide who calls them.  Not modelled: the symlink and prefix       *)
(* checks of safeRemoveDir, and the 24 hours after which a directory is    *)
(* old; the name of a directory is not used again while a sweep holds it.  *)
(***************************************************************************)
EXTENDS Naturals, FiniteSets

CONSTANTS
  Commands,  \* commands of bash and grep that run in the directory
  Dirs,      \* directory names, one for every generation there may be at once
  None       \* nil

ASSUME TempAssumption == IsFiniteSet(Commands) /\ None \notin Dirs

VARIABLES
  owners,    \* Manager.owners
  sealed,    \* Manager.sealed
  gen,       \* Manager.gen: the directory of the current generation
  lease,     \* command -> the directory it leased
  dirs,      \* the directories on disk
  locked,    \* the directories whose owner lock is held
  sweeping   \* the directory a peer's sweep has found unlocked and will remove

tempVars == <<owners, sealed, gen, lease, dirs, locked, sweeping>>

TempInit ==
  /\ owners = 0 /\ sealed = FALSE /\ gen = None
  /\ lease = [k \in Commands |-> None]
  /\ dirs = {} /\ locked = {} /\ sweeping = None

Holders(d) == {k \in Commands : lease[k] = d}

\* A Manager without owners yet does nothing for a sealed one (fail closed).
Retain ==
  /\ owners' = IF sealed THEN owners ELSE owners + 1
  /\ UNCHANGED <<sealed, gen, lease, dirs, locked, sweeping>>

\* deleteGenerationLocked: the lock first, then the directory, which may
\* resist; it is not tried again.
DeleteGeneration(d) ==
  /\ locked' = locked \ {d}
  /\ dirs' \in {dirs, dirs \ {d}}

KeepDirectories == UNCHANGED <<dirs, locked>>

\* retireLocked: the directory goes now, or with its last lease.
Retire ==
  /\ gen' = None
  /\ IF gen # None /\ Holders(gen) = {} THEN DeleteGeneration(gen) ELSE KeepDirectories

\* Release: the last owner seals the Manager for good.
Release ==
  /\ owners' = IF owners > 0 THEN owners - 1 ELSE 0
  /\ IF owners <= 1 THEN sealed' = TRUE /\ Retire
     ELSE UNCHANGED <<sealed, gen, dirs, locked>>
  /\ UNCHANGED <<lease, sweeping>>

Rotate ==
  /\ IF sealed THEN UNCHANGED gen /\ KeepDirectories ELSE Retire
  /\ UNCHANGED <<owners, sealed, lease, sweeping>>

\* Wrong on purpose: pins the current generation without looking for one.
AcquireUnmade(k) ==
  /\ lease[k] = None /\ ~sealed /\ owners > 0
  /\ lease' = [lease EXCEPT ![k] = gen]
  /\ dirs' = dirs \cup {gen} /\ locked' = locked \cup {gen}
  /\ UNCHANGED <<owners, sealed, gen, sweeping>>

\* Acquire pins the current generation, or makes one and locks it.  Without an
\* owner, or when the directory cannot be made, the command fails and nothing
\* changes.
Acquire(k) ==
  /\ lease[k] = None /\ ~sealed /\ owners > 0
  /\ \E d \in IF gen # None THEN {gen} ELSE Dirs \ (dirs \cup {sweeping}) :
       /\ gen' = d /\ lease' = [lease EXCEPT ![k] = d]
       /\ dirs' = dirs \cup {d} /\ locked' = locked \cup {d}
  /\ UNCHANGED <<owners, sealed, sweeping>>

\* Lease.Release: the last lease of a retired generation deletes it.
LeaseRelease(k) ==
  /\ lease[k] # None
  /\ lease' = [lease EXCEPT ![k] = None]
  /\ IF Holders(lease[k]) = {k} /\ gen # lease[k] THEN DeleteGeneration(lease[k])
     ELSE KeepDirectories
  /\ UNCHANGED <<owners, sealed, gen, sweeping>>

\* cleanupStale: an old directory whose owner lock is free (the lock is given
\* back at once) is removed, if that succeeds.
SweepFinds(d) ==
  /\ sweeping = None /\ d \in dirs \ locked
  /\ sweeping' = d
  /\ UNCHANGED <<owners, sealed, gen, lease, dirs, locked>>

SweepRemoves(d) ==
  /\ d = sweeping /\ sweeping' = None
  /\ dirs' \in {dirs, dirs \ {d}}
  /\ UNCHANGED <<owners, sealed, gen, lease, locked>>

\* The process dies: its locks are free, its directories stay, and the next
\* process begins with a Manager of its own.
TempCrash ==
  /\ owners' = 0 /\ sealed' = FALSE /\ gen' = None
  /\ lease' = [k \in Commands |-> None]
  /\ locked' = {}
  /\ UNCHANGED <<dirs, sweeping>>

TempTypeOK ==
  /\ owners \in Nat /\ sealed \in BOOLEAN
  /\ gen \in Dirs \cup {None} /\ lease \in [Commands -> Dirs \cup {None}]
  /\ dirs \subseteq Dirs /\ locked \subseteq Dirs /\ sweeping \in Dirs \cup {None}

\* The owner lock is held for exactly the directories in use, the current one
\* and those of commands still running, and every one of them is on disk: no
\* rotation, no close and no sweep takes a directory from under a command, and
\* none keeps one that nobody uses.
DirectoriesInUse ==
  /\ locked = ({gen} \cup {lease[k] : k \in Commands}) \ {None}
  /\ locked \subseteq dirs
=============================================================================
