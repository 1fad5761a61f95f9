------------------------------ MODULE FileLock ------------------------------
(***************************************************************************)
(* internal/filelock: one canonical path, locked by goroutines of several  *)
(* processes.  A process keeps a registry entry per path with a one-token  *)
(* channel; whoever takes the token may try the advisory file lock.  The   *)
(* registry counts the references to an entry and forgets it at zero, so   *)
(* an entry is an object with an identity that can be reclaimed and made   *)
(* anew while a goroutine still remembers an old one.                      *)
(*                                                                         *)
(* Not modelled: the canonicalisation of the path and the 20 ms timer of   *)
(* the retry loop (a retry is a LockFile step that becomes enabled).       *)
(***************************************************************************)
EXTENDS Naturals, FiniteSets

CONSTANTS
  Processes,   \* Patty Code processes that share the lock file
  Callers,     \* goroutines of one process
  Entries,     \* localLock objects, reused once unreachable
  None         \* nil

Threads == Processes \X Callers

ASSUME ConstantsAssumption ==
  /\ IsFiniteSet(Processes) /\ IsFiniteSet(Callers)
  /\ None \notin Entries /\ None \notin Threads

Process(t) == t[1]

VARIABLES
  locks,   \* process -> the registered entry, localRegistry.locks[key]
  token,   \* entry -> the channel holds its token
  refs,    \* entry -> acquirers between registry entry and release or timeout
  local,   \* goroutine -> the entry it remembers
  pc,      \* where the goroutine is in Acquire, TryAcquire or the release
  flock    \* the goroutine whose descriptor holds the file lock, None if free

vars == <<locks, token, refs, local, pc, flock>>

Init ==
  /\ locks = [p \in Processes |-> None]
  /\ token = [e \in Entries |-> TRUE] /\ refs = [e \in Entries |-> 0]
  /\ local = [t \in Threads |-> None] /\ pc = [t \in Threads |-> "idle"]
  /\ flock = None

Users(e) == {t \in Threads : local[t] = e}

\* What a lookup in the registry of p can return: the registered entry, or a
\* new object with its token inside.
Lookup(p) ==
  IF locks[p] # None THEN {locks[p]}
  ELSE {e \in Entries : Users(e) = {} /\ \A q \in Processes : locks[q] # e}
HasToken(p, e) == locks[p] = None \/ token[e]
RefsNow(p, e) == IF locks[p] = None THEN 0 ELSE refs[e]

Goto(t, label) == pc' = [pc EXCEPT ![t] = label]

\* Wrong on purpose: the acquirer is counted only once it has the token.
AcquireLocalUncounted(t) ==
  /\ pc[t] = "idle" /\ Goto(t, "token")
  /\ \E e \in Lookup(Process(t)) :
       /\ locks' = [locks EXCEPT ![Process(t)] = e]
       /\ local' = [local EXCEPT ![t] = e]
       /\ token' = [token EXCEPT ![e] = HasToken(Process(t), e)]
       /\ refs' = [refs EXCEPT ![e] = RefsNow(Process(t), e)]
  /\ UNCHANGED flock

\* acquireLocal, first half: look the entry up under the registry mutex and
\* count oneself before waiting for the token.
AcquireLocal(t) ==
  /\ pc[t] = "idle" /\ Goto(t, "token")
  /\ \E e \in Lookup(Process(t)) :
       /\ locks' = [locks EXCEPT ![Process(t)] = e]
       /\ local' = [local EXCEPT ![t] = e]
       /\ token' = [token EXCEPT ![e] = HasToken(Process(t), e)]
       /\ refs' = [refs EXCEPT ![e] = RefsNow(Process(t), e) + 1]
  /\ UNCHANGED flock

\* acquireLocal, second half: the token arrives ...
TakeToken(t) ==
  /\ pc[t] = "token" /\ token[local[t]]
  /\ token' = [token EXCEPT ![local[t]] = FALSE]
  /\ Goto(t, "file")
  /\ UNCHANGED <<locks, refs, local, flock>>

\* Wrong on purpose: leaving never forgets the entry.
LeaveRegistered(t) ==
  /\ refs' = [refs EXCEPT ![local[t]] = IF @ > 0 THEN @ - 1 ELSE 0]
  /\ local' = [local EXCEPT ![t] = None]
  /\ Goto(t, "idle")
  /\ UNCHANGED locks

\* Drop a reference; at zero the registry forgets the path, whatever entry it
\* has for it.
Leave(t) ==
  /\ refs' = [refs EXCEPT ![local[t]] = IF @ > 0 THEN @ - 1 ELSE 0]
  /\ locks' = IF refs[local[t]] <= 1 THEN [locks EXCEPT ![Process(t)] = None] ELSE locks
  /\ local' = [local EXCEPT ![t] = None]
  /\ Goto(t, "idle")

\* ... or the context ends first.
GiveUp(t) ==
  /\ pc[t] = "token" /\ Leave(t)
  /\ UNCHANGED <<token, flock>>

\* tryAcquireLocal, in one critical section.  Without the token it returns
\* ErrHeld and changes nothing.
TryAcquireLocal(t) ==
  /\ pc[t] = "idle" /\ Goto(t, "try")
  /\ \E e \in Lookup(Process(t)) :
       /\ HasToken(Process(t), e)
       /\ locks' = [locks EXCEPT ![Process(t)] = e]
       /\ local' = [local EXCEPT ![t] = e]
       /\ token' = [token EXCEPT ![e] = FALSE]
       /\ refs' = [refs EXCEPT ![e] = RefsNow(Process(t), e) + 1]
  /\ UNCHANGED flock

\* Wrong on purpose: the lock is shared.
LockFileShared(t) ==
  /\ pc[t] \in {"file", "try"}
  /\ flock' = t /\ Goto(t, "held")
  /\ UNCHANGED <<locks, token, refs, local>>

\* Wrong on purpose: the lock is recorded for the process.
LockFileForProcess(t) ==
  /\ pc[t] \in {"file", "try"} /\ flock = None
  /\ flock' = Process(t) /\ Goto(t, "held")
  /\ UNCHANGED <<locks, token, refs, local>>

\* tryLockFile succeeds, at the first attempt or at a retry.
LockFile(t) ==
  /\ pc[t] \in {"file", "try"} /\ flock = None
  /\ flock' = t /\ Goto(t, "held")
  /\ UNCHANGED <<locks, token, refs, local>>

\* Wrong on purpose: a failed attempt keeps the token.
ReleaseReferenceOnly(t) == Leave(t) /\ UNCHANGED token

\* releaseLocal: give the token back and leave, in one critical section.
ReleaseLocal(t) == token' = [token EXCEPT ![local[t]] = TRUE] /\ Leave(t)

\* The file is held elsewhere and the context ends, TryAcquire finds it held,
\* or tryLockFile fails for another reason.
AbandonFile(t) ==
  /\ pc[t] \in {"file", "try"} /\ ReleaseLocal(t)
  /\ UNCHANGED flock

\* The returned release function: the file first, then the token.
UnlockFile(t) ==
  /\ pc[t] = "held"
  /\ flock' = None /\ Goto(t, "releasing")
  /\ UNCHANGED <<locks, token, refs, local>>

Release(t) ==
  /\ pc[t] = "releasing" /\ ReleaseLocal(t)
  /\ UNCHANGED flock

\* A process dies: its memory goes, and the system drops its file lock.
Crash(p) ==
  LET Its == {t \in Threads : Process(t) = p}
      Lost == {local[t] : t \in Its} \cup {locks[p]}
  IN /\ locks' = [locks EXCEPT ![p] = None]
     /\ token' = [e \in Entries |-> e \in Lost \/ token[e]]
     /\ refs' = [e \in Entries |-> IF e \in Lost THEN 0 ELSE refs[e]]
     /\ local' = [t \in Threads |-> IF t \in Its THEN None ELSE local[t]]
     /\ pc' = [t \in Threads |-> IF t \in Its THEN "idle" ELSE pc[t]]
     /\ flock' = IF flock \in Its THEN None ELSE flock

Finish(t) == TakeToken(t) \/ LockFile(t) \/ UnlockFile(t) \/ Release(t)

Next ==
  \/ \E t \in Threads : \/ AcquireLocal(t) \/ TryAcquireLocal(t) \/ GiveUp(t)
                        \/ AbandonFile(t) \/ Finish(t)
  \/ \E p \in Processes : Crash(p)

\* Goroutines run, the retry timer fires, and a holder calls its release.
Spec == Init /\ [][Next]_vars /\ \A t \in Threads : WF_vars(Finish(t))

-----------------------------------------------------------------------------
(* Properties *)

\* Every variable has its type.
TypeOK ==
  /\ locks \in [Processes -> Entries \cup {None}]
  /\ token \in [Entries -> BOOLEAN] /\ refs \in [Entries -> Nat]
  /\ local \in [Threads -> Entries \cup {None}]
  /\ pc \in [Threads -> {"idle", "token", "file", "try", "held", "releasing"}]
  /\ flock \in Threads \cup {None}

Owning(t) == pc[t] \in {"file", "try", "held", "releasing"}

\* At most one goroutine of a process is past the token, although the entry
\* that carries the token is reclaimed and remade (acquireLocal and
\* releaseLocalFunc agree on one entry per path).
OneOwnerPerProcess ==
  \A t, u \in Threads : Process(t) = Process(u) /\ Owning(t) /\ Owning(u) => t = u

\* The goroutine that was told it has the lock is the one whose descriptor
\* holds the file: at most one in all processes (Acquire, TryAcquire).
HeldMeansLocked == \A t \in Threads : pc[t] = "held" <=> flock = t

\* The registry keeps an entry exactly as long as somebody waits or holds.
RegistryReclaimed ==
  \A p \in Processes :
    locks[p] = None <=> \A t \in Threads : Process(t) = p => pc[t] = "idle"

\* While goroutines wait and none of their process is past the token, the
\* token is in the channel they wait on: no wake-up is lost.
TokenReachesWaiters ==
  \A t \in Threads :
    /\ pc[t] = "token"
    /\ \A u \in Threads : Process(u) = Process(t) => ~Owning(u)
    => token[local[t]]

Waiting == {t \in Threads : pc[t] \in {"token", "file"}}

\* Only patient goroutines: none gives up, tries without waiting or dies.
Patient == \E t \in Threads : AcquireLocal(t) \/ Finish(t)

\* Waiting goroutines do not block each other: once only patient ones act, the
\* lock is taken again and again for as long as somebody waits (the token of
\* every process and the file lock are always passed on).
SomeoneGetsIn == <>[][Patient]_vars => []<>(flock # None \/ Waiting = {})
=============================================================================
