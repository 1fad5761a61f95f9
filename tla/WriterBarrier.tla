---------------------------- MODULE WriterBarrier ----------------------------
(***************************************************************************)
(* Who may touch the workspace and when: the turn gate of the controller   *)
(* (running, rotating), the MutationBarrier that writers and rewinds share,*)
(* the registry of background writers with its copy in the store, and the  *)
(* two tokens a rewind plan carries from its preview to its commit: the    *)
(* session revision and the barrier generation.                            *)
(*                                                                         *)
(* Frontends (the TUI, a browser, the desktop) call into the controller    *)
(* concurrently.  What a rewind does once it may is RewindTransaction; here*)
(* it is the one step Mutate.  EnterExclusive, TryEnterWrite and Close have*)
(* no caller outside tests and are left out, and so is the nested EnterWrite*)
(* of a tool call inside a background writer that is already counted.      *)
(***************************************************************************)
EXTENDS Naturals, FiniteSets

CONSTANTS
  Frontends,   \* concurrent callers of the controller's rewind operations
  Writers,     \* background sub-agents and fleets
  Tools,       \* write calls of the foreground turn, run in parallel
  MaxOps,      \* bound: turns, writers, calls and rewinds ever begun
  None

ASSUME ConstantsAssumption ==
  /\ IsFiniteSet(Writers) /\ IsFiniteSet(Tools) /\ MaxOps \in Nat
  /\ Writers \cap Tools = {}
  /\ None \notin Writers

VARIABLES
  running, rotating,    \* the controller's two gates
  sessionRev,           \* sessionRevision
  writers, exclusive, generation,   \* the MutationBarrier
  registered,           \* the observer's registry of background writers
  regMu,                \* the writer inside the registry mutex, None if free
  listed,               \* Store.activeWriters
  wpc,                  \* where a writer or a tool call is
  fpc, op,              \* where a frontend is, and in which operation
  snap,                 \* the writers a frontend read from the registry
  plan,                 \* the plan a frontend has prepared
  ok,                   \* the transaction of the frontend succeeded
  version,              \* history: completed changes of the workspace
  begun                 \* counts operations for the bound

gates == <<running, rotating, sessionRev>>
barrier == <<writers, exclusive, generation>>
registry == <<registered, regMu, listed>>
frontend == <<fpc, op, snap, plan, ok>>
vars == <<gates, barrier, registry, wpc, frontend, version, begun>>

NoPlan == [files |-> FALSE, rev |-> 0, gen |-> 0, version |-> 0, made |-> FALSE]
Actors == Writers \cup Tools

Init ==
  /\ running = FALSE /\ rotating = FALSE /\ sessionRev = 0
  /\ writers = 0 /\ exclusive = FALSE /\ generation = 0
  /\ registered = {} /\ regMu = None /\ listed = {}
  /\ wpc = [w \in Actors |-> "out"]
  /\ fpc = [f \in Frontends |-> "idle"] /\ op = [f \in Frontends |-> "none"]
  /\ snap = [f \in Frontends |-> {}] /\ plan = [f \in Frontends |-> NoPlan]
  /\ ok = [f \in Frontends |-> FALSE]
  /\ version = 0 /\ begun = 0

Begin == begun < MaxOps /\ begun' = begun + 1
Move(w, label) == wpc' = [wpc EXCEPT ![w] = label]
Goto(f, label) == fpc' = [fpc EXCEPT ![f] = label]

-----------------------------------------------------------------------------
(* The foreground turn and its write calls *)

\* A turn is admitted only past both gates, and beginCheckpoint bumps the
\* revision before it does anything else.
StartTurn ==
  /\ ~running /\ ~rotating /\ Begin
  /\ running' = TRUE /\ sessionRev' = sessionRev + 1
  /\ UNCHANGED <<rotating, barrier, registry, wpc, frontend, version>>

EndTurn ==
  /\ running /\ \A t \in Tools : wpc[t] = "out"
  /\ running' = FALSE
  /\ UNCHANGED <<rotating, sessionRev, barrier, registry, wpc, frontend, version, begun>>

\* MutationBarrier.EnterWrite, once exclusive access is free.
EnterWrite(w) ==
  /\ ~exclusive
  /\ writers' = writers + 1 /\ Move(w, "in")
  /\ UNCHANGED <<exclusive, generation>>

\* Wrong on purpose: a completed write leaves the generation alone.
ExitWriteSilently(w) ==
  /\ writers' = IF writers > 0 THEN writers - 1 ELSE 0
  /\ Move(w, "out")
  /\ UNCHANGED <<exclusive, generation>>

ExitWrite(w) ==
  /\ writers' = IF writers > 0 THEN writers - 1 ELSE 0
  /\ generation' = IF writers > 0 THEN generation + 1 ELSE generation
  /\ Move(w, "out")
  /\ UNCHANGED exclusive

\* Wrong on purpose: a call of the foreground turn is listed as a writer.
EnterToolListed(t) ==
  /\ running /\ wpc[t] = "out" /\ Begin /\ EnterWrite(t)
  /\ listed' = listed \cup {t}
  /\ UNCHANGED <<gates, registered, regMu, frontend, version>>

EnterTool(t) ==
  /\ running /\ wpc[t] = "out" /\ Begin /\ EnterWrite(t)
  /\ UNCHANGED <<gates, registry, frontend, version>>

ExitTool(t) ==
  /\ wpc[t] \in {"in", "wrote"} /\ ExitWrite(t)
  /\ UNCHANGED <<gates, registry, frontend, version, begun>>

\* The workspace changes under a writer or a call that is inside.
Write(w) ==
  /\ wpc[w] = "in" /\ Move(w, "wrote") /\ version' = version + 1
  /\ UNCHANGED <<gates, barrier, registry, frontend, begun>>

-----------------------------------------------------------------------------
(* Background writers: the whole of each call is under the registry mutex *)

RegisterWriter(w) ==
  /\ wpc[w] = "out" /\ regMu = None /\ Begin
  /\ regMu' = w /\ registered' = registered \cup {w} /\ listed' = registered'
  /\ Move(w, "registering")
  /\ UNCHANGED <<gates, barrier, frontend, version>>

\* Wrong on purpose: the registry mutex is not released.
RegisteredForever(w) ==
  /\ wpc[w] = "registering" /\ EnterWrite(w)
  /\ UNCHANGED <<gates, regMu, registered, listed, frontend, version, begun>>

Registered(w) ==
  /\ wpc[w] = "registering" /\ EnterWrite(w)
  /\ regMu' = None
  /\ UNCHANGED <<gates, registered, listed, frontend, version, begun>>

UnregisterWriter(w) ==
  /\ wpc[w] \in {"in", "wrote"} /\ regMu = None
  /\ regMu' = w /\ registered' = registered \ {w} /\ listed' = registered'
  /\ Move(w, "leaving")
  /\ UNCHANGED <<gates, barrier, frontend, version, begun>>

Unregistered(w) ==
  /\ wpc[w] = "leaving" /\ ExitWrite(w)
  /\ regMu' = None
  /\ UNCHANGED <<gates, registered, listed, frontend, version, begun>>

-----------------------------------------------------------------------------
(* Previews *)

Gate == ~running /\ ~rotating      \* what beginRotation demands

\* PrepareRewind claims the rotation gate and lets it go before any I/O.  The
\* scope asks for files or for the conversation alone.
PrepareRewind(f, files) ==
  /\ fpc[f] = "idle" /\ Gate /\ Begin
  /\ Goto(f, "readWriters") /\ op' = [op EXCEPT ![f] = "preview"]
  /\ plan' = [plan EXCEPT ![f] = [NoPlan EXCEPT !.files = files]]
  /\ UNCHANGED <<gates, barrier, registry, wpc, snap, ok, version>>

\* Rewind, the compatibility wrapper, previews and commits under one gate.
Rewind(f, files) ==
  /\ fpc[f] = "idle" /\ Gate /\ Begin
  /\ rotating' = TRUE
  /\ Goto(f, "readWriters") /\ op' = [op EXCEPT ![f] = "rewind"]
  /\ plan' = [plan EXCEPT ![f] = [NoPlan EXCEPT !.files = files]]
  /\ UNCHANGED <<running, sessionRev, barrier, registry, wpc, snap, ok, version>>

\* obs.ActiveWriters waits for the registry mutex ...
ReadWriters(f) ==
  /\ fpc[f] = "readWriters" /\ regMu = None
  /\ snap' = [snap EXCEPT ![f] = registered] /\ Goto(f, "setWriters")
  /\ UNCHANGED <<gates, barrier, registry, wpc, op, plan, ok, version, begun>>

\* ... and the store gets the copy when the mutex is free again; then the
\* revision is read.
SetActiveWriters(f) ==
  /\ fpc[f] = "setWriters"
  /\ listed' = snap[f] /\ Goto(f, "token")
  /\ plan' = [plan EXCEPT ![f].rev = sessionRev]
  /\ UNCHANGED <<gates, barrier, registered, regMu, wpc, op, snap, ok, version, begun>>

\* Store.PrepareRewind: the generation first; with a listed writer there is no
\* usable plan.
ReadToken(f) ==
  /\ fpc[f] = "token"
  /\ IF listed = {}
     THEN /\ plan' = [plan EXCEPT ![f].gen = generation]
          /\ Goto(f, "precheck") /\ UNCHANGED <<rotating, op>>
     ELSE /\ plan' = [plan EXCEPT ![f] = NoPlan]
          /\ Goto(f, "idle") /\ op' = [op EXCEPT ![f] = "none"]
          /\ rotating' = (rotating /\ op[f] # "rewind")
  /\ UNCHANGED <<running, sessionRev, barrier, registry, wpc, snap, ok, version, begun>>

\* The files are compared after the token was read; the plan is stored.
Precheck(f) ==
  /\ fpc[f] = "precheck"
  /\ plan' = [plan EXCEPT ![f].version = version, ![f].made = TRUE]
  /\ IF op[f] = "rewind" THEN Goto(f, "try") /\ UNCHANGED op
     ELSE Goto(f, "idle") /\ op' = [op EXCEPT ![f] = "none"]
  /\ UNCHANGED <<gates, barrier, registry, wpc, snap, ok, version, begun>>

-----------------------------------------------------------------------------
(* Commits *)

\* CommitRewind takes the gate and validates the revision; a stale plan is
\* refused and stays where it is.
CommitRewind(f) ==
  /\ fpc[f] = "idle" /\ plan[f].made /\ Gate /\ Begin
  /\ plan[f].rev = sessionRev
  /\ rotating' = TRUE
  /\ Goto(f, "try") /\ op' = [op EXCEPT ![f] = "rewind"]
  /\ UNCHANGED <<running, sessionRev, barrier, registry, wpc, snap, plan, ok, version>>

\* Whether there is something to undo is RewindTransaction's question.
UndoRewind(f) ==
  /\ fpc[f] = "idle" /\ Gate /\ Begin
  /\ rotating' = TRUE
  /\ Goto(f, "try") /\ op' = [op EXCEPT ![f] = "undo"]
  /\ UNCHANGED <<running, sessionRev, barrier, registry, wpc, snap, plan, ok, version>>

\* Wrong on purpose: exclusive access is taken over the heads of the writers.
TryOverWriters(f) ==
  /\ fpc[f] = "try"
  /\ exclusive' = TRUE /\ Goto(f, "check")
  /\ UNCHANGED <<gates, writers, generation, registry, wpc, op, snap, plan, ok, version,
                 begun>>

\* TryEnterExclusive; a busy workspace refuses the operation.
TryEnterExclusive(f) ==
  /\ fpc[f] = "try"
  /\ IF ~exclusive /\ writers = 0
     THEN exclusive' = TRUE /\ Goto(f, "check") /\ UNCHANGED <<rotating, op, plan>>
     ELSE /\ rotating' = FALSE /\ Goto(f, "idle") /\ op' = [op EXCEPT ![f] = "none"]
          /\ plan' = IF op[f] = "rewind" THEN [plan EXCEPT ![f] = NoPlan] ELSE plan
          /\ UNCHANGED exclusive
  /\ UNCHANGED <<running, sessionRev, writers, generation, registry, wpc, snap, ok,
                 version, begun>>

\* A listed writer, or a plan for files of another generation, is refused.
Check(f) ==
  /\ fpc[f] = "check"
  /\ Goto(f, IF listed = {} /\ (op[f] = "rewind" /\ plan[f].files => plan[f].gen = generation)
             THEN "mutate" ELSE "exit")
  /\ UNCHANGED <<gates, barrier, registry, wpc, op, snap, plan, ok, version, begun>>

\* The transaction itself, which may fail and be compensated.
Mutate(f) ==
  /\ fpc[f] = "mutate" /\ Goto(f, "exit")
  /\ \/ /\ ok' = [ok EXCEPT ![f] = TRUE]
        /\ version' = IF op[f] = "rewind" /\ ~plan[f].files THEN version ELSE version + 1
     \/ UNCHANGED <<version, ok>>
  /\ UNCHANGED <<gates, barrier, registry, wpc, op, snap, plan, begun>>

ExitExclusive(f) ==
  /\ fpc[f] = "exit" /\ Goto(f, "finish")
  /\ exclusive' = FALSE /\ generation' = generation + 1
  /\ UNCHANGED <<gates, writers, registry, wpc, op, snap, plan, ok, version, begun>>

\* The plan is used up, the revision moves on success, the gate opens.
Finish(f) ==
  /\ fpc[f] = "finish" /\ Goto(f, "idle")
  /\ sessionRev' = IF ok[f] THEN sessionRev + 1 ELSE sessionRev
  /\ rotating' = FALSE
  /\ plan' = IF op[f] = "rewind" THEN [plan EXCEPT ![f] = NoPlan] ELSE plan
  /\ op' = [op EXCEPT ![f] = "none"] /\ ok' = [ok EXCEPT ![f] = FALSE]
  /\ UNCHANGED <<running, barrier, registry, wpc, snap, version, begun>>

-----------------------------------------------------------------------------
Turn == StartTurn \/ EndTurn \/ \E t \in Tools : EnterTool(t) \/ ExitTool(t)

Background(w) == Registered(w) \/ UnregisterWriter(w) \/ Unregistered(w)

Call(f) ==
  \/ ReadWriters(f) \/ SetActiveWriters(f) \/ ReadToken(f) \/ Precheck(f)
  \/ TryEnterExclusive(f) \/ Check(f) \/ Mutate(f) \/ ExitExclusive(f) \/ Finish(f)

Next ==
  \/ Turn
  \/ \E w \in Actors : Write(w)
  \/ \E w \in Writers : RegisterWriter(w) \/ Background(w)
  \/ \E f \in Frontends, files \in BOOLEAN : PrepareRewind(f, files) \/ Rewind(f, files)
  \/ \E f \in Frontends : CommitRewind(f) \/ UndoRewind(f) \/ Call(f)

\* Calls run to their end; background writers finish and unregister.
Fairness ==
  /\ \A w \in Writers : WF_vars(Background(w))
  /\ \A f \in Frontends : WF_vars(Call(f))

Spec == Init /\ [][Next]_vars /\ Fairness

-----------------------------------------------------------------------------
(* Properties *)

Plan == [files : BOOLEAN, rev : Nat, gen : Nat, version : Nat, made : BOOLEAN]

\* Every variable has its type.
TypeOK ==
  /\ running \in BOOLEAN /\ rotating \in BOOLEAN /\ sessionRev \in Nat
  /\ writers \in Nat /\ exclusive \in BOOLEAN /\ generation \in Nat
  /\ registered \subseteq Writers /\ regMu \in Writers \cup {None}
  /\ listed \subseteq Writers
  /\ wpc \in [Actors -> {"out", "registering", "in", "wrote", "leaving"}]
  /\ fpc \in [Frontends -> {"idle", "readWriters", "setWriters", "token", "precheck",
                            "try", "check", "mutate", "exit", "finish"}]
  /\ op \in [Frontends -> {"none", "preview", "rewind", "undo"}]
  /\ snap \in [Frontends -> SUBSET Writers] /\ plan \in [Frontends -> Plan]
  /\ ok \in [Frontends -> BOOLEAN]
  /\ version \in Nat /\ begun \in 0..MaxOps

Inside(w) == wpc[w] \in {"in", "wrote", "leaving"}
Changing(f) == fpc[f] = "mutate"

\* While a rewind or an undo changes files and conversation, no writer and no
\* tool call is inside the barrier, no turn runs and no other rewind changes
\* anything (TryEnterExclusive, beginRotation).
RewindAlone ==
  \A f \in Frontends : Changing(f) =>
    /\ \A w \in Actors : ~Inside(w)
    /\ ~running
    /\ \A g \in Frontends : Changing(g) => g = f

\* A rewind commits only onto the workspace and the conversation its preview
\* described: no turn began in between, by whomever, and nothing was written if
\* it restores files (WorkspaceToken, ValidatePlanSessionRevision).
CommitsWhatWasPreviewed ==
  \A f \in Frontends : Changing(f) /\ op[f] = "rewind" =>
    /\ plan[f].files => plan[f].version = version
    /\ plan[f].rev = sessionRev

\* Every call returns and every registration completes: nobody waits for the
\* registry mutex or the barrier forever.
EverybodyReturns ==
  /\ \A f \in Frontends : fpc[f] # "idle" ~> fpc[f] = "idle"
  /\ \A w \in Writers : wpc[w] = "registering" ~> wpc[w] = "in"
=============================================================================
