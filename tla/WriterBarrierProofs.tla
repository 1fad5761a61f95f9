------------------------- MODULE WriterBarrierProofs -------------------------
(***************************************************************************)
(* Theorems about WriterBarrier, for any sets of frontends, of background  *)
(* writers and of tool calls.                                              *)
(***************************************************************************)
EXTENDS WriterBarrier, FiniteSetTheorems, TLAPS

-----------------------------------------------------------------------------
(* The inductive invariant *)

\* The barrier counts exactly those who are inside.
Counted == writers = Cardinality({w \in Actors : Inside(w)})

\* Between TryEnterExclusive and ExitExclusive a frontend has the barrier.
Exclusively(f) == fpc[f] \in {"check", "mutate", "exit"}
Excluded ==
  /\ exclusive => \A w \in Actors : ~Inside(w)
  /\ \A f \in Frontends : Exclusively(f) => exclusive

\* One frontend at a time is past beginRotation for more than a preview, and
\* no turn runs then.
Rotator(f) == op[f] \in {"rewind", "undo"}
Committing(f) == fpc[f] \in {"try", "check", "mutate", "exit", "finish"}
Rotation ==
  /\ \A f \in Frontends : Rotator(f) => rotating /\ ~running
  /\ \A f, g \in Frontends : Rotator(f) /\ Rotator(g) => f = g
  /\ \A f \in Frontends : Committing(f) => Rotator(f)
  /\ \A f \in Frontends : op[f] = "undo" => Committing(f)
  /\ \A f \in Frontends : fpc[f] = "idle" => op[f] = "none"

\* The plan of a rewind has the revision of the session from the moment it
\* reads it, or finds it unchanged, to the end of the rewind.
Revisions ==
  \A f \in Frontends :
    op[f] = "rewind" /\ fpc[f] \notin {"readWriters", "setWriters"} =>
      plan[f].rev = sessionRev

\* A plan whose generation is still current describes the workspace, unless
\* somebody who has changed it is still inside: everybody who leaves moves the
\* generation.
Dirty ==
  \/ \E w \in Actors : wpc[w] \in {"wrote", "leaving"}
  \/ \E g \in Frontends : fpc[g] = "exit"
Previewing(f) == fpc[f] \in {"readWriters", "setWriters", "token", "precheck"}
Versions ==
  /\ \A f \in Frontends : plan[f].gen <= generation
  /\ \A f \in Frontends : Previewing(f) => ~plan[f].made
  /\ \A f \in Frontends : Committing(f) /\ op[f] = "rewind" => plan[f].made
  /\ \A f \in Frontends :
       plan[f].made /\ plan[f].gen = generation /\ ~Dirty => plan[f].version = version
  /\ \A f \in Frontends :
       Changing(f) /\ op[f] = "rewind" /\ plan[f].files => plan[f].version = version

Inv == TypeOK /\ Counted /\ Excluded /\ Rotation /\ Revisions /\ Versions

\* The plan before a preview is a plan, for whatever scope.
LEMMA PlanFacts ==
  /\ NoPlan \in Plan
  /\ \A b \in BOOLEAN : [NoPlan EXCEPT !.files = b] \in Plan
  /\ \A b \in BOOLEAN : [NoPlan EXCEPT !.files = b].gen = 0
  /\ \A b \in BOOLEAN : ~[NoPlan EXCEPT !.files = b].made
  BY DEF NoPlan, Plan

\* In the initial state nobody is anywhere.
LEMMA InitInv == Init => Inv
<1> SUFFICES ASSUME Init PROVE Inv
  OBVIOUS
<1>1. TypeOK
  <2>1. plan \in [Frontends -> Plan]
    BY PlanFacts DEF Init
  <2>2. wpc \in [Actors -> {"out", "registering", "in", "wrote", "leaving"}]
    BY DEF Init
  <2>3. begun \in 0..MaxOps
    BY ConstantsAssumption DEF Init
  <2> QED
    BY <2>1, <2>2, <2>3 DEF Init, TypeOK
<1>2. Counted
  <2>1. {w \in Actors : Inside(w)} = {}
    BY DEF Init, Inside
  <2> QED
    BY <2>1, FS_EmptySet DEF Init, Counted
<1>3. Excluded /\ Rotation /\ Revisions
  BY DEF Init, Excluded, Exclusively, Rotation, Rotator, Committing, Revisions
<1>4. Versions
  BY DEF Init, Versions, NoPlan, Previewing, Committing, Changing
<1> QED
  BY <1>1, <1>2, <1>3, <1>4 DEF Inv

-----------------------------------------------------------------------------
(* Those who are inside the barrier *)

\* Entering adds one to those inside, and to their number.
LEMMA Entered ==
  ASSUME Inv, NEW w \in Actors, ~Inside(w), wpc' = [wpc EXCEPT ![w] = "in"],
         writers' = writers + 1
  PROVE  Counted'
<1> DEFINE S == {v \in Actors : Inside(v)}
<1>1. IsFiniteSet(S)
  BY ConstantsAssumption, FS_Union, FS_Subset DEF Actors
<1>2. {v \in Actors : Inside(v)'} = S \cup {w}
  BY DEF Inv, TypeOK, Inside
<1>3. w \notin S
  OBVIOUS
<1>4. Cardinality(S \cup {w}) = Cardinality(S) + 1
  BY <1>1, <1>3, FS_AddElement
<1> QED
  BY <1>2, <1>4 DEF Inv, Counted

\* Leaving takes one away, and there was at least that one.
LEMMA Left ==
  ASSUME Inv, NEW w \in Actors, Inside(w), ExitWrite(w)
  PROVE  Counted' /\ generation' = generation + 1
<1> DEFINE S == {v \in Actors : Inside(v)}
<1>1. IsFiniteSet(S)
  BY ConstantsAssumption, FS_Union, FS_Subset DEF Actors
<1>2. {v \in Actors : Inside(v)'} = S \ {w}
  BY DEF Inv, TypeOK, Inside, ExitWrite, Move
<1>3. w \in S
  OBVIOUS
<1>4. Cardinality(S \ {w}) = Cardinality(S) - 1 /\ Cardinality(S) \in Nat
  BY <1>1, <1>3, FS_RemoveElement, FS_CardinalityType
<1>5. Cardinality(S) # 0
  BY <1>1, <1>3, FS_EmptySet
<1>6. writers = Cardinality(S)
  BY DEF Inv, Counted
<1> QED
  BY <1>2, <1>4, <1>5, <1>6 DEF ExitWrite, Counted

\* The count stands while nobody enters or leaves.
LEMMA SameInside ==
  ASSUME Inv, writers' = writers, \A w \in Actors : Inside(w)' <=> Inside(w)
  PROVE  Counted'
  BY DEF Inv, Counted

\* A count of zero means that nobody is inside.
LEMMA NobodyInside ==
  ASSUME Inv, writers = 0
  PROVE  \A w \in Actors : ~Inside(w)
<1> DEFINE S == {v \in Actors : Inside(v)}
<1>1. IsFiniteSet(S)
  BY ConstantsAssumption, FS_Union, FS_Subset DEF Actors
<1>2. S = {}
  BY <1>1, FS_EmptySet DEF Inv, Counted
<1> QED
  BY <1>2

-----------------------------------------------------------------------------
(* Each step keeps the invariant *)

\* TypeOK in two parts: the frontends, and everything they share.
Labels == {"idle", "readWriters", "setWriters", "token", "precheck",
           "try", "check", "mutate", "exit", "finish"}
FrontendTypes ==
  /\ fpc \in [Frontends -> Labels] /\ op \in [Frontends -> {"none", "preview", "rewind", "undo"}]
  /\ snap \in [Frontends -> SUBSET Writers] /\ plan \in [Frontends -> Plan]
  /\ ok \in [Frontends -> BOOLEAN]
SharedTypes ==
  /\ running \in BOOLEAN /\ rotating \in BOOLEAN /\ sessionRev \in Nat
  /\ writers \in Nat /\ exclusive \in BOOLEAN /\ generation \in Nat
  /\ registered \subseteq Writers /\ regMu \in Writers \cup {None}
  /\ listed \subseteq Writers
  /\ wpc \in [Actors -> {"out", "registering", "in", "wrote", "leaving"}]
  /\ version \in Nat /\ begun \in 0..MaxOps

\* The two parts make the whole.
LEMMA TypeParts == TypeOK <=> FrontendTypes /\ SharedTypes
  BY DEF TypeOK, FrontendTypes, SharedTypes, Labels

\* Every action gives every variable of the frontends a value of its type.
LEMMA FrontendTypeStep == FrontendTypes /\ SharedTypes /\ [Next]_vars => FrontendTypes'
<1> SUFFICES ASSUME FrontendTypes, SharedTypes, [Next]_vars PROVE FrontendTypes'
  OBVIOUS
<1> USE DEF Goto, FrontendTypes, Labels
<1>1. CASE UNCHANGED frontend
  BY <1>1 DEF frontend
<1>2. ASSUME NEW f \in Frontends, NEW files \in BOOLEAN,
             PrepareRewind(f, files) \/ Rewind(f, files)
      PROVE  FrontendTypes'
  <2>1. plan' \in [Frontends -> Plan]
    BY <1>2, PlanFacts DEF PrepareRewind, Rewind
  <2> QED
    BY <1>2, <2>1 DEF PrepareRewind, Rewind
<1>3. ASSUME NEW f \in Frontends, CommitRewind(f) \/ UndoRewind(f) PROVE FrontendTypes'
  BY <1>3 DEF CommitRewind, UndoRewind
<1>4. ASSUME NEW f \in Frontends, ReadWriters(f) PROVE FrontendTypes'
  BY <1>4 DEF ReadWriters, SharedTypes
<1>5. ASSUME NEW f \in Frontends, SetActiveWriters(f) PROVE FrontendTypes'
  <2>1. plan' \in [Frontends -> Plan]
    BY <1>5 DEF SetActiveWriters, SharedTypes, Plan
  <2> QED
    BY <1>5, <2>1 DEF SetActiveWriters
<1>6. ASSUME NEW f \in Frontends, ReadToken(f) PROVE FrontendTypes'
  <2>1. plan' \in [Frontends -> Plan]
    <3>1. [plan EXCEPT ![f].gen = generation] \in [Frontends -> Plan]
      BY DEF SharedTypes, Plan
    <3> QED
      BY <1>6, <3>1, PlanFacts DEF ReadToken
  <2> QED
    BY <1>6, <2>1 DEF ReadToken
<1>7. ASSUME NEW f \in Frontends, Precheck(f) PROVE FrontendTypes'
  <2>1. plan' \in [Frontends -> Plan]
    <3>1. [plan[f] EXCEPT !.version = version, !.made = TRUE] \in Plan
      BY DEF SharedTypes, Plan
    <3>2. plan' = [plan EXCEPT ![f] = [plan[f] EXCEPT !.version = version, !.made = TRUE]]
      BY <1>7 DEF Precheck
    <3> QED
      BY <3>1, <3>2
  <2> QED
    BY <1>7, <2>1 DEF Precheck
<1>8. ASSUME NEW f \in Frontends, TryEnterExclusive(f) \/ Finish(f) PROVE FrontendTypes'
  <2>1. plan' \in [Frontends -> Plan]
    BY <1>8, PlanFacts DEF TryEnterExclusive, Finish
  <2> QED
    BY <1>8, <2>1 DEF TryEnterExclusive, Finish
<1>9. ASSUME NEW f \in Frontends, Check(f) \/ Mutate(f) \/ ExitExclusive(f) PROVE FrontendTypes'
  BY <1>9 DEF Check, Mutate, ExitExclusive
<1>10. ASSUME Turn \/ (\E w \in Actors : Write(w))
              \/ (\E w \in Writers : RegisterWriter(w) \/ Background(w)) \/ UNCHANGED vars
       PROVE  UNCHANGED frontend
  BY <1>10 DEF Turn, StartTurn, EndTurn, EnterTool, ExitTool, Write, RegisterWriter,
     Background, Registered, UnregisterWriter, Unregistered, vars
<1> QED
  BY <1>1, <1>2, <1>3, <1>4, <1>5, <1>6, <1>7, <1>8, <1>9, <1>10 DEF Next, Call

\* Every action gives every shared variable a value of its type.
LEMMA SharedTypeStep == FrontendTypes /\ SharedTypes /\ [Next]_vars => SharedTypes'
<1> SUFFICES ASSUME FrontendTypes, SharedTypes, [Next]_vars PROVE SharedTypes'
  OBVIOUS
<1> USE DEF SharedTypes, gates, barrier, registry, Begin, Move
<1>1. MaxOps \in Nat /\ Writers \subseteq Actors /\ Tools \subseteq Actors
  BY ConstantsAssumption DEF Actors
<1>0. sessionRev + 1 \in Nat /\ generation + 1 \in Nat /\ (Begin => begun' \in 0..MaxOps)
  BY <1>1
<1>2. CASE StartTurn \/ EndTurn
  <2>1. sessionRev' \in Nat /\ begun' \in 0..MaxOps
    BY <1>0, <1>2 DEF StartTurn, EndTurn
  <2> QED
    BY <1>2, <2>1, Zenon DEF StartTurn, EndTurn
<1>3. ASSUME NEW w \in Tools, EnterTool(w) PROVE SharedTypes'
  BY <1>1, <1>3 DEF EnterTool, EnterWrite
<1>4. ASSUME NEW w \in Tools, ExitTool(w) PROVE SharedTypes'
  BY <1>1, <1>4 DEF ExitTool, ExitWrite
<1>5. ASSUME NEW w \in Actors, Write(w) PROVE SharedTypes'
  BY <1>1, <1>5 DEF Write
<1>6. ASSUME NEW w \in Writers, RegisterWriter(w) PROVE SharedTypes'
  BY <1>1, <1>6 DEF RegisterWriter
<1>7. ASSUME NEW w \in Writers, UnregisterWriter(w) PROVE SharedTypes'
  BY <1>1, <1>7 DEF UnregisterWriter
<1>8. ASSUME NEW w \in Writers, Registered(w) PROVE SharedTypes'
  BY <1>1, <1>8 DEF Registered, EnterWrite
<1>9. ASSUME NEW w \in Writers, Unregistered(w) PROVE SharedTypes'
  BY <1>1, <1>9 DEF Unregistered, ExitWrite
<1>10. ASSUME NEW f \in Frontends, NEW files \in BOOLEAN,
              PrepareRewind(f, files) \/ Rewind(f, files)
       PROVE  SharedTypes'
  <2>1. begun' \in 0..MaxOps
    BY <1>0, <1>10 DEF PrepareRewind, Rewind
  <2> QED
    BY <1>10, <2>1, Zenon DEF PrepareRewind, Rewind
<1>11. ASSUME NEW f \in Frontends, CommitRewind(f) \/ UndoRewind(f) PROVE SharedTypes'
  <2>1. begun' \in 0..MaxOps
    BY <1>0, <1>11 DEF CommitRewind, UndoRewind
  <2> QED
    BY <1>11, <2>1, Zenon DEF CommitRewind, UndoRewind
<1>12. ASSUME NEW f \in Frontends, ReadWriters(f) \/ ReadToken(f) \/ Precheck(f) \/ Check(f)
       PROVE  SharedTypes'
  BY <1>12 DEF ReadWriters, ReadToken, Precheck, Check
<1>13. ASSUME NEW f \in Frontends, SetActiveWriters(f) PROVE SharedTypes'
  BY <1>13 DEF SetActiveWriters, FrontendTypes
<1>14. ASSUME NEW f \in Frontends, TryEnterExclusive(f) PROVE SharedTypes'
  BY <1>14 DEF TryEnterExclusive
<1>15. ASSUME NEW f \in Frontends, Mutate(f) PROVE SharedTypes'
  BY <1>15 DEF Mutate
<1>16. ASSUME NEW f \in Frontends, ExitExclusive(f) \/ Finish(f) PROVE SharedTypes'
  <2>1. sessionRev' \in Nat /\ generation' \in Nat
    BY <1>0, <1>16 DEF ExitExclusive, Finish
  <2> QED
    BY <1>16, <2>1, Zenon DEF ExitExclusive, Finish
<1>17. CASE UNCHANGED vars
  BY <1>17 DEF vars
<1> QED
  BY <1>2, <1>3, <1>4, <1>5, <1>6, <1>7, <1>8, <1>9, <1>10, <1>11, <1>12, <1>13, <1>14,
     <1>15, <1>16, <1>17 DEF Next, Turn, Background, Call
\* The steps of a frontend.
Frontend(f) ==
  \/ \E files \in BOOLEAN : PrepareRewind(f, files) \/ Rewind(f, files)
  \/ CommitRewind(f) \/ UndoRewind(f) \/ Call(f)

\* Enter, leave, or neither: the barrier's count follows.
LEMMA CountedStep == Inv /\ [Next]_vars => Counted'
<1> SUFFICES ASSUME Inv, [Next]_vars PROVE Counted'
  OBVIOUS
<1>1. wpc \in [Actors -> {"out", "registering", "in", "wrote", "leaving"}]
      /\ Writers \subseteq Actors /\ Tools \subseteq Actors
  BY DEF Inv, TypeOK, Actors
<1>2. ASSUME NEW w \in Actors, EnterTool(w) \/ Registered(w) PROVE Counted'
  <2>1. ~Inside(w)
    BY <1>2 DEF EnterTool, Registered, Inside
  <2> QED
    BY <1>2, <2>1, Entered DEF EnterTool, Registered, EnterWrite, Move
<1>3. ASSUME NEW w \in Actors, ExitTool(w) \/ Unregistered(w) PROVE Counted'
  <2>1. Inside(w) /\ ExitWrite(w)
    BY <1>3 DEF ExitTool, Unregistered, Inside
  <2> QED
    BY <2>1, Left
<1>4. ASSUME NEW w \in Actors, Write(w) \/ RegisterWriter(w) \/ UnregisterWriter(w)
      PROVE  Counted'
  <2>1. writers' = writers /\ \A v \in Actors : Inside(v)' <=> Inside(v)
    BY <1>1, <1>4 DEF Write, RegisterWriter, UnregisterWriter, Move, barrier, Inside
  <2> QED
    BY <2>1, SameInside
<1>5. ASSUME StartTurn \/ EndTurn \/ UNCHANGED vars PROVE Counted'
  <2>1. UNCHANGED <<wpc, writers>>
    BY <1>5 DEF StartTurn, EndTurn, vars, barrier
  <2> QED
    BY <2>1, SameInside DEF Inside
<1>6. ASSUME NEW f \in Frontends, Frontend(f) PROVE Counted'
  <2>1. UNCHANGED <<wpc, writers>>
    BY <1>6 DEF Frontend, PrepareRewind, Rewind, CommitRewind, UndoRewind, Call,
       ReadWriters, SetActiveWriters, ReadToken, Precheck, TryEnterExclusive, Check, Mutate,
       ExitExclusive, Finish, barrier
  <2> QED
    BY <2>1, SameInside DEF Inside
<1> QED
  BY <1>1, <1>2, <1>3, <1>4, <1>5, <1>6 DEF Next, Turn, Background, Frontend

\* Only a frontend outside exclusive access lets anybody enter, and it gets
\* exclusive access only when nobody is inside.
LEMMA ExcludedStep == Inv /\ [Next]_vars => Excluded'
<1> SUFFICES ASSUME Inv, [Next]_vars PROVE Excluded'
  OBVIOUS
<1> USE DEF Goto, Move
<1>1. /\ wpc \in [Actors -> {"out", "registering", "in", "wrote", "leaving"}]
      /\ Writers \subseteq Actors /\ Tools \subseteq Actors
      /\ fpc \in [Frontends -> Labels]
      /\ Excluded /\ Rotation
  BY DEF Inv, TypeOK, Actors, Labels
<1>2. ASSUME NEW w \in Actors, EnterTool(w) \/ Registered(w) PROVE Excluded'
  BY <1>1, <1>2 DEF EnterTool, Registered, EnterWrite, frontend, Excluded, Exclusively
<1>3. ASSUME NEW w \in Actors,
             \/ ExitTool(w) \/ Unregistered(w) \/ Write(w)
             \/ RegisterWriter(w) \/ UnregisterWriter(w)
      PROVE  Excluded'
  <2>1. UNCHANGED <<exclusive, fpc>> /\ \A v \in Actors : Inside(v)' => Inside(v)
    BY <1>1, <1>3 DEF ExitTool, Unregistered, ExitWrite, Write, RegisterWriter,
       UnregisterWriter, barrier, frontend, Inside
  <2> QED
    BY <1>1, <2>1 DEF Excluded, Exclusively
<1>4. ASSUME StartTurn \/ EndTurn \/ UNCHANGED vars PROVE Excluded'
  <2>1. UNCHANGED <<exclusive, fpc, wpc>>
    BY <1>4 DEF StartTurn, EndTurn, vars, barrier, frontend
  <2> QED
    BY <1>1, <2>1 DEF Excluded, Exclusively, Inside
<1>5. ASSUME NEW f \in Frontends, TryEnterExclusive(f) PROVE Excluded'
  <2>1. exclusive' => exclusive \/ writers = 0
    BY <1>5 DEF TryEnterExclusive
  <2>2. exclusive' => \A w \in Actors : ~Inside(w)
    BY <1>1, <2>1, NobodyInside DEF Excluded
  <2>3. UNCHANGED wpc /\ (exclusive => exclusive') /\ (fpc'[f] = "check" => exclusive')
    BY <1>1, <1>5 DEF TryEnterExclusive, Labels
  <2>4. fpc'[f] \in {"check", "idle"} /\ \A g \in Frontends : g # f => fpc'[g] = fpc[g]
    BY <1>1, <1>5 DEF TryEnterExclusive
  <2> QED
    BY <1>1, <2>2, <2>3, <2>4 DEF Excluded, Exclusively, Inside
<1>6. ASSUME NEW f \in Frontends, ExitExclusive(f) PROVE Excluded'
  <2>1. \A g \in Frontends : Exclusively(g) => g = f
    BY <1>1, <1>6 DEF ExitExclusive, Exclusively, Rotation, Committing
  <2>2. fpc'[f] = "finish" /\ \A g \in Frontends : g # f => fpc'[g] = fpc[g]
    BY <1>1, <1>6 DEF ExitExclusive
  <2>3. ~exclusive'
    BY <1>6 DEF ExitExclusive
  <2> QED
    BY <2>1, <2>2, <2>3 DEF Excluded, Exclusively
<1>7. ASSUME NEW f \in Frontends, Frontend(f), ~TryEnterExclusive(f), ~ExitExclusive(f)
      PROVE  Excluded'
  <2>1. UNCHANGED <<exclusive, wpc>>
    BY <1>7 DEF Frontend, PrepareRewind, Rewind, CommitRewind, UndoRewind, Call,
       ReadWriters, SetActiveWriters, ReadToken, Precheck, Check, Mutate, Finish, barrier
  <2>2. /\ \A g \in Frontends : g # f => fpc'[g] = fpc[g]
        /\ fpc'[f] \in {"mutate", "exit"} => Exclusively(f)
        /\ fpc'[f] # "check"
    BY <1>1, <1>7 DEF Frontend, PrepareRewind, Rewind, CommitRewind, UndoRewind, Call,
       ReadWriters, SetActiveWriters, ReadToken, Precheck, Check, Mutate, Finish, Exclusively
  <2> QED
    BY <1>1, <2>1, <2>2 DEF Excluded, Exclusively, Inside
<1> QED
  BY <1>1, <1>2, <1>3, <1>4, <1>5, <1>6, <1>7 DEF Next, Turn, Background, Frontend
\* A frontend moves itself alone: everybody else is where they were, in the
\* same operation, with the same plan.
LEMMA OthersStay ==
  ASSUME Inv, NEW f \in Frontends, Frontend(f)
  PROVE  /\ \A g \in Frontends : g # f =>
              fpc'[g] = fpc[g] /\ op'[g] = op[g] /\ plan'[g] = plan[g]
         /\ UNCHANGED <<running, wpc>>
<1>1. /\ fpc \in [Frontends -> Labels] /\ plan \in [Frontends -> Plan]
      /\ op \in [Frontends -> {"none", "preview", "rewind", "undo"}]
  BY DEF Inv, TypeOK, Labels
<1> QED
  BY <1>1 DEF Frontend, PrepareRewind, Rewind, CommitRewind, UndoRewind, Call, ReadWriters,
     SetActiveWriters, ReadToken, Precheck, TryEnterExclusive, Check, Mutate, ExitExclusive,
     Finish, Goto, gates

\* Nobody else moves a frontend.
LEMMA FrontendsStay ==
  ASSUME Turn \/ (\E w \in Actors : Write(w))
         \/ (\E w \in Writers : RegisterWriter(w) \/ Background(w)) \/ UNCHANGED vars
  PROVE  UNCHANGED frontend
  BY DEF Turn, StartTurn, EndTurn, EnterTool, ExitTool, Write, RegisterWriter,
     Background, Registered, UnregisterWriter, Unregistered, vars

\* The two gates of the controller keep turns and rewinds apart.
LEMMA RotationStep == Inv /\ [Next]_vars => Rotation'
<1> SUFFICES ASSUME Inv, [Next]_vars PROVE Rotation'
  OBVIOUS
<1>1. /\ fpc \in [Frontends -> Labels] /\ Rotation
      /\ op \in [Frontends -> {"none", "preview", "rewind", "undo"}]
  BY DEF Inv, TypeOK, Labels
<1>2. ASSUME Turn \/ (\E w \in Actors : Write(w))
             \/ (\E w \in Writers : RegisterWriter(w) \/ Background(w)) \/ UNCHANGED vars
      PROVE  Rotation'
  <2>1. UNCHANGED <<fpc, op>>
    BY <1>2, FrontendsStay DEF frontend
  <2>2. UNCHANGED rotating /\ (rotating => (running' => running))
    BY <1>2 DEF Turn, StartTurn, EndTurn, EnterTool, ExitTool, Write, RegisterWriter,
       Background, Registered, UnregisterWriter, Unregistered, vars, gates
  <2> QED
    BY <1>1, <2>1, <2>2 DEF Rotation, Rotator, Committing
<1>3. ASSUME NEW f \in Frontends, Frontend(f) PROVE Rotation'
  <2>1. \A g \in Frontends : g # f => fpc'[g] = fpc[g] /\ op'[g] = op[g]
    BY <1>3, OthersStay
  <2>2. UNCHANGED running
    BY <1>3, OthersStay
  <2>3. /\ op'[f] = "undo" => fpc'[f] \in {"try", "check", "mutate", "exit", "finish"}
        /\ fpc'[f] = "idle" => op'[f] = "none"
        /\ fpc'[f] \in {"try", "check", "mutate", "exit", "finish"} => op'[f] \in {"rewind", "undo"}
    BY <1>1, <1>3 DEF Frontend, PrepareRewind, Rewind, CommitRewind, UndoRewind, Call, ReadWriters,
       SetActiveWriters, ReadToken, Precheck, TryEnterExclusive, Check, Mutate, ExitExclusive,
       Finish, Goto, Rotation, Committing, Rotator
  <2>4. CASE Rotator(f)
    <3>1. (op'[f] \in {"rewind", "undo"} => rotating') /\ ~running
      BY <1>1, <1>3, <2>4 DEF Frontend, PrepareRewind, Rewind, CommitRewind, UndoRewind, Call, ReadWriters,
         SetActiveWriters, ReadToken, Precheck, TryEnterExclusive, Check, Mutate, ExitExclusive,
         Finish, Goto, Rotation, Rotator, gates
    <3>2. \A g \in Frontends : g # f => ~Rotator(g)
      BY <1>1, <2>4 DEF Rotation
    <3> QED
      BY <1>1, <2>1, <2>2, <2>3, <3>1, <3>2 DEF Rotation, Rotator, Committing
  <2>5. CASE ~Rotator(f) /\ op'[f] \in {"rewind", "undo"}
    <3>1. Gate /\ rotating'
      BY <1>1, <1>3, <2>5 DEF Frontend, PrepareRewind, Rewind, CommitRewind, UndoRewind, Call, ReadWriters,
         SetActiveWriters, ReadToken, Precheck, TryEnterExclusive, Check, Mutate, ExitExclusive,
         Finish, Goto, Rotator
    <3>2. \A g \in Frontends : ~Rotator(g)
      BY <1>1, <3>1 DEF Rotation, Gate
    <3> QED
      BY <1>1, <2>1, <2>2, <2>3, <3>1, <3>2 DEF Rotation, Rotator, Committing, Gate
  <2>6. CASE ~Rotator(f) /\ op'[f] \notin {"rewind", "undo"}
    <3>1. rotating => rotating'
      BY <1>1, <1>3, <2>6 DEF Frontend, PrepareRewind, Rewind, CommitRewind, UndoRewind, Call, ReadWriters,
         SetActiveWriters, ReadToken, Precheck, TryEnterExclusive, Check, Mutate, ExitExclusive,
         Finish, Goto, Rotator, Rotation, Committing, gates
    <3> QED
      BY <1>1, <2>1, <2>2, <2>3, <2>6, <3>1 DEF Rotation, Rotator, Committing
  <2> QED
    BY <2>4, <2>5, <2>6
<1> QED
  BY <1>2, <1>3 DEF Next, Frontend

\* The revision moves only when no rewind has read it, or at its very end.
LEMMA RevisionsStep == Inv /\ [Next]_vars => Revisions'
<1> SUFFICES ASSUME Inv, [Next]_vars PROVE Revisions'
  OBVIOUS
<1>1. /\ fpc \in [Frontends -> Labels] /\ plan \in [Frontends -> Plan]
      /\ op \in [Frontends -> {"none", "preview", "rewind", "undo"}]
      /\ Rotation /\ Revisions
  BY DEF Inv, TypeOK, Labels
<1>2. ASSUME Turn \/ (\E w \in Actors : Write(w))
             \/ (\E w \in Writers : RegisterWriter(w) \/ Background(w)) \/ UNCHANGED vars
      PROVE  Revisions'
  <2>1. UNCHANGED <<fpc, op, plan>>
    BY <1>2, FrontendsStay DEF frontend
  <2>2. rotating => UNCHANGED sessionRev
    BY <1>2 DEF Turn, StartTurn, EndTurn, EnterTool, ExitTool, Write, RegisterWriter,
       Background, Registered, UnregisterWriter, Unregistered, vars, gates
  <2> QED
    BY <1>1, <2>1, <2>2 DEF Revisions, Rotation, Rotator
<1>3. ASSUME NEW f \in Frontends, Finish(f) PROVE Revisions'
  <2>1. Frontend(f)
    BY <1>3 DEF Frontend, Call
  <2>2. \A g \in Frontends : g # f => ~Rotator(g) /\ op'[g] = op[g]
    BY <1>1, <1>3, <2>1, OthersStay DEF Finish, Rotation, Committing
  <2>3. op'[f] = "none"
    BY <1>1, <1>3 DEF Finish
  <2> QED
    BY <2>2, <2>3 DEF Revisions, Rotator
<1>4. ASSUME NEW f \in Frontends, Frontend(f), ~Finish(f) PROVE Revisions'
  <2>1. UNCHANGED sessionRev
    BY <1>4 DEF Frontend, PrepareRewind, Rewind, CommitRewind, UndoRewind, Call, ReadWriters,
       SetActiveWriters, ReadToken, Precheck, TryEnterExclusive, Check, Mutate, ExitExclusive, gates
  <2>2. \A g \in Frontends : g # f =>
           fpc'[g] = fpc[g] /\ op'[g] = op[g] /\ plan'[g] = plan[g]
    BY <1>4, OthersStay
  <2>3. op'[f] = "rewind" /\ fpc'[f] \notin {"readWriters", "setWriters"} =>
          plan'[f].rev = sessionRev
    BY <1>1, <1>4 DEF Frontend, PrepareRewind, Rewind, CommitRewind, UndoRewind, Call, ReadWriters,
       SetActiveWriters, ReadToken, Precheck, TryEnterExclusive, Check, Mutate, ExitExclusive,
       Goto, Plan, Revisions, Rotation, Rotator, Committing
  <2> QED
    BY <1>1, <2>1, <2>2, <2>3 DEF Revisions
<1> QED
  BY <1>2, <1>3, <1>4 DEF Next, Frontend
\* Nobody outdates a plan silently: the workspace changes only under somebody
\* who is still inside, and whoever leaves moves the generation.
LEMMA VersionsStep == Inv /\ [Next]_vars => Versions'
<1> SUFFICES ASSUME Inv, [Next]_vars PROVE Versions'
  OBVIOUS
<1>1. /\ fpc \in [Frontends -> Labels] /\ plan \in [Frontends -> Plan]
      /\ op \in [Frontends -> {"none", "preview", "rewind", "undo"}]
      /\ wpc \in [Actors -> {"out", "registering", "in", "wrote", "leaving"}]
      /\ generation \in Nat /\ version \in Nat
      /\ Writers \subseteq Actors /\ Tools \subseteq Actors
      /\ Rotation /\ Excluded /\ Versions
  BY DEF Inv, TypeOK, Labels, Actors
<1>2. \A f \in Frontends : plan[f].gen \in Nat
  BY <1>1 DEF Plan
<1>3. ASSUME NEW w \in Actors, ExitTool(w) \/ Unregistered(w) PROVE Versions'
  <2>1. Inside(w) /\ ExitWrite(w) /\ UNCHANGED <<frontend, version>>
    BY <1>3 DEF ExitTool, Unregistered, Inside
  <2>2. generation' = generation + 1
    BY <2>1, Left
  <2> QED
    BY <1>1, <1>2, <2>1, <2>2 DEF Versions, frontend, Previewing, Committing, Changing
<1>4. ASSUME NEW w \in Actors, Write(w) PROVE Versions'
  <2>1. UNCHANGED <<frontend, generation>> /\ Dirty'
    BY <1>1, <1>4 DEF Write, barrier, Move, Dirty
  <2>2. \A f \in Frontends : ~Changing(f)
    BY <1>1, <1>4 DEF Write, Excluded, Exclusively, Changing, Inside
  <2> QED
    BY <1>1, <2>1, <2>2 DEF Versions, frontend, Previewing, Committing, Changing
<1>5. ASSUME \/ Turn /\ ~\E t \in Tools : ExitTool(t)
             \/ \E w \in Writers : RegisterWriter(w) \/ Registered(w) \/ UnregisterWriter(w)
             \/ UNCHANGED vars
      PROVE  Versions'
  <2>1. UNCHANGED <<frontend, generation, version>>
    BY <1>5 DEF Turn, StartTurn, EndTurn, EnterTool, EnterWrite, RegisterWriter,
       Registered, UnregisterWriter, barrier, vars
  <2>2. \A w \in Actors : wpc[w] \in {"wrote", "leaving"} => wpc'[w] \in {"wrote", "leaving"}
    BY <1>1, <1>5 DEF Turn, StartTurn, EndTurn, EnterTool, EnterWrite, RegisterWriter,
       Registered, UnregisterWriter, Move, vars
  <2>3. Dirty => Dirty'
    BY <2>1, <2>2 DEF Dirty, frontend
  <2> QED
    BY <1>1, <2>1, <2>3 DEF Versions, frontend, Previewing, Committing, Changing
<1>6. ASSUME NEW f \in Frontends, Frontend(f) PROVE Versions'
  <2>1. /\ \A g \in Frontends : g # f =>
             fpc'[g] = fpc[g] /\ op'[g] = op[g] /\ plan'[g] = plan[g]
        /\ UNCHANGED wpc
    BY <1>6, OthersStay
  <2>2. CASE ExitExclusive(f)
    <3>1. generation' = generation + 1 /\ UNCHANGED <<version, plan, op>> /\ fpc'[f] = "finish"
      BY <1>1, <2>2 DEF ExitExclusive, Goto
    <3>2. fpc[f] = "exit"
      BY <2>2 DEF ExitExclusive
    <3> QED
      BY <1>1, <1>2, <2>1, <3>1, <3>2 DEF Versions, Previewing, Committing, Changing
  <2>3. CASE Mutate(f)
    <3>1. UNCHANGED <<generation, plan, op>> /\ fpc'[f] = "exit" /\ fpc[f] = "mutate"
      BY <1>1, <2>3 DEF Mutate, Goto, barrier
    <3>2. \A g \in Frontends : ~Changing(g)'
      BY <1>1, <2>1, <3>1 DEF Changing, Rotation, Committing
    <3>3. Dirty'
      BY <3>1 DEF Dirty
    <3> QED
      BY <1>1, <2>1, <3>1, <3>2, <3>3 DEF Versions, Previewing, Committing
  <2>4. CASE Check(f)
    <3>1. UNCHANGED <<generation, plan, op, version>> /\ fpc[f] = "check"
      BY <2>4 DEF Check, barrier
    <3>2. ~Dirty
      <4>1. \A w \in Actors : ~Inside(w)
        BY <1>1, <3>1 DEF Excluded, Exclusively
      <4>2. \A g \in Frontends : fpc[g] # "exit"
        BY <1>1, <3>1 DEF Rotation, Committing
      <4> QED
        BY <4>1, <4>2 DEF Dirty, Inside
    <3>3. /\ fpc'[f] \in {"mutate", "exit"}
          /\ fpc'[f] = "mutate" /\ op[f] = "rewind" /\ plan[f].files => plan[f].gen = generation
      BY <1>1, <2>4 DEF Check, Goto
    <3>4. \A g \in Frontends : plan[g].made /\ plan[g].gen = generation => plan[g].version = version
      BY <1>1, <3>2 DEF Versions
    <3>5. op[f] = "rewind" => plan[f].made
      BY <1>1, <3>1 DEF Versions, Committing
    <3>6. \A g \in Frontends : g # f => ~Changing(g)'
      BY <1>1, <2>1, <3>1 DEF Changing, Rotation, Committing
    <3> QED
      BY <1>1, <2>1, <3>1, <3>3, <3>4, <3>5, <3>6 DEF Versions, Previewing, Committing, Changing
  <2>5. CASE ~ExitExclusive(f) /\ ~Mutate(f) /\ ~Check(f)
    <3>1. UNCHANGED <<generation, version>> /\ fpc[f] \notin {"exit", "mutate", "check"}
      BY <1>1, <1>6, <2>5 DEF Frontend, PrepareRewind, Rewind, CommitRewind, UndoRewind, Call,
         ReadWriters, SetActiveWriters, ReadToken, Precheck, TryEnterExclusive, Finish, barrier
    <3>2. fpc'[f] \notin {"exit", "mutate"}
      BY <1>1, <1>6, <2>5 DEF Frontend, PrepareRewind, Rewind, CommitRewind, UndoRewind, Call,
         ReadWriters, SetActiveWriters, ReadToken, Precheck, TryEnterExclusive, Finish, Goto
    <3>3. Dirty' <=> Dirty
      BY <2>1, <3>1, <3>2 DEF Dirty
    <3>4. /\ plan'[f].gen <= generation
          /\ fpc'[f] \in {"readWriters", "setWriters", "token", "precheck"} => ~plan'[f].made
          /\ fpc'[f] \in {"try", "check", "finish"} /\ op'[f] = "rewind" => plan'[f].made
          /\ plan'[f].made =>
               \/ plan'[f].version = version
               \/ /\ plan[f].made /\ plan'[f].gen = plan[f].gen
                  /\ plan'[f].version = plan[f].version
      <4>1. CASE \E files \in BOOLEAN : PrepareRewind(f, files) \/ Rewind(f, files)
        <5>1. PICK b \in BOOLEAN : plan'[f] = [NoPlan EXCEPT !.files = b]
          BY <1>1, <4>1 DEF PrepareRewind, Rewind
        <5>2. fpc'[f] = "readWriters"
          BY <1>1, <4>1 DEF PrepareRewind, Rewind, Goto
        <5> QED
          BY <1>1, <5>1, <5>2, PlanFacts
      <4>2. CASE CommitRewind(f) \/ UndoRewind(f)
        BY <1>1, <4>2 DEF CommitRewind, UndoRewind, Goto, Versions
      <4>3. CASE ReadWriters(f) \/ SetActiveWriters(f)
        BY <1>1, <4>3 DEF ReadWriters, SetActiveWriters, Goto, Versions, Previewing, Plan
      <4>4. CASE ReadToken(f)
        BY <1>1, <4>4 DEF ReadToken, Goto, Versions, Previewing, Plan, NoPlan
      <4>5. CASE Precheck(f)
        <5>1. plan'[f] = [plan[f] EXCEPT !.version = version, !.made = TRUE]
          BY <1>1, <4>5 DEF Precheck
        <5>2. /\ plan'[f].gen = plan[f].gen /\ plan'[f].version = version
              /\ plan'[f].made
          BY <1>1, <5>1 DEF Plan
        <5>3. fpc'[f] \in {"try", "idle"}
          BY <1>1, <4>5 DEF Precheck, Goto
        <5> QED
          BY <1>1, <5>2, <5>3 DEF Versions
      <4>6. CASE TryEnterExclusive(f) \/ Finish(f)
        BY <1>1, <4>6 DEF TryEnterExclusive, Finish, Goto, Versions, Committing, Plan, NoPlan
      <4> QED
        BY <1>6, <2>5, <4>1, <4>2, <4>3, <4>4, <4>5, <4>6 DEF Frontend, Call
    <3> QED
      BY <1>1, <2>1, <3>1, <3>2, <3>3, <3>4 DEF Versions, Previewing, Committing, Changing
  <2> QED
    BY <2>2, <2>3, <2>4, <2>5
<1> QED
  BY <1>1, <1>3, <1>4, <1>5, <1>6 DEF Next, Turn, Background, Frontend

-----------------------------------------------------------------------------
(* The theorems *)

\* Inv is inductive.
LEMMA NextInv == Inv /\ [Next]_vars => Inv'
<1> SUFFICES ASSUME Inv, [Next]_vars PROVE Inv'
  OBVIOUS
<1>1. TypeOK'
  <2>1. FrontendTypes /\ SharedTypes
    BY TypeParts DEF Inv
  <2>2. FrontendTypes' /\ SharedTypes'
    BY <2>1, FrontendTypeStep, SharedTypeStep
  <2> QED
    BY <2>2 DEF TypeOK, FrontendTypes, SharedTypes, Labels
<1> QED
  BY <1>1, CountedStep, ExcludedStep, RotationStep, RevisionsStep, VersionsStep DEF Inv

\* Inv holds throughout every behaviour.
THEOREM Inductive == Spec => []Inv
  BY InitInv, NextInv, PTL DEF Spec

\* Every variable of the barrier, of the gates and of the plans keeps its type.
THEOREM BarrierTypes == Spec => []TypeOK
<1>1. Inv => TypeOK
  BY DEF Inv
<1> QED
  BY <1>1, Inductive, PTL

\* A rewind or an undo is alone in the workspace: beginRotation keeps turns and
\* other rewinds out, TryEnterExclusive background writers and tool calls.
THEOREM Alone == Spec => []RewindAlone
<1>1. Inv => RewindAlone
  BY DEF Inv, RewindAlone, Changing, Excluded, Exclusively, Rotation, Committing
<1> QED
  BY <1>1, Inductive, PTL

\* A rewind commits onto what its preview described: ValidatePlanSessionRevision
\* catches every turn and the workspace token every write in between.
THEOREM AsPreviewed == Spec => []CommitsWhatWasPreviewed
<1>1. Inv => CommitsWhatWasPreviewed
  BY DEF Inv, CommitsWhatWasPreviewed, Changing, Versions, Revisions
<1> QED
  BY <1>1, Inductive, PTL
=============================================================================
