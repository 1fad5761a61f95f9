------------------------- MODULE WorkspaceLeaseProofs -------------------------
(***************************************************************************)
(* Theorems about WorkspaceLease, for any sessions, runs and jobs.         *)
(***************************************************************************)
EXTENDS WorkspaceLease, FiniteSetTheorems, TLAPS

-----------------------------------------------------------------------------
(* The inductive invariant *)

\* The owner counts its runs.
Active(o) == {r \in RunsOf(o) : pc[r] # "out"}
Counted == \A o \in Owners : activeRuns[o] = Cardinality(Active(o))

\* One run leads an acquisition, exactly while acquiring is set.
Leading(r) == pc[r] \in {"token", "file", "won", "lost"}
Led ==
  /\ \A r \in Runs : Leading(r) => acquiring[OwnerOf(r)]
  /\ \A o \in Owners : acquiring[o] => \E r \in RunsOf(o) : Leading(r)
  /\ \A r, s \in Runs : Leading(r) /\ Leading(s) /\ OwnerOf(r) = OwnerOf(s) => r = s

\* An owner that has the lease is neither acquiring nor giving it back, and
\* somebody still needs it.
Settled ==
  \A o \in Owners : acquired[o] =>
    ~acquiring[o] /\ releasing[o] = "no" /\ (activeRuns[o] > 0 \/ background[o] > 0)

\* Who has the token of a process, and who the file: the run on its way to the
\* lease, the owner that has it, or the owner that is giving it back.
OnTheWay(o, labels) == \E r \in RunsOf(o) : pc[r] \in labels
HasToken(o) == acquired[o] \/ releasing[o] # "no" \/ OnTheWay(o, {"file", "won"})
HasFile(o) == acquired[o] \/ releasing[o] = "file" \/ OnTheWay(o, {"won"})

Tokens ==
  /\ \A o \in Owners : releasing[o] # "no" => ~OnTheWay(o, {"file", "won"})
  /\ \A o \in Owners : HasToken(o) => ~token[Process(o)]
  /\ \A p \in Processes : ~token[p] => \E o \in Owners : Process(o) = p /\ HasToken(o)
  /\ \A o, q \in Owners : HasToken(o) /\ HasToken(q) /\ Process(o) = Process(q) => o = q
Files == \A o \in Owners : flock = o <=> HasFile(o)

\* A granted run has not ended, and it and every job keep the lease in place.
Grants ==
  /\ \A r \in granted : acquired[OwnerOf(r)] /\ pc[r] # "out"
  /\ \A o \in Owners : background[o] > 0 => acquired[o]

Inv == TypeOK /\ Counted /\ Led /\ Settled /\ Tokens /\ Files /\ Grants

\* A run is one of its owner.
LEMMA RunFacts ==
  /\ \A r \in Runs : OwnerOf(r) \in Owners /\ r \in RunsOf(OwnerOf(r))
  /\ \A o \in Owners : RunsOf(o) \subseteq Runs /\ \A r \in RunsOf(o) : OwnerOf(r) = o
  /\ \A o \in Owners : Process(o) \in Processes
  BY DEF Runs, OwnerOf, RunsOf, Processes

\* The runs of an owner are finitely many.
LEMMA FiniteRuns == \A o \in Owners : IsFiniteSet(RunsOf(o))
<1>1. IsFiniteSet(Runs)
  BY ConstantsAssumption, FS_Product DEF Runs
<1> QED
  BY <1>1, RunFacts, FS_Subset

\* In the initial state nobody has anything.
LEMMA InitInv == Init => Inv
<1> SUFFICES ASSUME Init PROVE Inv
  OBVIOUS
<1>1. TypeOK
  BY ConstantsAssumption DEF Init, TypeOK
<1>2. Counted
  <2>1. \A o \in Owners : Active(o) = {}
    BY RunFacts DEF Init, Active
  <2> QED
    BY <2>1, FS_EmptySet DEF Init, Counted
<1>3. \A o \in Owners : ~HasToken(o) /\ ~HasFile(o)
  BY RunFacts DEF Init, HasToken, HasFile, OnTheWay
<1>4. Led /\ Settled /\ Grants
  BY DEF Init, Led, Leading, Settled, Grants
<1>5. Tokens /\ Files
  BY <1>3, ConstantsAssumption DEF Init, Tokens, Files
<1> QED
  BY <1>1, <1>2, <1>4, <1>5 DEF Inv
-----------------------------------------------------------------------------
(* Types *)

\* Giving the lease back, or not, keeps the types.
LEMMA ReleaseTypes ==
  ASSUME TypeOK, NEW o \in Owners, NEW holds \in BOOLEAN, ReleaseIfIdle(o, holds)
  PROVE  /\ acquired' \in [Owners -> BOOLEAN]
         /\ releasing' \in [Owners -> {"no", "file", "token"}]
  BY DEF TypeOK, ReleaseIfIdle

\* Every action gives every variable a value of its type.
LEMMA TypeStep == TypeOK /\ [Next]_vars => TypeOK'
<1> SUFFICES ASSUME TypeOK, [Next]_vars PROVE TypeOK'
  OBVIOUS
<1> USE DEF TypeOK, Goto, Decrement, fields
<1>1. MaxRuns \in Nat /\ MaxJobs \in Nat /\ \A r \in Runs : OwnerOf(r) \in Owners
  BY RunFacts, ConstantsAssumption
<1>2. ASSUME NEW r \in Runs, BeginRun(r) PROVE TypeOK'
  BY <1>1, <1>2 DEF BeginRun
<1>3. ASSUME NEW r \in Runs, EndRun(r) PROVE TypeOK'
  <2>1. /\ acquired' \in [Owners -> BOOLEAN]
        /\ releasing' \in [Owners -> {"no", "file", "token"}]
    BY <1>1, <1>3, ReleaseTypes DEF EndRun
  <2>2. activeRuns' \in [Owners -> Nat]
    <3>1. Decrement(activeRuns[OwnerOf(r)]) \in Nat
      BY <1>1
    <3> QED
      BY <1>1, <1>3, <3>1 DEF EndRun
  <2>3. pc' \in [Runs -> {"out", "running", "woken", "queued", "token", "file", "won", "lost"}]
    BY <1>3 DEF EndRun
  <2> QED
    BY <1>1, <1>3, <2>1, <2>2, <2>3 DEF EndRun
<1>4. ASSUME NEW r \in Runs, Reenter(r) \/ Queue(r) \/ Lead(r) \/ CancelQueued(r) PROVE TypeOK'
  BY <1>1, <1>4 DEF Reenter, Queue, Lead, CancelQueued
<1>5. ASSUME NEW r \in Runs, NotifyWait(r) \/ TakeToken(r) \/ LockFile(r) PROVE TypeOK'
  BY <1>1, <1>5 DEF NotifyWait, TakeToken, LockFile
<1>6. ASSUME NEW r \in Runs, CancelLead(r) PROVE TypeOK'
  BY <1>1, <1>6 DEF CancelLead
<1>7. ASSUME NEW r \in Runs, Settle(r) PROVE TypeOK'
  <2> DEFINE holds == acquired[OwnerOf(r)] \/ pc[r] = "won"
  <2>0. holds \in BOOLEAN
    OBVIOUS
  <2>1. /\ acquired' \in [Owners -> BOOLEAN]
        /\ releasing' \in [Owners -> {"no", "file", "token"}]
    BY <1>1, <1>7, <2>0, ReleaseTypes DEF Settle
  <2>2. pc' \in [Runs -> {"out", "running", "woken", "queued", "token", "file", "won", "lost"}]
    BY <1>7 DEF Settle
  <2>3. granted' \subseteq Runs
    BY <1>7 DEF Settle
  <2> QED
    BY <1>1, <1>7, <2>1, <2>2, <2>3 DEF Settle
<1>8. ASSUME NEW r \in Runs, RetainUntil(r) PROVE TypeOK'
  BY <1>1, <1>8 DEF RetainUntil
<1>9. ASSUME NEW o \in Owners, JobDone(o) PROVE TypeOK'
  <2>1. /\ acquired' \in [Owners -> BOOLEAN]
        /\ releasing' \in [Owners -> {"no", "file", "token"}]
    BY <1>1, <1>9, ReleaseTypes DEF JobDone
  <2>2. background' \in [Owners -> 0..MaxJobs]
    <3>1. Decrement(background[o]) \in 0..MaxJobs
      BY <1>1
    <3> QED
      BY <1>1, <1>9, <3>1 DEF JobDone
  <2> QED
    BY <1>1, <1>9, <2>1, <2>2 DEF JobDone
<1>10. ASSUME NEW o \in Owners, ReleaseFile(o) \/ ReleaseToken(o) PROVE TypeOK'
  BY <1>1, <1>10 DEF ReleaseFile, ReleaseToken
<1>11. ASSUME NEW p \in Processes, Crash(p) PROVE TypeOK'
  <2>1. activeRuns' \in [Owners -> Nat] /\ background' \in [Owners -> 0..MaxJobs]
    BY <1>1, <1>11 DEF Crash
  <2>2. /\ acquired' \in [Owners -> BOOLEAN] /\ acquiring' \in [Owners -> BOOLEAN]
        /\ waiting' \in [Owners -> BOOLEAN] /\ releasing' \in [Owners -> {"no", "file", "token"}]
    BY <1>11 DEF Crash
  <2>3. /\ token' \in [Processes -> BOOLEAN] /\ flock' \in Owners \cup {None}
        /\ pc' \in [Runs -> {"out", "running", "woken", "queued", "token", "file", "won", "lost"}]
        /\ granted' \subseteq Runs /\ begun' \in 0..MaxRuns
    BY <1>11 DEF Crash
  <2> QED
    BY <2>1, <2>2, <2>3
<1>12. CASE UNCHANGED vars
  BY <1>12 DEF vars
<1> QED
  BY <1>2, <1>3, <1>4, <1>5, <1>6, <1>7, <1>8, <1>9, <1>10, <1>11, <1>12 DEF Next
-----------------------------------------------------------------------------
(* Runs, and who leads them *)

\* The labels a run goes through.
Labels == {"out", "running", "woken", "queued", "token", "file", "won", "lost"}

\* An owner's count stands while none of its runs begins or ends.
LEMMA SamePeople ==
  ASSUME Inv, UNCHANGED activeRuns, \A r \in Runs : (pc'[r] # "out") <=> (pc[r] # "out")
  PROVE  Counted'
<1>1. \A o \in Owners : Active(o)' = Active(o)
  BY RunFacts DEF Active
<1> QED
  BY <1>1 DEF Inv, Counted

\* A run that has not ended counts.
LEMMA Needed ==
  ASSUME Inv, NEW r \in Runs, pc[r] # "out"
  PROVE  activeRuns[OwnerOf(r)] > 0
<1> DEFINE o == OwnerOf(r)
<1>1. r \in Active(o) /\ o \in Owners
  BY RunFacts DEF Active
<1>2. IsFiniteSet(Active(o))
  BY <1>1, FiniteRuns, FS_Subset DEF Active
<1>3. Cardinality(Active(o)) # 0 /\ Cardinality(Active(o)) \in Nat
  BY <1>1, <1>2, FS_EmptySet, FS_CardinalityType
<1> QED
  BY <1>1, <1>3 DEF Inv, Counted

\* BeginRun and EndRun keep the count, a crash forgets it with its runs.
LEMMA CountedStep == Inv /\ [Next]_vars => Counted'
<1> SUFFICES ASSUME Inv, [Next]_vars PROVE Counted'
  OBVIOUS
<1>1. pc \in [Runs -> Labels] /\ activeRuns \in [Owners -> Nat] /\ Counted
  BY DEF Inv, TypeOK, Labels
<1>2. ASSUME NEW r \in Runs, BeginRun(r) PROVE Counted'
  <2> DEFINE o == OwnerOf(r)
  <2>1. o \in Owners /\ r \in RunsOf(o) /\ r \notin Active(o) /\ IsFiniteSet(Active(o))
    BY <1>2, RunFacts, FiniteRuns, FS_Subset DEF BeginRun, Active
  <2>2. Active(o)' = Active(o) \cup {r} /\ \A q \in Owners \ {o} : Active(q)' = Active(q)
    BY <1>1, <1>2, <2>1, RunFacts DEF BeginRun, Goto, Active
  <2>3. Cardinality(Active(o) \cup {r}) = Cardinality(Active(o)) + 1
    BY <2>1, FS_AddElement
  <2>4. activeRuns' = [activeRuns EXCEPT ![o] = @ + 1]
    BY <1>2 DEF BeginRun
  <2> HIDE DEF o
  <2> QED
    BY <1>1, <2>1, <2>2, <2>3, <2>4 DEF Counted
<1>3. ASSUME NEW r \in Runs, EndRun(r) PROVE Counted'
  <2> DEFINE o == OwnerOf(r)
  <2>1. o \in Owners /\ r \in Active(o) /\ IsFiniteSet(Active(o))
    BY <1>3, RunFacts, FiniteRuns, FS_Subset DEF EndRun, Active
  <2>2. Active(o)' = Active(o) \ {r} /\ \A q \in Owners \ {o} : Active(q)' = Active(q)
    BY <1>1, <1>3, <2>1, RunFacts DEF EndRun, Goto, Active
  <2>3. Cardinality(Active(o) \ {r}) = Cardinality(Active(o)) - 1
    BY <2>1, FS_RemoveElement
  <2>4. activeRuns' = [activeRuns EXCEPT ![o] = Decrement(@)] /\ activeRuns[o] > 0
    BY <1>3, Needed DEF EndRun
  <2> HIDE DEF o
  <2> QED
    BY <1>1, <2>1, <2>2, <2>3, <2>4 DEF Counted, Decrement
<1>4. ASSUME NEW p \in Processes, Crash(p) PROVE Counted'
  <2> SUFFICES ASSUME NEW o \in Owners PROVE activeRuns'[o] = Cardinality(Active(o)')
    BY DEF Counted
  <2>1. CASE Process(o) = p
    <3>1. Active(o)' = {} /\ activeRuns'[o] = 0
      BY <1>4, <2>1, RunFacts DEF Crash, Active
    <3> QED
      BY <3>1, FS_EmptySet
  <2>2. CASE Process(o) # p
    <3>1. Active(o)' = Active(o) /\ activeRuns'[o] = activeRuns[o]
      BY <1>4, <2>2, RunFacts DEF Crash, Active
    <3> QED
      BY <1>1, <3>1 DEF Counted
  <2> QED
    BY <2>1, <2>2
<1>5. ASSUME \/ \E r \in Runs :
                  \/ Reenter(r) \/ Queue(r) \/ Lead(r) \/ CancelQueued(r) \/ NotifyWait(r)
                  \/ TakeToken(r) \/ LockFile(r) \/ CancelLead(r) \/ RetainUntil(r) \/ Settle(r)
             \/ \E o \in Owners : JobDone(o) \/ ReleaseFile(o) \/ ReleaseToken(o)
             \/ UNCHANGED vars
      PROVE  Counted'
  <2>1. UNCHANGED activeRuns
    BY <1>5 DEF Reenter, Queue, Lead, CancelQueued, NotifyWait, TakeToken, LockFile,
       CancelLead, RetainUntil, Settle, JobDone, ReleaseFile, ReleaseToken, fields, vars
  <2>2. \A r \in Runs : (pc'[r] # "out") <=> (pc[r] # "out")
    BY <1>1, <1>5 DEF Reenter, Queue, Lead, CancelQueued, NotifyWait, TakeToken, LockFile,
       CancelLead, RetainUntil, Settle, JobDone, ReleaseFile, ReleaseToken, Goto, Entering, vars
  <2> QED
    BY <2>1, <2>2, SamePeople
<1> QED
  BY <1>2, <1>3, <1>4, <1>5 DEF Next

\* The first writer claims the acquisition and only its end gives it up.
LEMMA LedStep == Inv /\ [Next]_vars => Led'
<1> SUFFICES ASSUME Inv, [Next]_vars PROVE Led'
  OBVIOUS
<1>1. pc \in [Runs -> Labels] /\ acquiring \in [Owners -> BOOLEAN] /\ Led
  BY DEF Inv, TypeOK, Labels
<1>2. ASSUME UNCHANGED acquiring, \A r \in Runs : Leading(r)' <=> Leading(r)
      PROVE  Led'
  BY <1>1, <1>2, RunFacts DEF Led
<1>3. ASSUME NEW r \in Runs, Lead(r) PROVE Led'
  <2>1. /\ acquiring' = [acquiring EXCEPT ![OwnerOf(r)] = TRUE]
        /\ ~acquiring[OwnerOf(r)] /\ Leading(r)'
        /\ \A s \in Runs \ {r} : Leading(s)' <=> Leading(s)
    BY <1>1, <1>3 DEF Lead, Goto, Leading
  <2> QED
    BY <1>1, <2>1, RunFacts DEF Led
<1>4. ASSUME NEW r \in Runs, Settle(r) PROVE Led'
  <2>1. /\ acquiring' = [acquiring EXCEPT ![OwnerOf(r)] = FALSE]
        /\ Leading(r) /\ ~Leading(r)'
        /\ \A s \in Runs \ {r} : Leading(s)' <=> Leading(s)
    BY <1>1, <1>4 DEF Settle, Leading
  <2> QED
    BY <1>1, <2>1, RunFacts DEF Led
<1>5. ASSUME NEW p \in Processes, Crash(p) PROVE Led'
  <2>1. /\ \A o \in Owners : acquiring'[o] = IF Process(o) = p THEN FALSE ELSE acquiring[o]
        /\ \A s \in Runs : Leading(s)' <=> Leading(s) /\ Process(OwnerOf(s)) # p
    BY <1>1, <1>5 DEF Crash, Leading
  <2> QED
    BY <1>1, <2>1, RunFacts DEF Led
<1>6. ASSUME \/ \E r \in Runs :
                  \/ BeginRun(r) \/ EndRun(r) \/ Reenter(r) \/ Queue(r) \/ CancelQueued(r)
                  \/ NotifyWait(r) \/ TakeToken(r) \/ LockFile(r) \/ CancelLead(r) \/ RetainUntil(r)
             \/ \E o \in Owners : JobDone(o) \/ ReleaseFile(o) \/ ReleaseToken(o)
             \/ UNCHANGED vars
      PROVE  Led'
  <2>1. UNCHANGED acquiring
    BY <1>6 DEF BeginRun, EndRun, Reenter, Queue, CancelQueued, NotifyWait, TakeToken, LockFile,
       CancelLead, RetainUntil, JobDone, ReleaseFile, ReleaseToken, fields, vars
  <2>2. \A r \in Runs : Leading(r)' <=> Leading(r)
    BY <1>1, <1>6 DEF BeginRun, EndRun, Reenter, Queue, CancelQueued, NotifyWait, TakeToken,
       LockFile, CancelLead, RetainUntil, JobDone, ReleaseFile, ReleaseToken, Goto, Entering,
       Leading, vars
  <2> QED
    BY <1>2, <2>1, <2>2
<1> QED
  BY <1>3, <1>4, <1>5, <1>6 DEF Next
-----------------------------------------------------------------------------
(* Who has the lease *)

\* releaseIfIdleLocked either begins the release or leaves acquired at holds,
\* and then somebody still needs the lease.
LEMMA ReleaseEffect ==
  ASSUME TypeOK, NEW o \in Owners, NEW holds \in BOOLEAN, ReleaseIfIdle(o, holds)
  PROVE  /\ \A q \in Owners \ {o} : acquired'[q] = acquired[q] /\ releasing'[q] = releasing[q]
         /\ \/ /\ holds /\ activeRuns'[o] = 0 /\ background'[o] = 0
               /\ ~acquired'[o] /\ releasing'[o] = "file"
            \/ /\ acquired'[o] = holds /\ releasing'[o] = releasing[o]
               /\ holds /\ ~acquiring'[o] => activeRuns'[o] # 0 \/ background'[o] # 0
  BY DEF TypeOK, ReleaseIfIdle

\* What the end of a run does to its owner.
LEMMA EndRunEffect ==
  ASSUME Inv, NEW r \in Runs, EndRun(r)
  PROVE  LET o == OwnerOf(r)
         IN /\ \A q \in Owners \ {o} : acquired'[q] = acquired[q] /\ releasing'[q] = releasing[q]
            /\ \/ /\ acquired[o] /\ activeRuns'[o] = 0 /\ background[o] = 0
                  /\ ~acquired'[o] /\ releasing'[o] = "file"
               \/ /\ acquired'[o] = acquired[o] /\ releasing'[o] = releasing[o]
                  /\ acquired[o] => activeRuns'[o] > 0 \/ background[o] > 0
            /\ UNCHANGED <<background, acquiring>>
            /\ \A q \in Owners \ {o} : activeRuns'[q] = activeRuns[q]
<1> DEFINE o == OwnerOf(r)
<1>1. o \in Owners /\ acquired[o] \in BOOLEAN /\ TypeOK /\ UNCHANGED <<background, acquiring>>
  BY RunFacts DEF Inv, TypeOK, EndRun
<1>2. ReleaseIfIdle(o, acquired[o])
  BY DEF EndRun
<1>3. activeRuns' \in [Owners -> Nat] /\ background \in [Owners -> 0..MaxJobs]
      /\ \A q \in Owners \ {o} : activeRuns'[q] = activeRuns[q]
  <2>1. Decrement(activeRuns[o]) \in Nat
    BY <1>1 DEF TypeOK, Decrement
  <2> QED
    BY <1>1, <2>1 DEF EndRun, TypeOK
<1>4. acquired[o] => ~acquiring'[o]
  BY <1>1 DEF Inv, Settled
<1> HIDE DEF o
<1>5. /\ \A q \in Owners \ {o} : acquired'[q] = acquired[q] /\ releasing'[q] = releasing[q]
      /\ \/ /\ acquired[o] /\ activeRuns'[o] = 0 /\ background'[o] = 0
            /\ ~acquired'[o] /\ releasing'[o] = "file"
         \/ /\ acquired'[o] = acquired[o] /\ releasing'[o] = releasing[o]
            /\ acquired[o] /\ ~acquiring'[o] => activeRuns'[o] # 0 \/ background'[o] # 0
  BY <1>1, <1>2, ReleaseEffect
<1>6. MaxJobs \in Nat /\ activeRuns'[o] \in Nat /\ background[o] \in Nat
  BY <1>1, <1>3, ConstantsAssumption
<1>7. acquired[o] /\ ~acquiring'[o] /\ (activeRuns'[o] # 0 \/ background[o] # 0)
      => activeRuns'[o] > 0 \/ background[o] > 0
  BY <1>6
<1> QED
  BY <1>1, <1>3, <1>4, <1>5, <1>7, Zenon DEF o

\* What the end of a job does to its owner.
LEMMA JobDoneEffect ==
  ASSUME Inv, NEW o \in Owners, JobDone(o)
  PROVE  /\ \A q \in Owners \ {o} : /\ acquired'[q] = acquired[q]
                                    /\ releasing'[q] = releasing[q]
                                    /\ background'[q] = background[q]
         /\ acquired[o] /\ (background'[o] > 0 => background[o] > 0)
         /\ \/ /\ activeRuns[o] = 0 /\ background'[o] = 0
               /\ ~acquired'[o] /\ releasing'[o] = "file"
            \/ /\ acquired'[o] /\ releasing'[o] = releasing[o]
               /\ activeRuns[o] > 0 \/ background'[o] > 0
         /\ UNCHANGED <<activeRuns, acquiring>>
<1>1. acquired[o] \in BOOLEAN /\ TypeOK /\ UNCHANGED <<activeRuns, acquiring>>
  BY DEF Inv, TypeOK, JobDone
<1>2. ReleaseIfIdle(o, acquired[o]) /\ background[o] > 0
  BY DEF JobDone
<1>3. acquired[o] /\ ~acquiring[o]
  BY <1>2 DEF Inv, Grants, Settled
<1>4. /\ background'[o] \in Nat /\ activeRuns[o] \in Nat
      /\ \A q \in Owners \ {o} : background'[q] = background[q]
  <2>1. Decrement(background[o]) \in Nat
    BY <1>1, ConstantsAssumption DEF TypeOK, Decrement
  <2> QED
    BY <1>1, <2>1 DEF JobDone, TypeOK
<1>5. /\ \A q \in Owners \ {o} : acquired'[q] = acquired[q] /\ releasing'[q] = releasing[q]
      /\ \/ /\ acquired[o] /\ activeRuns'[o] = 0 /\ background'[o] = 0
            /\ ~acquired'[o] /\ releasing'[o] = "file"
         \/ /\ acquired'[o] = acquired[o] /\ releasing'[o] = releasing[o]
            /\ acquired[o] /\ ~acquiring'[o] => activeRuns'[o] # 0 \/ background'[o] # 0
  BY <1>1, <1>2, ReleaseEffect
<1>6. activeRuns[o] # 0 \/ background'[o] # 0 => activeRuns[o] > 0 \/ background'[o] > 0
  BY <1>4
<1> QED
  BY <1>1, <1>2, <1>3, <1>4, <1>5, <1>6, Zenon

\* What the end of an acquisition does: a run is left, so nothing is released.
LEMMA SettleEffect ==
  ASSUME Inv, NEW r \in Runs, Settle(r)
  PROVE  LET o == OwnerOf(r)
         IN /\ UNCHANGED <<activeRuns, background, token, flock, releasing>>
            /\ \A q \in Owners \ {o} : acquired'[q] = acquired[q] /\ acquiring'[q] = acquiring[q]
            /\ ~acquired[o] /\ (acquired'[o] <=> pc[r] = "won") /\ ~acquiring'[o]
            /\ activeRuns[o] > 0
<1> DEFINE o == OwnerOf(r)
           holds == acquired[o] \/ pc[r] = "won"
<1>1. o \in Owners /\ holds \in BOOLEAN /\ TypeOK /\ UNCHANGED <<activeRuns, background, token, flock>>
  BY RunFacts DEF Inv, TypeOK, Settle
<1>2. ReleaseIfIdle(o, holds)
  BY DEF Settle
<1>3. activeRuns[o] > 0
  BY Needed DEF Settle
<1>4. ~acquired[o]
  BY <1>1 DEF Settle, Leading, Inv, Led, Settled
<1>5. ~acquiring'[o] /\ \A q \in Owners \ {o} : acquiring'[q] = acquiring[q]
  BY <1>1 DEF Settle, TypeOK
<1> HIDE DEF o, holds
<1>6. UNCHANGED releasing /\ acquired' = [acquired EXCEPT ![o] = holds]
  BY <1>1, <1>2, <1>3 DEF ReleaseIfIdle
<1> QED
  BY <1>1, <1>3, <1>4, <1>5, <1>6 DEF o, holds, TypeOK

\* No run of an owner that has the lease is on its way to it.
LEMMA NoneOnTheWay ==
  ASSUME Inv, NEW o \in Owners, acquired[o]
  PROVE  \A r \in RunsOf(o) : ~Leading(r)
  BY RunFacts DEF Inv, Settled, Led

\* The lease is only taken by an owner that is not giving it back, and an owner
\* that keeps it is needed.
LEMMA SettledStep == Inv /\ [Next]_vars => Settled'
<1> SUFFICES ASSUME Inv, [Next]_vars PROVE Settled'
  OBVIOUS
<1>1. /\ activeRuns \in [Owners -> Nat] /\ background \in [Owners -> 0..MaxJobs]
      /\ acquired \in [Owners -> BOOLEAN] /\ acquiring \in [Owners -> BOOLEAN]
      /\ releasing \in [Owners -> {"no", "file", "token"}] /\ MaxJobs \in Nat
      /\ pc \in [Runs -> Labels] /\ Settled
  BY ConstantsAssumption DEF Inv, TypeOK, Labels
<1>2. ASSUME NEW r \in Runs, BeginRun(r) PROVE Settled'
  BY <1>1, <1>2, RunFacts DEF BeginRun, Settled
<1>3. ASSUME NEW r \in Runs, EndRun(r) PROVE Settled'
  <2> DEFINE o == OwnerOf(r)
  <2>1. o \in Owners
    BY RunFacts
  <2>2. /\ \A q \in Owners \ {o} : /\ acquired'[q] = acquired[q] /\ releasing'[q] = releasing[q]
                                   /\ activeRuns'[q] = activeRuns[q]
        /\ acquired'[o] => /\ acquired[o] /\ releasing'[o] = releasing[o]
                           /\ activeRuns'[o] > 0 \/ background[o] > 0
        /\ UNCHANGED <<background, acquiring>>
    BY <1>3, EndRunEffect
  <2> HIDE DEF o
  <2> QED
    BY <1>1, <2>1, <2>2 DEF Settled
<1>4. ASSUME NEW r \in Runs, Lead(r) PROVE Settled'
  BY <1>1, <1>4, RunFacts DEF Lead, Settled
<1>5. ASSUME NEW r \in Runs, Settle(r) PROVE Settled'
  <2> DEFINE o == OwnerOf(r)
  <2>1. o \in Owners /\ r \in RunsOf(o)
    BY RunFacts
  <2>2. /\ UNCHANGED <<activeRuns, background, releasing>>
        /\ \A q \in Owners \ {o} : acquired'[q] = acquired[q] /\ acquiring'[q] = acquiring[q]
        /\ (acquired'[o] <=> pc[r] = "won") /\ ~acquiring'[o] /\ activeRuns[o] > 0
    BY <1>5, SettleEffect
  <2>3. pc[r] = "won" => releasing[o] = "no"
    BY <2>1 DEF Inv, Tokens, OnTheWay
  <2> HIDE DEF o
  <2> QED
    BY <1>1, <2>1, <2>2, <2>3 DEF Settled
<1>6. ASSUME NEW r \in Runs, RetainUntil(r) PROVE Settled'
  BY <1>1, <1>6, RunFacts DEF RetainUntil, Settled
<1>7. ASSUME NEW o \in Owners, JobDone(o) PROVE Settled'
  <2>1. /\ \A q \in Owners \ {o} : /\ acquired'[q] = acquired[q] /\ releasing'[q] = releasing[q]
                                   /\ background'[q] = background[q]
        /\ acquired[o]
        /\ acquired'[o] => /\ releasing'[o] = releasing[o]
                           /\ activeRuns[o] > 0 \/ background'[o] > 0
        /\ UNCHANGED <<activeRuns, acquiring>>
    BY <1>7, JobDoneEffect
  <2> QED
    BY <1>1, <2>1 DEF Settled
<1>8. ASSUME NEW o \in Owners, ReleaseFile(o) \/ ReleaseToken(o) PROVE Settled'
  BY <1>1, <1>8 DEF ReleaseFile, ReleaseToken, fields, Settled
<1>9. ASSUME NEW p \in Processes, Crash(p) PROVE Settled'
  BY <1>1, <1>9 DEF Crash, Settled
<1>10. ASSUME \/ \E r \in Runs :
                   \/ Reenter(r) \/ Queue(r) \/ CancelQueued(r) \/ NotifyWait(r)
                   \/ TakeToken(r) \/ LockFile(r) \/ CancelLead(r)
              \/ UNCHANGED vars
       PROVE  Settled'
  <2>1. UNCHANGED <<activeRuns, background, acquired, acquiring, releasing>>
    BY <1>10 DEF Reenter, Queue, CancelQueued, NotifyWait, TakeToken, LockFile, CancelLead,
       fields, vars
  <2> QED
    BY <1>1, <2>1 DEF Settled
<1> QED
  BY <1>2, <1>3, <1>4, <1>5, <1>6, <1>7, <1>8, <1>9, <1>10 DEF Next

\* A run that has not ended by the next state counts there.
LEMMA NeededAfter ==
  ASSUME Inv, [Next]_vars, NEW r \in Runs, pc'[r] # "out"
  PROVE  activeRuns'[OwnerOf(r)] > 0
<1> DEFINE o == OwnerOf(r)
<1>1. r \in Active(o)' /\ o \in Owners
  BY RunFacts DEF Active
<1>2. IsFiniteSet(Active(o)')
  BY <1>1, FiniteRuns, FS_Subset DEF Active
<1>3. Cardinality(Active(o)') # 0 /\ Cardinality(Active(o)') \in Nat
  BY <1>1, <1>2, FS_EmptySet, FS_CardinalityType
<1>4. activeRuns'[o] = Cardinality(Active(o)')
  BY <1>1, CountedStep DEF Counted
<1> QED
  BY <1>3, <1>4

\* The lease is not given back under a granted run or a retained job.
LEMMA GrantsStep == Inv /\ [Next]_vars => Grants'
<1> SUFFICES ASSUME Inv, [Next]_vars PROVE Grants'
  OBVIOUS
<1>1. /\ background \in [Owners -> 0..MaxJobs] /\ MaxJobs \in Nat
      /\ acquired \in [Owners -> BOOLEAN] /\ granted \subseteq Runs
      /\ pc \in [Runs -> Labels] /\ Grants
      /\ \A r \in Runs : OwnerOf(r) \in Owners
  BY ConstantsAssumption, RunFacts DEF Inv, TypeOK, Labels
<1>2. ASSUME NEW r \in Runs, EndRun(r) PROVE Grants'
  <2> DEFINE o == OwnerOf(r)
  <2>1. /\ \A q \in Owners \ {o} : acquired'[q] = acquired[q]
        /\ acquired[o] /\ ~acquired'[o] => activeRuns'[o] = 0 /\ background[o] = 0
        /\ UNCHANGED background
    BY <1>2, EndRunEffect
  <2>2. granted' = granted \ {r} /\ \A s \in Runs \ {r} : pc'[s] = pc[s]
    BY <1>1, <1>2 DEF EndRun, Goto
  <2>3. \A s \in granted' : OwnerOf(s) = o => activeRuns'[o] > 0
    BY <1>1, <2>2, NeededAfter DEF Grants
  <2>4. \A s \in granted' : acquired'[OwnerOf(s)]
    <3> SUFFICES ASSUME NEW s \in granted' PROVE acquired'[OwnerOf(s)]
      OBVIOUS
    <3>1. acquired[OwnerOf(s)] /\ OwnerOf(s) \in Owners
      BY <1>1, <2>2 DEF Grants
    <3>2. CASE OwnerOf(s) = o
      <4>1. activeRuns'[o] > 0 /\ acquired[o]
        BY <2>3, <3>1, <3>2
      <4>2. activeRuns'[o] # 0
        BY <4>1
      <4> QED
        BY <2>1, <3>2, <4>1, <4>2, Zenon
    <3>3. CASE OwnerOf(s) # o
      BY <2>1, <3>1, <3>3
    <3> QED
      BY <3>2, <3>3
  <2>5. \A q \in Owners : background'[q] > 0 => acquired'[q]
    BY <1>1, <2>1 DEF Grants
  <2> QED
    BY <1>1, <2>2, <2>4, <2>5 DEF Grants
<1>3. ASSUME NEW r \in Runs, Reenter(r) PROVE Grants'
  BY <1>1, <1>3 DEF Reenter, Goto, fields, Grants
<1>4. ASSUME NEW r \in Runs, Settle(r) PROVE Grants'
  <2> DEFINE o == OwnerOf(r)
  <2>1. /\ UNCHANGED background
        /\ \A q \in Owners \ {o} : acquired'[q] = acquired[q]
        /\ ~acquired[o] /\ (acquired'[o] <=> pc[r] = "won")
    BY <1>4, SettleEffect
  <2>2. /\ granted' = IF pc[r] = "won" THEN granted \cup {r} ELSE granted
        /\ \A s \in Runs : pc[s] # "out" => pc'[s] # "out"
        /\ pc'[r] # "out"
    BY <1>1, <1>4 DEF Settle
  <2> HIDE DEF o
  <2> QED
    BY <1>1, <2>1, <2>2 DEF Grants, o
<1>5. ASSUME NEW r \in Runs, RetainUntil(r) PROVE Grants'
  BY <1>1, <1>5 DEF RetainUntil, Grants
<1>6. ASSUME NEW o \in Owners, JobDone(o) PROVE Grants'
  <2>1. /\ \A q \in Owners \ {o} : acquired'[q] = acquired[q] /\ background'[q] = background[q]
        /\ acquired[o]
        /\ \/ activeRuns[o] = 0 /\ background'[o] = 0
           \/ acquired'[o]
        /\ UNCHANGED <<granted, pc>>
    BY <1>6, JobDoneEffect DEF JobDone
  <2>2. \A s \in granted : OwnerOf(s) = o => activeRuns[o] # 0
    BY <1>1, Needed DEF Grants
  <2> QED
    BY <1>1, <2>1, <2>2 DEF Grants
<1>7. ASSUME NEW p \in Processes, Crash(p) PROVE Grants'
  <2>1. \A q \in Owners :
          IF Process(q) = p THEN background'[q] = 0
          ELSE acquired'[q] = acquired[q] /\ background'[q] = background[q]
    BY <1>1, <1>7 DEF Crash
  <2>2. \A s \in granted' : s \in granted /\ Process(OwnerOf(s)) # p /\ pc'[s] = pc[s]
    BY <1>1, <1>7 DEF Crash
  <2> QED
    BY <1>1, <2>1, <2>2 DEF Grants
<1>8. ASSUME \/ \E r \in Runs :
                  \/ BeginRun(r) \/ Queue(r) \/ Lead(r) \/ CancelQueued(r) \/ NotifyWait(r)
                  \/ TakeToken(r) \/ LockFile(r) \/ CancelLead(r)
             \/ \E o \in Owners : ReleaseFile(o) \/ ReleaseToken(o)
             \/ UNCHANGED vars
      PROVE  Grants'
  <2>1. UNCHANGED <<background, acquired, granted>>
    BY <1>8 DEF BeginRun, Queue, Lead, CancelQueued, NotifyWait, TakeToken, LockFile, CancelLead,
       ReleaseFile, ReleaseToken, fields, vars
  <2>2. \A s \in Runs : pc[s] # "out" => pc'[s] # "out"
    BY <1>1, <1>8 DEF BeginRun, Queue, Lead, CancelQueued, NotifyWait, TakeToken, LockFile,
       CancelLead, ReleaseFile, ReleaseToken, Goto, Entering, vars
  <2> QED
    BY <1>1, <2>1, <2>2 DEF Grants
<1> QED
  BY <1>2, <1>3, <1>4, <1>5, <1>6, <1>7, <1>8 DEF Next
-----------------------------------------------------------------------------
(* Who has the token of a process, and who the file *)

\* What the owners have may change hands without their seeing it.
LEMMA SameHolders ==
  ASSUME Inv, UNCHANGED <<token, flock>>,
         \A o \in Owners : /\ HasToken(o)' <=> HasToken(o)
                           /\ HasFile(o)' <=> HasFile(o)
                           /\ releasing'[o] # "no" => ~OnTheWay(o, {"file", "won"})'
  PROVE  Tokens' /\ Files'
  BY DEF Inv, Tokens, Files

\* Runs on their way, when no run takes or leaves a label that matters.
LEMMA SameWay ==
  ASSUME TypeOK, \A r \in Runs : /\ (pc'[r] = "file") <=> (pc[r] = "file")
                                 /\ (pc'[r] = "won") <=> (pc[r] = "won")
  PROVE  \A o \in Owners : /\ OnTheWay(o, {"file", "won"})' <=> OnTheWay(o, {"file", "won"})
                           /\ OnTheWay(o, {"won"})' <=> OnTheWay(o, {"won"})
  BY RunFacts DEF OnTheWay

\* A run on its way is its owner's only one.
LEMMA OnlyLeader ==
  ASSUME Inv, NEW r \in Runs, Leading(r)
  PROVE  /\ ~acquired[OwnerOf(r)]
         /\ \A s \in RunsOf(OwnerOf(r)) \ {r} : ~Leading(s)
  BY RunFacts DEF Inv, Settled, Led

\* The steps that take and give back neither the token nor the file.
LEMMA HoldersStay ==
  ASSUME Inv,
         \/ \E r \in Runs : \/ BeginRun(r) \/ Reenter(r) \/ Queue(r) \/ Lead(r)
                            \/ CancelQueued(r) \/ NotifyWait(r) \/ RetainUntil(r)
                            \/ CancelLead(r) /\ pc[r] = "token"
         \/ UNCHANGED vars
  PROVE  Tokens' /\ Files'
<1>1. pc \in [Runs -> Labels]
  BY DEF Inv, TypeOK, Labels
<1>2. UNCHANGED <<acquired, releasing, token, flock>>
  BY DEF BeginRun, Reenter, Queue, Lead, CancelQueued, NotifyWait, RetainUntil, CancelLead,
     fields, vars
<1>3. \A r \in Runs : /\ (pc'[r] = "file") <=> (pc[r] = "file")
                      /\ (pc'[r] = "won") <=> (pc[r] = "won")
  BY <1>1 DEF BeginRun, Reenter, Queue, Lead, CancelQueued, NotifyWait, RetainUntil, CancelLead,
     Goto, Entering, vars
<1>4. \A o \in Owners : /\ OnTheWay(o, {"file", "won"})' <=> OnTheWay(o, {"file", "won"})
                        /\ OnTheWay(o, {"won"})' <=> OnTheWay(o, {"won"})
  BY <1>3, SameWay DEF Inv
<1>5. \A o \in Owners : /\ HasToken(o)' <=> HasToken(o)
                        /\ HasFile(o)' <=> HasFile(o)
                        /\ releasing'[o] # "no" => ~OnTheWay(o, {"file", "won"})'
  BY <1>2, <1>4 DEF HasToken, HasFile, Inv, Tokens
<1> QED
  BY <1>2, <1>5, SameHolders

\* An owner whose last run or job ends still has both, until it gives them back.
LEMMA HoldersRelease ==
  ASSUME Inv,
         NEW o \in Owners,
         (\E r \in RunsOf(o) : EndRun(r)) \/ JobDone(o)
  PROVE  Tokens' /\ Files'
<1>1. pc \in [Runs -> Labels] /\ acquired \in [Owners -> BOOLEAN]
  BY DEF Inv, TypeOK, Labels
<1>2. /\ \A q \in Owners \ {o} : acquired'[q] = acquired[q] /\ releasing'[q] = releasing[q]
      /\ \/ acquired[o] /\ ~acquired'[o] /\ releasing'[o] = "file"
         \/ acquired'[o] = acquired[o] /\ releasing'[o] = releasing[o]
  <2>1. CASE JobDone(o)
    <3>1. acquired' \in [Owners -> BOOLEAN]
      BY <2>1, <1>1, ReleaseTypes DEF JobDone, Inv
    <3> QED
      BY <1>1, <2>1, <3>1, JobDoneEffect
  <2>2. ASSUME NEW r \in RunsOf(o), EndRun(r)
        PROVE  /\ \A q \in Owners \ {o} : acquired'[q] = acquired[q] /\ releasing'[q] = releasing[q]
               /\ \/ acquired[o] /\ ~acquired'[o] /\ releasing'[o] = "file"
                  \/ acquired'[o] = acquired[o] /\ releasing'[o] = releasing[o]
    BY <2>2, RunFacts, EndRunEffect
  <2> QED
    BY <2>1, <2>2
<1>3. UNCHANGED <<token, flock>>
  BY DEF EndRun, JobDone
<1>4. \A r \in Runs : /\ (pc'[r] = "file") <=> (pc[r] = "file")
                      /\ (pc'[r] = "won") <=> (pc[r] = "won")
  BY <1>1, RunFacts DEF EndRun, JobDone, Goto
<1>5. \A q \in Owners : /\ OnTheWay(q, {"file", "won"})' <=> OnTheWay(q, {"file", "won"})
                        /\ OnTheWay(q, {"won"})' <=> OnTheWay(q, {"won"})
  BY <1>4, SameWay DEF Inv
<1>6. acquired[o] => releasing[o] = "no" /\ ~OnTheWay(o, {"file", "won"})
  BY NoneOnTheWay DEF Inv, Settled, OnTheWay, Leading
<1>7. \A q \in Owners : /\ HasToken(q)' <=> HasToken(q)
                        /\ HasFile(q)' <=> HasFile(q)
                        /\ releasing'[q] # "no" => ~OnTheWay(q, {"file", "won"})'
  <2>1. \A q \in Owners \ {o} : /\ HasToken(q)' <=> HasToken(q)
                                /\ HasFile(q)' <=> HasFile(q)
                                /\ releasing'[q] # "no" => ~OnTheWay(q, {"file", "won"})'
    BY <1>2, <1>5 DEF HasToken, HasFile, Inv, Tokens
  <2>2. /\ HasToken(o)' <=> HasToken(o)
        /\ HasFile(o)' <=> HasFile(o)
        /\ releasing'[o] # "no" => ~OnTheWay(o, {"file", "won"})'
    BY <1>2, <1>5, <1>6 DEF HasToken, HasFile, Inv, Tokens
  <2> QED
    BY <2>1, <2>2
<1> QED
  BY <1>3, <1>7, SameHolders

\* The leading run hands what it has over to its owner.
LEMMA HoldersSettle ==
  ASSUME Inv, NEW r \in Runs, Settle(r)
  PROVE  Tokens' /\ Files'
<1> DEFINE o == OwnerOf(r)
<1>1. pc \in [Runs -> Labels] /\ o \in Owners /\ r \in RunsOf(o) /\ Leading(r)
  BY RunFacts DEF Inv, TypeOK, Labels, Settle, Leading
<1>2. /\ UNCHANGED <<token, flock, releasing>>
      /\ \A q \in Owners \ {o} : acquired'[q] = acquired[q]
      /\ ~acquired[o] /\ (acquired'[o] <=> pc[r] = "won")
  BY SettleEffect
<1>3. /\ \A s \in Runs \ {r} : /\ (pc'[s] = "file") <=> (pc[s] = "file")
                               /\ (pc'[s] = "won") <=> (pc[s] = "won")
      /\ pc'[r] = "running" /\ pc[r] \in {"won", "lost"}
  BY <1>1 DEF Settle
<1>4. \A s \in RunsOf(o) \ {r} : pc[s] # "file" /\ pc[s] # "won"
  BY <1>1, OnlyLeader DEF Leading
<1> HIDE DEF o
<1>5. /\ ~OnTheWay(o, {"file", "won"})' /\ ~OnTheWay(o, {"won"})'
      /\ OnTheWay(o, {"file", "won"}) <=> pc[r] = "won"
      /\ OnTheWay(o, {"won"}) <=> pc[r] = "won"
  BY <1>1, <1>3, <1>4, RunFacts DEF OnTheWay
<1>6. \A q \in Owners \ {o} : /\ OnTheWay(q, {"file", "won"})' <=> OnTheWay(q, {"file", "won"})
                              /\ OnTheWay(q, {"won"})' <=> OnTheWay(q, {"won"})
  BY <1>1, <1>3, RunFacts DEF OnTheWay
<1>7. \A q \in Owners : /\ HasToken(q)' <=> HasToken(q)
                        /\ HasFile(q)' <=> HasFile(q)
                        /\ releasing'[q] # "no" => ~OnTheWay(q, {"file", "won"})'
  <2>1. \A q \in Owners \ {o} : /\ HasToken(q)' <=> HasToken(q)
                                /\ HasFile(q)' <=> HasFile(q)
                                /\ releasing'[q] # "no" => ~OnTheWay(q, {"file", "won"})'
    BY <1>2, <1>6 DEF HasToken, HasFile, Inv, Tokens
  <2>2. /\ HasToken(o)' <=> HasToken(o)
        /\ HasFile(o)' <=> HasFile(o)
        /\ releasing'[o] # "no" => ~OnTheWay(o, {"file", "won"})'
    BY <1>2, <1>5 DEF HasToken, HasFile
  <2> QED
    BY <2>1, <2>2
<1> QED
  BY <1>2, <1>7, SameHolders

\* The token is taken when it is home, so nobody of the process has it.
LEMMA HoldersTakeToken ==
  ASSUME Inv, NEW r \in Runs, TakeToken(r)
  PROVE  Tokens' /\ Files'
<1> DEFINE o == OwnerOf(r)
<1>1. /\ pc \in [Runs -> Labels] /\ token \in [Processes -> BOOLEAN]
      /\ o \in Owners /\ r \in RunsOf(o) /\ Process(o) \in Processes
  BY RunFacts DEF Inv, TypeOK, Labels
<1>2. /\ token[Process(o)] /\ token' = [token EXCEPT ![Process(o)] = FALSE]
      /\ UNCHANGED <<acquired, releasing, flock>>
      /\ pc[r] = "token" /\ pc'[r] = "file"
      /\ \A s \in Runs \ {r} : pc'[s] = pc[s]
  BY <1>1 DEF TakeToken, Goto, fields
<1>3. \A q \in Owners : Process(q) = Process(o) => ~HasToken(q)
  BY <1>1, <1>2 DEF Inv, Tokens
<1> HIDE DEF o
<1>4. /\ \A q \in Owners : OnTheWay(q, {"won"})' <=> OnTheWay(q, {"won"})
      /\ \A q \in Owners \ {o} : OnTheWay(q, {"file", "won"})' <=> OnTheWay(q, {"file", "won"})
      /\ OnTheWay(o, {"file", "won"})'
  BY <1>1, <1>2, RunFacts DEF OnTheWay
<1>5. /\ \A q \in Owners : HasFile(q)' <=> HasFile(q)
      /\ \A q \in Owners \ {o} : HasToken(q)' <=> HasToken(q)
      /\ HasToken(o)'
  BY <1>2, <1>4 DEF HasFile, HasToken
<1>6. releasing[o] = "no"
  BY <1>1, <1>3 DEF HasToken
<1>7. Files'
  BY <1>2, <1>5 DEF Inv, Files
<1>8. \A q \in Owners : releasing'[q] # "no" => ~OnTheWay(q, {"file", "won"})'
  BY <1>2, <1>4, <1>6 DEF Inv, Tokens
<1>9. \A q \in Owners : HasToken(q)' => ~token'[Process(q)]
  BY <1>1, <1>2, <1>5 DEF Inv, Tokens
<1>10. \A p \in Processes : ~token'[p] => \E q \in Owners : Process(q) = p /\ HasToken(q)'
  <2> SUFFICES ASSUME NEW p \in Processes, ~token'[p]
               PROVE  \E q \in Owners : Process(q) = p /\ HasToken(q)'
    OBVIOUS
  <2>1. CASE p = Process(o)
    BY <1>1, <1>5, <2>1
  <2>2. CASE p # Process(o)
    <3>1. PICK q \in Owners : Process(q) = p /\ HasToken(q)
      BY <1>1, <1>2, <2>2 DEF Inv, Tokens
    <3> QED
      BY <1>5, <2>2, <3>1
  <2> QED
    BY <2>1, <2>2
<1>11. \A q, s \in Owners : HasToken(q)' /\ HasToken(s)' /\ Process(q) = Process(s) => q = s
  BY <1>3, <1>5 DEF Inv, Tokens
<1> QED
  BY <1>7, <1>8, <1>9, <1>10, <1>11 DEF Tokens

\* The file is locked when nobody holds it.
LEMMA HoldersLockFile ==
  ASSUME Inv, NEW r \in Runs, LockFile(r)
  PROVE  Tokens' /\ Files'
<1> DEFINE o == OwnerOf(r)
<1>1. pc \in [Runs -> Labels] /\ o \in Owners /\ r \in RunsOf(o)
  BY RunFacts DEF Inv, TypeOK, Labels
<1>2. /\ UNCHANGED <<acquired, releasing, token>>
      /\ flock = None /\ flock' = o
      /\ pc[r] = "file" /\ pc'[r] = "won"
      /\ \A s \in Runs \ {r} : pc'[s] = pc[s]
  BY <1>1 DEF LockFile, Goto, fields
<1>3. \A q \in Owners : ~HasFile(q)
  BY <1>2, ConstantsAssumption DEF Inv, Files
<1> HIDE DEF o
<1>4. /\ \A q \in Owners : OnTheWay(q, {"file", "won"})' <=> OnTheWay(q, {"file", "won"})
      /\ \A q \in Owners \ {o} : OnTheWay(q, {"won"})' <=> OnTheWay(q, {"won"})
      /\ OnTheWay(o, {"won"})'
  BY <1>1, <1>2, RunFacts DEF OnTheWay
<1>5. /\ \A q \in Owners : HasToken(q)' <=> HasToken(q)
      /\ \A q \in Owners \ {o} : HasFile(q)' <=> HasFile(q)
      /\ HasFile(o)'
  BY <1>2, <1>4 DEF HasFile, HasToken
<1>6. Files'
  BY <1>1, <1>2, <1>3, <1>5 DEF Files
<1>7. Tokens'
  BY <1>2, <1>4, <1>5 DEF Inv, Tokens
<1> QED
  BY <1>6, <1>7

\* A process whose one holder of the token gives it up has it back.
LEMMA TokenHome ==
  ASSUME Inv, NEW o \in Owners, HasToken(o), ~HasToken(o)',
         token' = [token EXCEPT ![Process(o)] = TRUE],
         \A q \in Owners \ {o} : HasToken(q)' <=> HasToken(q),
         \A q \in Owners : releasing'[q] # "no" => ~OnTheWay(q, {"file", "won"})'
  PROVE  Tokens'
<1>1. token \in [Processes -> BOOLEAN] /\ \A q \in Owners : Process(q) \in Processes
  BY RunFacts DEF Inv, TypeOK
<1>2. \A q \in Owners : HasToken(q)' => ~token'[Process(q)]
  BY <1>1 DEF Inv, Tokens
<1>3. \A p \in Processes : ~token'[p] => \E q \in Owners : Process(q) = p /\ HasToken(q)'
  <2> SUFFICES ASSUME NEW p \in Processes, ~token'[p]
               PROVE  \E q \in Owners : Process(q) = p /\ HasToken(q)'
    OBVIOUS
  <2>1. p # Process(o) /\ ~token[p]
    BY <1>1
  <2>2. PICK q \in Owners : Process(q) = p /\ HasToken(q)
    BY <2>1 DEF Inv, Tokens
  <2> QED
    BY <2>1, <2>2
<1>4. \A q, s \in Owners : HasToken(q)' /\ HasToken(s)' /\ Process(q) = Process(s) => q = s
  BY DEF Inv, Tokens
<1> QED
  BY <1>2, <1>3, <1>4 DEF Tokens

\* A cancelled wait for the file gives the token back.
LEMMA HoldersCancel ==
  ASSUME Inv, NEW r \in Runs, CancelLead(r), pc[r] = "file"
  PROVE  Tokens' /\ Files'
<1> DEFINE o == OwnerOf(r)
<1>1. pc \in [Runs -> Labels] /\ o \in Owners /\ r \in RunsOf(o) /\ Leading(r)
  BY RunFacts DEF Inv, TypeOK, Labels, Leading
<1>2. /\ UNCHANGED <<acquired, releasing, flock>>
      /\ token' = [token EXCEPT ![Process(o)] = TRUE]
      /\ pc'[r] = "lost" /\ \A s \in Runs \ {r} : pc'[s] = pc[s]
  BY <1>1 DEF CancelLead, Goto, fields
<1>3. ~acquired[o] /\ \A s \in RunsOf(o) \ {r} : pc[s] # "file" /\ pc[s] # "won"
  BY <1>1, OnlyLeader DEF Leading
<1> HIDE DEF o
<1>4. /\ \A q \in Owners : OnTheWay(q, {"won"})' <=> OnTheWay(q, {"won"})
      /\ \A q \in Owners \ {o} : OnTheWay(q, {"file", "won"})' <=> OnTheWay(q, {"file", "won"})
      /\ OnTheWay(o, {"file", "won"}) /\ ~OnTheWay(o, {"file", "won"})'
  BY <1>1, <1>2, <1>3, RunFacts DEF OnTheWay
<1>5. releasing[o] = "no"
  BY <1>1, <1>4 DEF Inv, Tokens
<1>6. /\ \A q \in Owners : HasFile(q)' <=> HasFile(q)
      /\ \A q \in Owners \ {o} : HasToken(q)' <=> HasToken(q)
      /\ HasToken(o) /\ ~HasToken(o)'
  BY <1>2, <1>3, <1>4, <1>5 DEF HasFile, HasToken
<1>7. Files'
  BY <1>2, <1>6 DEF Inv, Files
<1>8. \A q \in Owners : releasing'[q] # "no" => ~OnTheWay(q, {"file", "won"})'
  BY <1>2, <1>4 DEF Inv, Tokens
<1> QED
  BY <1>1, <1>2, <1>6, <1>7, <1>8, TokenHome

\* releaseSystem gives the file back, then the token.
LEMMA HoldersReturn ==
  ASSUME Inv, NEW o \in Owners, ReleaseFile(o) \/ ReleaseToken(o)
  PROVE  Tokens' /\ Files'
<1>1. releasing \in [Owners -> {"no", "file", "token"}]
  BY DEF Inv, TypeOK
<1>2. /\ UNCHANGED <<acquired, pc>>
      /\ \A q \in Owners \ {o} : releasing'[q] = releasing[q]
      /\ releasing[o] # "no"
  BY <1>1 DEF ReleaseFile, ReleaseToken, fields
<1>3. /\ \A q \in Owners : OnTheWay(q, {"won"})' <=> OnTheWay(q, {"won"})
      /\ \A q \in Owners : OnTheWay(q, {"file", "won"})' <=> OnTheWay(q, {"file", "won"})
  BY <1>2 DEF OnTheWay
<1>4. ~acquired[o] /\ ~OnTheWay(o, {"file", "won"}) /\ ~OnTheWay(o, {"won"})
  <2>1. ~acquired[o] /\ ~OnTheWay(o, {"file", "won"})
    BY <1>2 DEF Inv, Settled, Tokens
  <2> QED
    BY <2>1 DEF OnTheWay
<1>5. \A q \in Owners \ {o} : (HasToken(q)' <=> HasToken(q)) /\ (HasFile(q)' <=> HasFile(q))
  BY <1>2, <1>3 DEF HasToken, HasFile
<1>6. \A q \in Owners : releasing'[q] # "no" => ~OnTheWay(q, {"file", "won"})'
  BY <1>2, <1>3, <1>4 DEF Inv, Tokens
<1>7. CASE ReleaseFile(o)
  <2>1. releasing[o] = "file" /\ releasing'[o] = "token" /\ flock' = None /\ UNCHANGED token
    BY <1>1, <1>7 DEF ReleaseFile
  <2>2. HasFile(o) /\ ~HasFile(o)' /\ (HasToken(o)' <=> HasToken(o))
    BY <1>2, <1>3, <1>4, <2>1 DEF HasFile, HasToken
  <2>3. flock = o
    BY <2>2 DEF Inv, Files
  <2>4. Files'
    BY <1>5, <2>1, <2>2, <2>3, ConstantsAssumption DEF Inv, Files
  <2>5. Tokens'
    BY <1>5, <1>6, <2>1, <2>2 DEF Inv, Tokens
  <2> QED
    BY <2>4, <2>5
<1>8. CASE ReleaseToken(o)
  <2>1. /\ releasing[o] = "token" /\ releasing'[o] = "no" /\ UNCHANGED flock
        /\ token' = [token EXCEPT ![Process(o)] = TRUE]
    BY <1>1, <1>8 DEF ReleaseToken
  <2>2. HasToken(o) /\ ~HasToken(o)' /\ (HasFile(o)' <=> HasFile(o))
    BY <1>2, <1>3, <1>4, <2>1 DEF HasFile, HasToken
  <2>3. Files'
    BY <1>5, <2>1, <2>2 DEF Inv, Files
  <2> QED
    BY <1>5, <1>6, <2>1, <2>2, <2>3, TokenHome
<1> QED
  BY <1>7, <1>8

\* The system takes both back from a process that dies, and from nobody else.
LEMMA HoldersCrash ==
  ASSUME Inv, NEW p \in Processes, Crash(p)
  PROVE  Tokens' /\ Files'
<1>1. token \in [Processes -> BOOLEAN] /\ flock \in Owners \cup {None}
  BY DEF Inv, TypeOK
<1>2. /\ token' = [token EXCEPT ![p] = TRUE]
      /\ flock' = IF flock # None /\ Process(flock) = p THEN None ELSE flock
      /\ \A q \in Owners :
           IF Process(q) = p THEN ~acquired'[q] /\ releasing'[q] = "no"
           ELSE acquired'[q] = acquired[q] /\ releasing'[q] = releasing[q]
      /\ \A s \in Runs : pc'[s] = IF Process(OwnerOf(s)) = p THEN "out" ELSE pc[s]
  BY RunFacts DEF Crash
<1>3. \A q \in Owners :
        /\ Process(q) = p => ~OnTheWay(q, {"file", "won"})' /\ ~OnTheWay(q, {"won"})'
        /\ Process(q) # p => /\ OnTheWay(q, {"file", "won"})' <=> OnTheWay(q, {"file", "won"})
                             /\ OnTheWay(q, {"won"})' <=> OnTheWay(q, {"won"})
  BY <1>2, RunFacts DEF OnTheWay
<1>4. \A q \in Owners :
        /\ Process(q) = p => ~HasToken(q)' /\ ~HasFile(q)'
        /\ Process(q) # p => (HasToken(q)' <=> HasToken(q)) /\ (HasFile(q)' <=> HasFile(q))
  BY <1>2, <1>3 DEF HasToken, HasFile
<1>5. Files'
  BY <1>1, <1>2, <1>4, ConstantsAssumption DEF Inv, Files
<1>6. \A q \in Owners : releasing'[q] # "no" => ~OnTheWay(q, {"file", "won"})'
  BY <1>2, <1>3 DEF Inv, Tokens
<1>7. \A q \in Owners : HasToken(q)' => ~token'[Process(q)]
  BY <1>1, <1>2, <1>4, RunFacts DEF Inv, Tokens
<1>8. \A x \in Processes : ~token'[x] => \E q \in Owners : Process(q) = x /\ HasToken(q)'
  <2> SUFFICES ASSUME NEW x \in Processes, ~token'[x]
               PROVE  \E q \in Owners : Process(q) = x /\ HasToken(q)'
    OBVIOUS
  <2>1. x # p /\ ~token[x]
    BY <1>1, <1>2
  <2>2. PICK q \in Owners : Process(q) = x /\ HasToken(q)
    BY <2>1 DEF Inv, Tokens
  <2> QED
    BY <1>4, <2>1, <2>2
<1>9. \A q, s \in Owners : HasToken(q)' /\ HasToken(s)' /\ Process(q) = Process(s) => q = s
  BY <1>4 DEF Inv, Tokens
<1> QED
  BY <1>5, <1>6, <1>7, <1>8, <1>9 DEF Tokens

\* The token of a process and the file have at most one holder, and are home
\* without one, through every step.
LEMMA HoldersStep == Inv /\ [Next]_vars => Tokens' /\ Files'
<1> SUFFICES ASSUME Inv, [Next]_vars PROVE Tokens' /\ Files'
  OBVIOUS
<1>1. ASSUME \/ \E r \in Runs : \/ BeginRun(r) \/ Reenter(r) \/ Queue(r) \/ Lead(r)
                                \/ CancelQueued(r) \/ NotifyWait(r) \/ RetainUntil(r)
             \/ UNCHANGED vars
      PROVE  Tokens' /\ Files'
  BY <1>1, HoldersStay
<1>2. ASSUME NEW r \in Runs, CancelLead(r) PROVE Tokens' /\ Files'
  <2>1. CASE pc[r] = "token"
    BY <1>2, <2>1, HoldersStay
  <2>2. CASE pc[r] = "file"
    BY <1>2, <2>2, HoldersCancel
  <2> QED
    BY <1>2, <2>1, <2>2 DEF CancelLead
<1>3. ASSUME NEW r \in Runs, EndRun(r) PROVE Tokens' /\ Files'
  BY <1>3, RunFacts, HoldersRelease
<1>4. ASSUME NEW o \in Owners, JobDone(o) PROVE Tokens' /\ Files'
  BY <1>4, HoldersRelease
<1> QED
  BY <1>1, <1>2, <1>3, <1>4, HoldersTakeToken, HoldersLockFile, HoldersSettle, HoldersReturn,
     HoldersCrash DEF Next
-----------------------------------------------------------------------------
(* Theorems *)

\* Inv is an invariant: what every owner, run and holder is promised is kept by
\* every action of AcquireWrite, RetainUntil, releaseIfIdleLocked and by a crash.
THEOREM Inductive == Spec => []Inv
<1>1. Inv /\ [Next]_vars => Inv'
  <2> SUFFICES ASSUME Inv, [Next]_vars PROVE Inv'
    OBVIOUS
  <2>1. TypeOK'
    BY TypeStep DEF Inv
  <2> QED
    BY <2>1, CountedStep, LedStep, SettledStep, HoldersStep, GrantsStep DEF Inv
<1> QED
  BY InitInv, <1>1, PTL DEF Spec

\* Every variable of the lease keeps its type.
THEOREM LeaseTypes == Spec => []TypeOK
<1>1. Inv => TypeOK
  BY DEF Inv
<1> QED
  BY <1>1, Inductive, PTL

\* Two sessions never write at once, whatever runs, jobs, cancellations and
\* crashes come between (AcquireWrite, RetainUntil, releaseIfIdleLocked).
THEOREM Exclusive == Spec => []WritersExclusive
<1>1. Inv => WritersExclusive
  <2> SUFFICES ASSUME Inv, NEW o \in Writing PROVE flock = o /\ acquired[o]
    BY DEF WritersExclusive
  <2>1. o \in Owners /\ acquired[o]
    BY RunFacts DEF Writing, Inv, TypeOK, Grants
  <2>2. HasFile(o)
    BY <2>1 DEF HasFile
  <2> QED
    BY <2>1, <2>2 DEF Inv, Files
<1> QED
  BY <1>1, Inductive, PTL

\* A session whose runs and jobs are over and whose release is through has
\* given everything back (acquire's error paths, releaseSystem, Settle).
THEOREM GivenBack == Spec => []NothingLeaks
<1>1. Inv => NothingLeaks
  <2> SUFFICES ASSUME Inv PROVE NothingLeaks
    OBVIOUS
  <2> DEFINE Over(o) == activeRuns[o] = 0 /\ background[o] = 0 /\ releasing[o] = "no"
  <2>1. ASSUME NEW o \in Owners, Over(o)
        PROVE  ~acquired[o] /\ \A r \in RunsOf(o) : pc[r] = "out"
    <3>1. \A r \in RunsOf(o) : pc[r] = "out"
      BY <2>1, Needed, RunFacts
    <3> QED
      BY <2>1, <3>1 DEF Inv, Settled
  <2>2. ASSUME NEW o \in Owners, Over(o)
        PROVE  ~HasToken(o) /\ ~HasFile(o) /\ ~acquiring[o] /\ ~acquired[o]
    BY <2>1, <2>2 DEF HasToken, HasFile, OnTheWay, Inv, Led, Leading
  <2>3. ASSUME NEW o \in Owners, \A q \in Owners : Process(q) = Process(o) => Over(q)
        PROVE  token[Process(o)]
    BY <2>2, <2>3, RunFacts DEF Inv, Tokens
  <2>4. ASSUME NEW o \in Owners, Over(o) PROVE flock # o
    BY <2>2, <2>4 DEF Inv, Files
  <2> QED
    BY <2>2, <2>3, <2>4 DEF NothingLeaks
<1> QED
  BY <1>1, Inductive, PTL

\* An owner that is acquiring has exactly one run to finish that and to wake the
\* others, and one that is not has none (AcquireWrite's acquiring flag).
THEOREM LedByOne == Spec => []OneLeader
<1>1. Inv => OneLeader
  <2> SUFFICES ASSUME Inv, NEW o \in Owners
               PROVE  LET leaders == {r \in RunsOf(o) : Leading(r)}
                      IN  (acquiring[o] <=> leaders # {}) /\ Cardinality(leaders) <= 1
    BY DEF OneLeader, Leading
  <2> DEFINE leaders == {r \in RunsOf(o) : Leading(r)}
  <2>1. acquiring[o] <=> leaders # {}
    BY RunFacts DEF Inv, Led
  <2>2. \A r, s \in leaders : r = s
    BY RunFacts DEF Inv, Led
  <2>3. leaders = {} \/ \E r \in leaders : leaders = {r}
    BY <2>2
  <2> HIDE DEF leaders
  <2>4. Cardinality(leaders) <= 1
    BY <2>3, FS_EmptySet, FS_Singleton
  <2> QED
    BY <2>1, <2>4 DEF leaders
<1> QED
  BY <1>1, Inductive, PTL
=============================================================================
