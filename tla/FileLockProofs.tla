--------------------------- MODULE FileLockProofs ---------------------------
(***************************************************************************)
(* Theorems about FileLock for any number of processes and goroutines.     *)
(* Reclaiming a registry entry when its count reaches zero is safe because *)
(* the count is the number of goroutines that remember the entry and every *)
(* remembered entry is the registered one: that is the inductive invariant *)
(* IInv, and the properties of FileLock follow from it.                    *)
(***************************************************************************)
EXTENDS FileLock, FiniteSetTheorems, TLAPS

\* A goroutine outside idle remembers the entry registered for its process.
Registered ==
  \A t \in Threads :
    IF pc[t] = "idle" THEN local[t] = None
    ELSE local[t] \in Entries /\ locks[Process(t)] = local[t]

\* Processes share no memory, and a registered entry is in use.
Separate ==
  \A p \in Processes :
    locks[p] # None => /\ Users(locks[p]) # {}
                       /\ \A q \in Processes : locks[q] = locks[p] => p = q

\* refs counts the goroutines that remember the entry.
Counted == \A e \in Entries : refs[e] = Cardinality(Users(e))

\* The token of an entry is in the channel, or exactly one goroutine has it.
TokenOnce ==
  \A e \in Entries :
    /\ token[e] => \A t \in Users(e) : ~Owning(t)
    /\ ~token[e] => \E t \in Users(e) : Owning(t)
    /\ \A t, u \in Users(e) : Owning(t) /\ Owning(u) => t = u

IInv == TypeOK /\ Registered /\ Separate /\ Counted /\ TokenOnce /\ HeldMeansLocked

-----------------------------------------------------------------------------
\* There are finitely many goroutines, so every entry has finitely many users.
LEMMA UsersFinite == \A e : IsFiniteSet(Users(e))
<1>1. IsFiniteSet(Threads)
  BY ConstantsAssumption, FS_Product DEF Threads
<1> QED
  BY <1>1, FS_Subset DEF Users

\* The initial state satisfies the inductive invariant.
LEMMA InitIInv == Init => IInv
<1> SUFFICES ASSUME Init PROVE IInv
  OBVIOUS
<1>1. \A e \in Entries : Users(e) = {}
  BY ConstantsAssumption DEF Init, Users
<1>2. TypeOK
  BY DEF Init, TypeOK
<1>3. Registered /\ Separate
  BY DEF Init, Registered, Separate
<1>4. Counted
  BY <1>1, FS_EmptySet DEF Init, Counted
<1>5. TokenOnce
  BY <1>1 DEF Init, TokenOnce
<1>6. HeldMeansLocked
  BY ConstantsAssumption DEF Init, HeldMeansLocked
<1> QED
  BY <1>2, <1>3, <1>4, <1>5, <1>6 DEF IInv

-----------------------------------------------------------------------------
\* A lookup returns an entry of no other process whose count and token are up
\* to date, whether it was registered or is made anew.
LEMMA LookupFacts ==
  ASSUME IInv, NEW p \in Processes, NEW e \in Lookup(p)
  PROVE  /\ e \in Entries
         /\ RefsNow(p, e) = refs[e] /\ HasToken(p, e) = token[e]
         /\ \A q \in Processes : locks[q] = e => q = p
         /\ locks[p] \in {None, e}
<1>1. CASE locks[p] # None
  <2>1. e = locks[p] /\ e \in Entries
    BY <1>1 DEF Lookup, IInv, TypeOK
  <2>2. token[e] \in BOOLEAN
    BY <2>1 DEF IInv, TypeOK
  <2> QED
    BY <1>1, <2>1, <2>2 DEF RefsNow, HasToken, IInv, Separate
<1>2. CASE locks[p] = None
  <2>1. e \in Entries /\ Users(e) = {} /\ \A q \in Processes : locks[q] # e
    BY <1>2 DEF Lookup
  <2>2. refs[e] = 0
    BY <2>1, FS_EmptySet DEF IInv, Counted
  <2>3. token[e] = TRUE
    BY <2>1 DEF IInv, TokenOnce, TypeOK
  <2> QED
    BY <1>2, <2>1, <2>2, <2>3 DEF RefsNow, HasToken
<1> QED
  BY <1>1, <1>2

\* A goroutine that joins an entry: its users and its count grow by one.
LEMMA Joins ==
  ASSUME IInv, NEW t \in Threads, NEW e \in Entries, local[t] = None,
         local' = [local EXCEPT ![t] = e], refs' = [refs EXCEPT ![e] = refs[e] + 1]
  PROVE  /\ Users(e)' = Users(e) \cup {t} /\ t \notin Users(e)
         /\ \A x \in Entries \ {e} : Users(x)' = Users(x)
         /\ Counted'
<1>1. Users(e)' = Users(e) \cup {t} /\ t \notin Users(e)
  BY ConstantsAssumption DEF Users, IInv, TypeOK
<1>2. \A x \in Entries \ {e} : Users(x)' = Users(x)
  BY ConstantsAssumption DEF Users, IInv, TypeOK
<1>3. Cardinality(Users(e)') = Cardinality(Users(e)) + 1
  BY <1>1, UsersFinite, FS_AddElement
<1>4. Counted'
  BY <1>2, <1>3 DEF Counted, IInv, TypeOK
<1> QED
  BY <1>1, <1>2, <1>4

\* A goroutine that leaves its entry: users and count shrink by one, and the
\* count was one exactly when nobody else remembers the entry.
LEMMA Leaves ==
  ASSUME IInv, NEW t \in Threads, NEW e \in Entries, local[t] = e, Leave(t)
  PROVE  /\ Users(e)' = Users(e) \ {t} /\ t \in Users(e)
         /\ \A x \in Entries \ {e} : Users(x)' = Users(x)
         /\ Counted'
         /\ refs[e] <= 1 <=> Users(e)' = {}
<1>1. refs[e] \in Nat /\ local' = [local EXCEPT ![t] = None]
  BY DEF IInv, TypeOK, Leave
<1>2. Users(e)' = Users(e) \ {t} /\ t \in Users(e)
  BY <1>1, ConstantsAssumption DEF Users, IInv, TypeOK
<1>3. \A x \in Entries \ {e} : Users(x)' = Users(x)
  BY <1>1, ConstantsAssumption DEF Users, IInv, TypeOK
<1>4. Cardinality(Users(e)') = Cardinality(Users(e)) - 1 /\ IsFiniteSet(Users(e)')
  BY <1>2, UsersFinite, FS_RemoveElement
<1>5. refs[e] = Cardinality(Users(e)) /\ Cardinality(Users(e)') \in Nat
  BY <1>4, FS_CardinalityType DEF IInv, Counted
<1>6. refs[e] > 0 /\ refs'[e] = refs[e] - 1
  BY <1>1, <1>4, <1>5 DEF Leave, IInv, TypeOK
<1>7. Counted'
  <2> SUFFICES ASSUME NEW x \in Entries PROVE refs'[x] = Cardinality(Users(x)')
    BY DEF Counted
  <2>1. CASE x = e
    BY <2>1, <1>4, <1>5, <1>6
  <2>2. CASE x # e
    <3>1. refs'[x] = refs[x]
      BY <2>2 DEF Leave, IInv, TypeOK
    <3> QED
      BY <2>2, <3>1, <1>3 DEF IInv, Counted
  <2> QED
    BY <2>1, <2>2
<1>8. refs[e] <= 1 <=> Users(e)' = {}
  BY <1>1, <1>4, <1>5, FS_EmptySet
<1> QED
  BY <1>2, <1>3, <1>7, <1>8

-----------------------------------------------------------------------------
\* Registering, with or without taking the token, preserves the invariant.
LEMMA JoinStep ==
  ASSUME IInv, NEW t \in Threads, NEW e \in Lookup(Process(t)), pc[t] = "idle",
         NEW label \in {"token", "try"}, Goto(t, label),
         locks' = [locks EXCEPT ![Process(t)] = e],
         local' = [local EXCEPT ![t] = e],
         refs' = [refs EXCEPT ![e] = RefsNow(Process(t), e) + 1],
         token' = [token EXCEPT ![e] = HasToken(Process(t), e) /\ label = "token"],
         label = "try" => HasToken(Process(t), e),
         UNCHANGED flock
  PROVE  IInv'
<1>p. Process(t) \in Processes
  BY DEF Process, Threads
<1>1. /\ e \in Entries
      /\ RefsNow(Process(t), e) = refs[e] /\ HasToken(Process(t), e) = token[e]
      /\ \A q \in Processes : locks[q] = e => q = Process(t)
      /\ locks[Process(t)] \in {None, e}
  BY <1>p, LookupFacts
<1>2. local[t] = None /\ e # None
  BY <1>1, ConstantsAssumption DEF IInv, Registered
<1>3. /\ Users(e)' = Users(e) \cup {t} /\ t \notin Users(e)
      /\ \A x \in Entries \ {e} : Users(x)' = Users(x)
      /\ Counted'
  BY <1>1, <1>2, Joins
<1>4. TypeOK'
  BY <1>1, <1>p DEF IInv, TypeOK, Goto
<1>5. Registered'
  <2> SUFFICES ASSUME NEW u \in Threads
               PROVE  IF pc'[u] = "idle" THEN local'[u] = None
                      ELSE local'[u] \in Entries /\ locks'[Process(u)] = local'[u]
    BY DEF Registered
  <2>1. CASE u = t
    BY <2>1, <1>1, <1>p DEF IInv, TypeOK, Goto
  <2>2. CASE u # t
    <3>1. pc'[u] = pc[u] /\ local'[u] = local[u] /\ Process(u) \in Processes
      BY <2>2 DEF IInv, TypeOK, Goto, Process, Threads
    <3>2. pc[u] # "idle" => locks'[Process(u)] = locks[Process(u)]
      BY <3>1, <1>1, ConstantsAssumption DEF IInv, TypeOK, Registered
    <3> QED
      BY <3>1, <3>2 DEF IInv, Registered
  <2> QED
    BY <2>1, <2>2
<1>6. Separate'
  <2> SUFFICES ASSUME NEW p \in Processes, locks'[p] # None
               PROVE  /\ (Users(locks[p]) # {})'
                      /\ \A q \in Processes : locks'[q] = locks'[p] => p = q
    BY DEF Separate
  <2>1. CASE p = Process(t)
    BY <2>1, <1>1, <1>3, <1>p DEF IInv, TypeOK
  <2>2. CASE p # Process(t)
    <3>1. locks'[p] = locks[p] /\ locks[p] # e /\ locks[p] \in Entries
      BY <2>2, <1>1 DEF IInv, TypeOK
    <3> QED
      BY <3>1, <2>2, <1>1, <1>3 DEF IInv, TypeOK, Separate
  <2> QED
    BY <2>1, <2>2
<1>7. TokenOnce'
  <2>1. \A u \in Threads \ {t} : Owning(u)' <=> Owning(u)
    BY DEF Owning, Goto, IInv, TypeOK
  <2>2. Owning(t)' <=> label = "try"
    BY DEF Owning, Goto, IInv, TypeOK
  <2> SUFFICES ASSUME NEW x \in Entries
               PROVE  /\ token'[x] => \A u \in Users(x)' : ~Owning(u)'
                      /\ ~token'[x] => \E u \in Users(x)' : Owning(u)'
                      /\ \A u, v \in Users(x)' : Owning(u)' /\ Owning(v)' => u = v
    BY DEF TokenOnce
  <2>3. Users(x)' \subseteq Threads
    BY DEF Users
  <2>4. CASE x # e
    <3>1. token'[x] = token[x] /\ Users(x)' = Users(x) /\ t \notin Users(x)
      BY <2>4, <1>2, <1>3, ConstantsAssumption DEF IInv, TypeOK, Users
    <3> QED
      BY <3>1, <2>1, <2>3 DEF IInv, TokenOnce
  <2>5. CASE x = e
    <3>1. token'[x] <=> token[e] /\ label = "token"
      BY <2>5, <1>1 DEF IInv, TypeOK
    <3>2. Users(x)' = Users(e) \cup {t} /\ t \notin Users(e)
      BY <2>5, <1>3
    <3>3. label = "try" => token[e]
      BY <1>1
    <3> QED
      BY <3>1, <3>2, <3>3, <2>1, <2>2, <2>3, <1>1 DEF IInv, TokenOnce
  <2> QED
    BY <2>4, <2>5
<1>8. HeldMeansLocked'
  BY DEF IInv, TypeOK, HeldMeansLocked, Goto
<1> QED
  BY <1>3, <1>4, <1>5, <1>6, <1>7, <1>8 DEF IInv

\* Leaving, from the wait for the token or with the token in hand, preserves
\* the invariant: when the entry is forgotten nobody remembers it.
LEMMA LeaveStep ==
  ASSUME IInv, NEW t \in Threads, pc[t] \notin {"idle", "held"}, Leave(t),
         IF pc[t] = "token" THEN UNCHANGED token
         ELSE token' = [token EXCEPT ![local[t]] = TRUE],
         UNCHANGED flock
  PROVE  IInv'
<1>p. Process(t) \in Processes
  BY DEF Process, Threads
<1>0. local[t] \in Entries /\ locks[Process(t)] = local[t]
  BY DEF IInv, Registered
<1>1. PICK e \in Entries : e = local[t]
  BY <1>0
<1>2. /\ Users(e)' = Users(e) \ {t} /\ t \in Users(e)
      /\ \A x \in Entries \ {e} : Users(x)' = Users(x)
      /\ Counted'
      /\ refs[e] <= 1 <=> Users(e)' = {}
  BY <1>1, Leaves
<1>3. /\ locks' = IF Users(e)' = {} THEN [locks EXCEPT ![Process(t)] = None] ELSE locks
      /\ local' = [local EXCEPT ![t] = None] /\ pc' = [pc EXCEPT ![t] = "idle"]
  <2>1. local' = [local EXCEPT ![t] = None] /\ pc' = [pc EXCEPT ![t] = "idle"]
    BY DEF Leave, Goto
  <2>2. locks' = IF refs[e] <= 1 THEN [locks EXCEPT ![Process(t)] = None] ELSE locks
    BY <1>1 DEF Leave
  <2>3. CASE Users(e)' = {}
    BY <2>1, <2>2, <2>3, <1>2
  <2>4. CASE Users(e)' # {}
    BY <2>1, <2>2, <2>4, <1>2
  <2> QED
    BY <2>3, <2>4
<1>4. TypeOK'
  <2>1. locks' \in [Processes -> Entries \cup {None}]
    BY <1>3, <1>p DEF IInv, TypeOK
  <2>2. refs' \in [Entries -> Nat]
    BY <1>1 DEF IInv, TypeOK, Leave
  <2>3. token' \in [Entries -> BOOLEAN]
    BY <1>1 DEF IInv, TypeOK
  <2> QED
    BY <2>1, <2>2, <2>3, <1>3 DEF IInv, TypeOK
<1>5. Registered'
  <2> SUFFICES ASSUME NEW u \in Threads
               PROVE  IF pc'[u] = "idle" THEN local'[u] = None
                      ELSE local'[u] \in Entries /\ locks'[Process(u)] = local'[u]
    BY DEF Registered
  <2>1. CASE u = t
    BY <2>1, <1>3 DEF IInv, TypeOK
  <2>2. CASE u # t
    <3>1. pc'[u] = pc[u] /\ local'[u] = local[u] /\ Process(u) \in Processes
      BY <2>2, <1>3 DEF IInv, TypeOK, Process, Threads
    <3>2. ASSUME pc[u] # "idle" PROVE locks'[Process(u)] = locks[Process(u)]
      <4>1. CASE Process(u) # Process(t)
        BY <4>1, <3>1, <1>3, <1>p DEF IInv, TypeOK
      <4>2. CASE Process(u) = Process(t)
        <5>1. local[u] = e
          BY <4>2, <3>2, <1>0, <1>1 DEF IInv, Registered
        <5>2. u \in Users(e)'
          BY <5>1, <1>2, <2>2 DEF Users
        <5> QED
          BY <5>2, <1>3
      <4> QED
        BY <4>1, <4>2
    <3> QED
      BY <3>1, <3>2 DEF IInv, Registered
  <2> QED
    BY <2>1, <2>2
<1>6. Separate'
  <2> SUFFICES ASSUME NEW p \in Processes, locks'[p] # None
               PROVE  /\ (Users(locks[p]) # {})'
                      /\ \A q \in Processes : locks'[q] = locks'[p] => p = q
    BY DEF Separate
  <2>1. locks'[p] = locks[p] /\ locks[p] \in Entries
    BY <1>3, <1>p DEF IInv, TypeOK
  <2>2. \A q \in Processes : locks'[q] = locks'[p] => p = q
    BY <2>1, <1>3, <1>p, ConstantsAssumption DEF IInv, TypeOK, Separate
  <2>3. CASE locks[p] = e
    <3>1. p = Process(t)
      BY <2>3, <1>0, <1>1, <1>p, ConstantsAssumption DEF IInv, Separate
    <3>2. Users(e)' # {}
      BY <3>1, <2>1, <1>3, <1>p, ConstantsAssumption DEF IInv, TypeOK
    <3> QED
      BY <3>2, <2>1, <2>2, <2>3
  <2>4. CASE locks[p] # e
    <3>1. Users(locks[p])  # {}
      BY <2>1, ConstantsAssumption DEF IInv, Separate
    <3> QED
      BY <3>1, <2>1, <2>2, <2>4, <1>2 DEF Users
  <2> QED
    BY <2>3, <2>4
<1>7. TokenOnce'
  <2>1. \A u \in Threads \ {t} : Owning(u)' <=> Owning(u)
    BY <1>3 DEF Owning, IInv, TypeOK
  <2>2. Owning(t) <=> pc[t] # "token"
    BY DEF Owning, IInv, TypeOK
  <2> SUFFICES ASSUME NEW x \in Entries
               PROVE  /\ token'[x] => \A u \in Users(x)' : ~Owning(u)'
                      /\ ~token'[x] => \E u \in Users(x)' : Owning(u)'
                      /\ \A u, v \in Users(x)' : Owning(u)' /\ Owning(v)' => u = v
    BY DEF TokenOnce
  <2>3. Users(x) \subseteq Threads /\ Users(x)' \subseteq Threads
    BY DEF Users
  <2>4. CASE x # e
    <3>1. token'[x] = token[x] /\ Users(x)' = Users(x) /\ t \notin Users(x)
      BY <2>4, <1>1, <1>2 DEF IInv, TypeOK, Users
    <3> QED
      BY <3>1, <2>1, <2>3 DEF IInv, TokenOnce
  <2>5. CASE x = e
    <3>1. Users(x)' = Users(e) \ {t} /\ t \in Users(e)
      BY <2>5, <1>2
    <3>2. token'[x] <=> token[e] \/ Owning(t)
      BY <2>2, <2>5, <1>1 DEF IInv, TypeOK
    <3> QED
      BY <3>1, <3>2, <2>1, <2>3, <2>5 DEF IInv, TokenOnce
  <2> QED
    BY <2>4, <2>5
<1>8. HeldMeansLocked'
  BY <1>3 DEF IInv, TypeOK, HeldMeansLocked
<1> QED
  BY <1>2, <1>4, <1>5, <1>6, <1>7, <1>8 DEF IInv

\* Steps that only move one goroutine past the token, or to and from the file
\* lock, preserve the invariant.
LEMMA TakeTokenStep == ASSUME IInv, NEW t \in Threads, TakeToken(t) PROVE IInv'
<1>1. local[t] \in Entries /\ t \in Users(local[t]) /\ UNCHANGED local
  BY DEF IInv, Registered, TakeToken, Users
<1>2. \A e : Users(e)' = Users(e)
  BY <1>1 DEF Users
<1>3. TypeOK'
  BY <1>1 DEF IInv, TypeOK, TakeToken, Goto
<1>4. Registered' /\ Separate' /\ Counted'
  BY <1>2 DEF IInv, TypeOK, Registered, Separate, Counted, TakeToken, Goto
<1>5. TokenOnce'
  <2> SUFFICES ASSUME NEW x \in Entries
               PROVE  /\ token'[x] => \A u \in Users(x)' : ~Owning(u)'
                      /\ ~token'[x] => \E u \in Users(x)' : Owning(u)'
                      /\ \A u, v \in Users(x)' : Owning(u)' /\ Owning(v)' => u = v
    BY DEF TokenOnce
  <2>1. Owning(t)' /\ \A u \in Threads \ {t} : Owning(u)' <=> Owning(u)
    BY DEF Owning, Goto, IInv, TypeOK, TakeToken
  <2>2. Users(x) \subseteq Threads /\ Users(x)' = Users(x)
    BY <1>2 DEF Users
  <2>3. CASE x = local[t]
    <3>1. token[x] /\ ~token'[x]
      BY <2>3 DEF TakeToken, IInv, TypeOK
    <3> QED
      BY <3>1, <2>1, <2>2, <2>3, <1>1 DEF IInv, TokenOnce
  <2>4. CASE x # local[t]
    <3>1. token'[x] = token[x] /\ t \notin Users(x)
      BY <2>4, <1>1 DEF TakeToken, IInv, TypeOK, Users
    <3> QED
      BY <3>1, <2>1, <2>2 DEF IInv, TokenOnce
  <2> QED
    BY <2>3, <2>4
<1>6. HeldMeansLocked'
  BY DEF IInv, TypeOK, HeldMeansLocked, TakeToken, Goto
<1> QED
  BY <1>3, <1>4, <1>5, <1>6 DEF IInv

\* The two steps that touch the file itself, taking and releasing its lock.
LEMMA FileStep ==
  ASSUME IInv, NEW t \in Threads, LockFile(t) \/ UnlockFile(t) PROVE IInv'
<1>1. UNCHANGED <<locks, token, refs, local>>
  BY DEF LockFile, UnlockFile
<1>2. \A u \in Threads : /\ Owning(u)' <=> Owning(u)
                         /\ pc'[u] = "idle" <=> pc[u] = "idle"
  BY DEF IInv, TypeOK, Owning, LockFile, UnlockFile, Goto
<1>3. \A e : Users(e)' = Users(e)
  BY <1>1 DEF Users
<1>4. TypeOK'
  BY <1>1 DEF IInv, TypeOK, LockFile, UnlockFile, Goto
<1>5. Registered' /\ Separate' /\ Counted'
  BY <1>1, <1>2, <1>3 DEF IInv, Registered, Separate, Counted
<1>6. TokenOnce'
  <2>1. \A e : Users(e) \subseteq Threads
    BY DEF Users
  <2> QED
    BY <1>1, <1>2, <1>3, <2>1 DEF IInv, TokenOnce
<1>7. HeldMeansLocked'
  BY ConstantsAssumption DEF IInv, TypeOK, HeldMeansLocked, LockFile, UnlockFile, Goto
<1> QED
  BY <1>4, <1>5, <1>6, <1>7 DEF IInv

\* The death of a process forgets its goroutines, its entry and its file lock.
LEMMA CrashStep == ASSUME IInv, NEW p \in Processes, Crash(p) PROVE IInv'
<1> DEFINE Its == {t \in Threads : Process(t) = p}
<1> DEFINE Lost == {local[t] : t \in Its} \cup {locks[p]}
<1>1. /\ locks' = [locks EXCEPT ![p] = None]
      /\ token' = [e \in Entries |-> e \in Lost \/ token[e]]
      /\ refs' = [e \in Entries |-> IF e \in Lost THEN 0 ELSE refs[e]]
      /\ local' = [t \in Threads |-> IF t \in Its THEN None ELSE local[t]]
      /\ pc' = [t \in Threads |-> IF t \in Its THEN "idle" ELSE pc[t]]
      /\ flock' = IF flock \in Its THEN None ELSE flock
  BY DEF Crash
<1>2. \A t \in Threads : Process(t) \in Processes
  BY DEF Process, Threads
<1>3. \A e \in Entries : e \in Lost => e = locks[p]
  BY ConstantsAssumption DEF IInv, Registered
<1>4. \A e \in Entries : IF e \in Lost THEN Users(e)' = {} ELSE Users(e)' = Users(e)
  <2> SUFFICES ASSUME NEW e \in Entries
               PROVE  IF e \in Lost THEN Users(e)' = {} ELSE Users(e)' = Users(e)
    OBVIOUS
  <2>1. ASSUME e \in Lost, NEW t \in Users(e)' PROVE FALSE
    <3>1. t \in Threads /\ t \notin Its /\ local[t] = e
      BY <2>1, <1>1, ConstantsAssumption DEF Users
    <3>2. locks[Process(t)] = locks[p] /\ locks[p] # None
      BY <3>1, <2>1, <1>3, ConstantsAssumption DEF IInv, Registered
    <3> QED
      BY <3>1, <3>2, <1>2 DEF IInv, Separate
  <2>2. ASSUME e \notin Lost PROVE Users(e)' = Users(e)
    BY <2>2, <1>1, ConstantsAssumption DEF Users, IInv, TypeOK
  <2> QED
    BY <2>1, <2>2
<1>5. TypeOK'
  <2> HIDE DEF Lost
  <2> QED
    BY <1>1 DEF IInv, TypeOK
<1>6. Registered'
  <2> SUFFICES ASSUME NEW u \in Threads
               PROVE  IF pc'[u] = "idle" THEN local'[u] = None
                      ELSE local'[u] \in Entries /\ locks'[Process(u)] = local'[u]
    BY DEF Registered
  <2> HIDE DEF Lost
  <2> QED
    BY <1>1, <1>2 DEF IInv, TypeOK, Registered
<1>7. Separate'
  <2> SUFFICES ASSUME NEW q \in Processes, locks'[q] # None
               PROVE  /\ (Users(locks[q]) # {})'
                      /\ \A r \in Processes : locks'[r] = locks'[q] => q = r
    BY DEF Separate
  <2>1. q # p /\ locks'[q] = locks[q] /\ locks[q] \in Entries /\ locks[q] # None
    BY <1>1, ConstantsAssumption DEF IInv, TypeOK
  <2>2. locks[q] \notin Lost
    BY <2>1, <1>3 DEF IInv, Separate
  <2>3. Users(locks[q]) # {}
    BY <2>1 DEF IInv, Separate
  <2>4. (Users(locks[q]) # {})'
    BY <2>1, <2>2, <2>3, <1>4 DEF Users
  <2>5. \A r \in Processes : locks'[r] = locks'[q] => q = r
    BY <2>1, <1>1 DEF IInv, TypeOK, Separate
  <2> QED
    BY <2>4, <2>5
<1>8. Counted'
  BY <1>1, <1>4, FS_EmptySet DEF IInv, Counted
<1>9. TokenOnce'
  <2> SUFFICES ASSUME NEW x \in Entries
               PROVE  /\ token'[x] => \A u \in Users(x)' : ~Owning(u)'
                      /\ ~token'[x] => \E u \in Users(x)' : Owning(u)'
                      /\ \A u, v \in Users(x)' : Owning(u)' /\ Owning(v)' => u = v
    BY DEF TokenOnce
  <2>1. CASE x \in Lost
    BY <2>1, <1>1, <1>4
  <2>2. CASE x \notin Lost
    <3>1. token'[x] = token[x] /\ Users(x)' = Users(x)
      BY <2>2, <1>1, <1>4 DEF IInv, TypeOK
    <3>2. \A u \in Users(x) : u \in Threads /\ u \notin Its
      BY <2>2 DEF Users
    <3>3. \A u \in Users(x) : Owning(u)' <=> Owning(u)
      BY <3>2, <1>1 DEF Owning
    <3> QED
      BY <3>1, <3>3 DEF IInv, TokenOnce
  <2> QED
    BY <2>1, <2>2
<1>10. HeldMeansLocked'
  <2> HIDE DEF Lost
  <2> QED
    BY <1>1, ConstantsAssumption DEF IInv, TypeOK, HeldMeansLocked
<1> QED
  BY <1>5, <1>6, <1>7, <1>8, <1>9, <1>10 DEF IInv

-----------------------------------------------------------------------------
\* Every step preserves the inductive invariant.
LEMMA NextIInv == IInv /\ [Next]_vars => IInv'
<1> SUFFICES ASSUME IInv, [Next]_vars PROVE IInv'
  OBVIOUS
<1>1. ASSUME NEW t \in Threads, AcquireLocal(t) PROVE IInv'
  <2>1. PICK e \in Lookup(Process(t)) :
          /\ locks' = [locks EXCEPT ![Process(t)] = e]
          /\ local' = [local EXCEPT ![t] = e]
          /\ token' = [token EXCEPT ![e] = HasToken(Process(t), e)]
          /\ refs' = [refs EXCEPT ![e] = RefsNow(Process(t), e) + 1]
    BY <1>1 DEF AcquireLocal
  <2>2. HasToken(Process(t), e) = (HasToken(Process(t), e) /\ "token" = "token")
    <3>1. HasToken(Process(t), e) \in BOOLEAN
      BY LookupFacts DEF HasToken, Process, Threads, IInv, TypeOK
    <3> QED
      BY <3>1
  <2>3. token' = [token EXCEPT ![e] = HasToken(Process(t), e) /\ "token" = "token"]
    BY <2>1, <2>2
  <2>4. pc[t] = "idle" /\ Goto(t, "token") /\ UNCHANGED flock
    BY <1>1 DEF AcquireLocal
  <2> QED
    BY <2>1, <2>3, <2>4, JoinStep
<1>2. ASSUME NEW t \in Threads, TryAcquireLocal(t) PROVE IInv'
  <2>1. PICK e \in Lookup(Process(t)) :
          /\ HasToken(Process(t), e)
          /\ locks' = [locks EXCEPT ![Process(t)] = e]
          /\ local' = [local EXCEPT ![t] = e]
          /\ token' = [token EXCEPT ![e] = FALSE]
          /\ refs' = [refs EXCEPT ![e] = RefsNow(Process(t), e) + 1]
    BY <1>2 DEF TryAcquireLocal
  <2>2. token' = [token EXCEPT ![e] = HasToken(Process(t), e) /\ "try" = "token"]
    BY <2>1
  <2>3. pc[t] = "idle" /\ Goto(t, "try") /\ UNCHANGED flock
    BY <1>2 DEF TryAcquireLocal
  <2> QED
    BY <2>1, <2>2, <2>3, JoinStep
<1>3. ASSUME NEW t \in Threads, GiveUp(t) \/ AbandonFile(t) \/ Release(t) PROVE IInv'
  <2>1. /\ pc[t] \notin {"idle", "held"} /\ Leave(t) /\ UNCHANGED flock
        /\ IF pc[t] = "token" THEN UNCHANGED token
           ELSE token' = [token EXCEPT ![local[t]] = TRUE]
    BY <1>3 DEF GiveUp, AbandonFile, Release, ReleaseLocal
  <2> QED
    BY <2>1, LeaveStep
<1>4. ASSUME UNCHANGED vars PROVE IInv'
  BY <1>4 DEF vars, IInv, TypeOK, Registered, Separate, Counted, TokenOnce,
              HeldMeansLocked, Users, Owning
<1> QED
  BY <1>1, <1>2, <1>3, <1>4, TakeTokenStep, FileStep, CrashStep DEF Next, Finish

\* The inductive invariant holds in every reachable state.
THEOREM Inductive == Spec => []IInv
  BY InitIInv, NextIInv, PTL DEF Spec

\* The types of FileLock hold for any number of processes and goroutines.
THEOREM FileLockTypes == Spec => []TypeOK
<1>1. IInv => TypeOK
  BY DEF IInv
<1> QED
  BY <1>1, Inductive, PTL

\* At most one goroutine of a process is past the token (acquireLocal,
\* releaseLocalFunc), whatever entries were reclaimed and remade.
THEOREM OneOwner == Spec => []OneOwnerPerProcess
<1>1. IInv => OneOwnerPerProcess
  <2> SUFFICES ASSUME IInv, NEW t \in Threads, NEW u \in Threads,
                      Process(t) = Process(u), Owning(t), Owning(u)
               PROVE  t = u
    BY DEF OneOwnerPerProcess
  <2>1. local[t] = local[u] /\ local[t] \in Entries
    BY DEF IInv, Registered, Owning
  <2> QED
    BY <2>1 DEF IInv, TokenOnce, Users
<1> QED
  BY <1>1, Inductive, PTL

\* Whoever was told it has the lock holds the file, and nobody else does
\* (Acquire, TryAcquire and their release functions).
THEOREM Exclusive == Spec => []HeldMeansLocked
<1>1. IInv => HeldMeansLocked
  BY DEF IInv
<1> QED
  BY <1>1, Inductive, PTL

\* The registry forgets a path exactly when nobody waits for or holds its lock.
THEOREM Reclaimed == Spec => []RegistryReclaimed
<1>1. IInv => RegistryReclaimed
  <2> SUFFICES ASSUME IInv, NEW p \in Processes
               PROVE  locks[p] = None
                        <=> \A t \in Threads : Process(t) = p => pc[t] = "idle"
    BY DEF RegistryReclaimed
  <2>1. ASSUME locks[p] = None, NEW t \in Threads, Process(t) = p PROVE pc[t] = "idle"
    BY <2>1, ConstantsAssumption DEF IInv, Registered
  <2>2. ASSUME locks[p] # None
        PROVE  \E t \in Threads : Process(t) = p /\ pc[t] # "idle"
    <3>1. PICK t \in Users(locks[p]) : TRUE
      BY <2>2 DEF IInv, Separate
    <3>2. t \in Threads /\ local[t] = locks[p] /\ Process(t) \in Processes
      BY <3>1 DEF Users, Process, Threads
    <3>3. pc[t] # "idle" /\ locks[Process(t)] = locks[p]
      BY <3>2, <2>2 DEF IInv, Registered
    <3> QED
      BY <3>2, <3>3, <2>2 DEF IInv, Separate
  <2> QED
    BY <2>1, <2>2
<1> QED
  BY <1>1, Inductive, PTL

\* No wake-up is lost: with nobody past the token, the waiters' channel has it.
THEOREM TokenReaches == Spec => []TokenReachesWaiters
<1>1. IInv => TokenReachesWaiters
  <2> SUFFICES ASSUME IInv, NEW t \in Threads, pc[t] = "token",
                      \A u \in Threads : Process(u) = Process(t) => ~Owning(u)
               PROVE  token[local[t]]
    BY DEF TokenReachesWaiters
  <2>1. local[t] \in Entries /\ locks[Process(t)] = local[t] /\ Process(t) \in Processes
    BY DEF IInv, Registered, Process, Threads
  <2>2. \A u \in Users(local[t]) : Process(u) = Process(t)
    <3> SUFFICES ASSUME NEW u \in Users(local[t]) PROVE Process(u) = Process(t)
      OBVIOUS
    <3>1. u \in Threads /\ local[u] = local[t] /\ Process(u) \in Processes
      BY DEF Users, Process, Threads
    <3>2. locks[Process(u)] = locks[Process(t)] /\ locks[Process(t)] # None
      BY <2>1, <3>1, ConstantsAssumption DEF IInv, Registered
    <3> QED
      BY <2>1, <3>1, <3>2 DEF IInv, Separate
  <2>3. \A u \in Users(local[t]) : ~Owning(u)
    BY <2>2 DEF Users
  <2> QED
    BY <2>1, <2>3 DEF IInv, TokenOnce
<1> QED
  BY <1>1, Inductive, PTL
=============================================================================
