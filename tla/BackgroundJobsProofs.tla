------------------------ MODULE BackgroundJobsProofs ------------------------
(***************************************************************************)
(* Theorems about SubagentScheduler, for any calls, paths and limits, and  *)
(* about BackgroundJobs, which is built on it, for any jobs, sub-agents,   *)
(* sessions and number of restarts.                                        *)
(***************************************************************************)
EXTENDS BackgroundJobs, FiniteSetTheorems, SequenceTheorems, TLAPS

-----------------------------------------------------------------------------
(* The scheduler: the inductive invariant *)

Owners == {a \in Acquirers : Owns(a)}
WriterOwners == {a \in Acquirers : Owns(a) /\ req[a].writer}
ClaimOwners(c) == {a \in Acquirers : Owns(a) /\ Claims(req[a]) /\ req[a].paths = c}

\* The bag of parent claims lists exactly the writes that are under way.
WriteOwners(c) == {w \in Writes : wpc[w] = "writing" /\ claim[w] = c}
WritesAccounted == \A c \in SUBSET Paths : parentClaims[c] = Cardinality(WriteOwners(c))

\* The queue holds each waiting call once, and none that was given a slot.
Waiting(a) == pc[a] \in {"queued", "leaving"}
QueueSound ==
  /\ \A i \in 1..Len(waiters) : Waiting(waiters[i]) /\ waiters[i] \notin ready
  /\ \A i, j \in 1..Len(waiters) : waiters[i] = waiters[j] => i = j
  /\ \A a \in ready : Waiting(a)

\* Whoever scans is at its pump.
ScanSound ==
  /\ mu \in Acquirers => pc[mu] = "pumping"
  /\ mu \in Writes => wpc[mu] = "pumping"

\* Nobody the scan has passed could start; with the mutex free, nobody at all.
Seen(a) == \E i \in 1..Len(waiters) : waiters[i] = a /\ (mu = None \/ i < scan)
SeenWait == \A a \in Acquirers : Seen(a) => ~CanStart(req[a])

SchedulerInv ==
  /\ SchedulerTypeOK /\ SlotsAccounted /\ ClaimsDisjoint
  /\ WritesAccounted /\ QueueSound /\ ScanSound /\ SeenWait

-----------------------------------------------------------------------------
(* Counting those who have a slot *)

\* The calls that own a slot are finitely many.
LEMMA OwnersFinite ==
  /\ IsFiniteSet(Owners) /\ IsFiniteSet(WriterOwners)
  /\ \A c \in SUBSET Paths : IsFiniteSet(ClaimOwners(c)) /\ IsFiniteSet(WriteOwners(c))
  BY SchedulerAssumption, FS_Subset DEF Owners, WriterOwners, ClaimOwners, WriteOwners

\* Adding and removing one element.
LEMMA CountOne ==
  ASSUME NEW S, IsFiniteSet(S), NEW x
  PROVE  /\ x \notin S => Cardinality(S \cup {x}) = Cardinality(S) + 1
         /\ x \in S => Cardinality(S \ {x}) = Less(Cardinality(S))
         /\ x \notin S => S \ {x} = S
<1>1. Cardinality(S) \in Nat
  BY FS_CardinalityType
<1>2. x \notin S => Cardinality(S \cup {x}) = Cardinality(S) + 1
  BY FS_AddElement
<1>3. ASSUME x \in S PROVE Cardinality(S \ {x}) = Less(Cardinality(S))
  <2>1. Cardinality(S) # 0
    BY <1>3, FS_EmptySet
  <2>2. Cardinality(S \ {x}) = Cardinality(S) - 1
    BY <1>3, FS_RemoveElement
  <2> QED
    BY <1>1, <2>1, <2>2 DEF Less
<1> QED
  BY <1>2, <1>3

\* One more call has a slot, and is counted.
LEMMA Gain ==
  ASSUME SchedulerTypeOK, SlotsAccounted, NEW a \in Acquirers, ~Owns(a),
         NEW r, r \in [writer : BOOLEAN, paths : SUBSET Paths],
         CanStart(r), Activate(r), Owns(a)', req'[a] = r,
         \A b \in Acquirers \ {a} : (Owns(b)' <=> Owns(b)) /\ req'[b] = req[b]
  PROVE  SlotsAccounted'
<1>0. /\ activeTotal \in Nat /\ activeWriters \in Nat /\ r.writer \in BOOLEAN
      /\ activeClaims \in [SUBSET Paths -> Nat] /\ r.paths \in SUBSET Paths
  BY DEF SchedulerTypeOK
<1>1. activeTotal' = Cardinality(Owners')
  <2>1. Owners' = Owners \cup {a} /\ a \notin Owners
    BY DEF Owners
  <2> QED
    BY <2>1, OwnersFinite, CountOne DEF SlotsAccounted, Owners, Activate
<1>2. activeWriters' = Cardinality(WriterOwners')
  <2>1. a \notin WriterOwners
    BY DEF WriterOwners
  <2>2. WriterOwners' = IF r.writer THEN WriterOwners \cup {a} ELSE WriterOwners
    BY DEF WriterOwners
  <2>3. activeWriters = Cardinality(WriterOwners)
    BY DEF SlotsAccounted, WriterOwners
  <2>4. CASE r.writer
    BY <2>1, <2>2, <2>3, <2>4, OwnersFinite, CountOne DEF Activate
  <2>5. CASE ~r.writer
    BY <2>2, <2>3, <2>5 DEF Activate
  <2> QED
    BY <2>4, <2>5
<1>3. ASSUME NEW c \in SUBSET Paths
      PROVE  activeClaims'[c] = Cardinality(ClaimOwners(c)')
  <2>1. a \notin ClaimOwners(c)
    BY DEF ClaimOwners
  <2>2. ClaimOwners(c)' = IF Claims(r) /\ r.paths = c THEN ClaimOwners(c) \cup {a}
                          ELSE ClaimOwners(c)
    BY DEF ClaimOwners, Claims
  <2>3. activeClaims[c] = Cardinality(ClaimOwners(c))
    BY DEF SlotsAccounted, ClaimOwners
  <2>4. activeClaims'[c] = IF Claims(r) /\ r.paths = c THEN activeClaims[c] + 1
                           ELSE activeClaims[c]
    BY <1>0 DEF Activate
  <2>5. CASE Claims(r) /\ r.paths = c
    <3>1. Cardinality(ClaimOwners(c) \cup {a}) = Cardinality(ClaimOwners(c)) + 1
      BY <2>1, OwnersFinite, CountOne
    <3> QED
      BY <2>2, <2>3, <2>4, <2>5, <3>1
  <2>6. CASE ~(Claims(r) /\ r.paths = c)
    BY <2>2, <2>3, <2>4, <2>6
  <2> QED
    BY <2>5, <2>6
<1>4. activeTotal' <= MaxTotal /\ activeWriters' <= MaxWriters
  BY <1>0, SchedulerAssumption DEF Activate, CanStart, SlotsAccounted
<1> QED
  BY <1>1, <1>2, <1>3, <1>4 DEF SlotsAccounted, Owners, WriterOwners, ClaimOwners

\* One call less has a slot.
LEMMA Loss ==
  ASSUME SchedulerTypeOK, SlotsAccounted, NEW a \in Acquirers, Owns(a), ~Owns(a)',
         Deactivate(req[a]),
         \A b \in Acquirers \ {a} : (Owns(b)' <=> Owns(b)) /\ req'[b] = req[b]
  PROVE  SlotsAccounted'
<1> DEFINE r == req[a]
<1>0. /\ activeTotal \in Nat /\ activeWriters \in Nat /\ r.writer \in BOOLEAN
      /\ activeClaims \in [SUBSET Paths -> Nat] /\ r.paths \in SUBSET Paths
  BY DEF SchedulerTypeOK
<1>1. activeTotal' = Cardinality(Owners')
  <2>1. Owners' = Owners \ {a} /\ a \in Owners
    BY DEF Owners
  <2>2. Cardinality(Owners \ {a}) = Less(Cardinality(Owners))
    BY <2>1, OwnersFinite, CountOne
  <2> QED
    BY <2>1, <2>2 DEF SlotsAccounted, Owners, Deactivate
<1>2. activeWriters' = Cardinality(WriterOwners')
  <2>2. WriterOwners' = WriterOwners \ {a} /\ (a \in WriterOwners <=> r.writer)
    BY DEF WriterOwners
  <2>3. activeWriters = Cardinality(WriterOwners)
    BY DEF SlotsAccounted, WriterOwners
  <2>4. CASE r.writer
    <3>1. Cardinality(WriterOwners \ {a}) = Less(Cardinality(WriterOwners))
      BY <2>2, <2>4, OwnersFinite, CountOne
    <3> QED
      BY <2>2, <2>3, <2>4, <3>1 DEF Deactivate
  <2>5. CASE ~r.writer
    BY <2>2, <2>3, <2>5 DEF Deactivate
  <2> QED
    BY <2>4, <2>5
<1>3. ASSUME NEW c \in SUBSET Paths
      PROVE  activeClaims'[c] = Cardinality(ClaimOwners(c)')
  <2>2. /\ ClaimOwners(c)' = ClaimOwners(c) \ {a}
        /\ a \in ClaimOwners(c) <=> Claims(r) /\ r.paths = c
    BY DEF ClaimOwners, Claims
  <2>3. activeClaims[c] = Cardinality(ClaimOwners(c))
    BY DEF SlotsAccounted, ClaimOwners
  <2>4. activeClaims'[c] = IF Claims(r) /\ r.paths = c THEN Less(activeClaims[c])
                           ELSE activeClaims[c]
    BY <1>0 DEF Deactivate
  <2>5. CASE Claims(r) /\ r.paths = c
    <3>1. a \in ClaimOwners(c)
      BY <2>2, <2>5
    <3>2. Cardinality(ClaimOwners(c) \ {a}) = Less(Cardinality(ClaimOwners(c)))
      BY <3>1, OwnersFinite, CountOne
    <3> QED
      BY <2>2, <2>3, <2>4, <2>5, <3>2
  <2>6. CASE ~(Claims(r) /\ r.paths = c)
    <3>1. ClaimOwners(c)' = ClaimOwners(c)
      BY <2>2, <2>6
    <3> QED
      BY <2>3, <2>4, <2>6, <3>1
  <2> QED
    BY <2>5, <2>6
<1>4. activeTotal' <= MaxTotal /\ activeWriters' <= MaxWriters
  BY <1>0, SchedulerAssumption DEF Deactivate, Less, SlotsAccounted
<1> QED
  BY <1>1, <1>2, <1>3, <1>4 DEF SlotsAccounted, Owners, WriterOwners, ClaimOwners

\* Nobody's slot changes.
LEMMA SlotsSame ==
  ASSUME SlotsAccounted, UNCHANGED counts,
         \A b \in Acquirers : (Owns(b)' <=> Owns(b)) /\ (Owns(b) => req'[b] = req[b])
  PROVE  SlotsAccounted'
<1>1. Owners' = Owners /\ WriterOwners' = WriterOwners
  BY DEF Owners, WriterOwners
<1>2. \A c \in SUBSET Paths : ClaimOwners(c)' = ClaimOwners(c)
  BY DEF ClaimOwners
<1>3. /\ activeTotal = Cardinality(Owners) /\ activeWriters = Cardinality(WriterOwners)
      /\ \A c \in SUBSET Paths : activeClaims[c] = Cardinality(ClaimOwners(c))
  BY DEF SlotsAccounted, Owners, WriterOwners, ClaimOwners
<1>4. activeTotal' <= MaxTotal /\ activeWriters' <= MaxWriters
  BY DEF SlotsAccounted, counts
<1>5. /\ activeTotal' = Cardinality(Owners') /\ activeWriters' = Cardinality(WriterOwners')
      /\ \A c \in SUBSET Paths : activeClaims'[c] = Cardinality(ClaimOwners(c)')
  BY <1>1, <1>2, <1>3 DEF counts
<1> QED
  BY <1>4, <1>5 DEF SlotsAccounted, Owners, WriterOwners, ClaimOwners

-----------------------------------------------------------------------------
(* Claims *)

\* A path nobody's claim is listed for is claimed by nobody.
LEMMA Covered ==
  ASSUME SchedulerTypeOK, SlotsAccounted, WritesAccounted,
         NEW p \in SUBSET Paths, Unclaimed(p)
  PROVE  /\ \A a \in Acquirers : Owns(a) /\ req[a].writer => ~Overlaps(req[a].paths, p)
         /\ \A w \in Writes : wpc[w] = "writing" => ~Overlaps(claim[w], p)
<1>1. ASSUME NEW a \in Acquirers, Owns(a), req[a].writer
      PROVE  ~Overlaps(req[a].paths, p)
  <2> DEFINE c == req[a].paths
  <2>0. c \in SUBSET Paths
    BY DEF SchedulerTypeOK
  <2>1. CASE c = {}
    BY <2>1 DEF Overlaps
  <2>2. CASE c # {}
    <3>1. a \in ClaimOwners(c)
      BY <1>1, <2>2 DEF ClaimOwners, Claims
    <3>2. Cardinality(ClaimOwners(c)) # 0 /\ Cardinality(ClaimOwners(c)) \in Nat
      BY <2>0, <3>1, OwnersFinite, FS_EmptySet, FS_CardinalityType
    <3>3. activeClaims[c] = Cardinality(ClaimOwners(c))
      BY <2>0 DEF SlotsAccounted, ClaimOwners
    <3> QED
      BY <2>0, <3>2, <3>3 DEF Unclaimed
  <2> QED
    BY <2>1, <2>2
<1>2. ASSUME NEW w \in Writes, wpc[w] = "writing"
      PROVE  ~Overlaps(claim[w], p)
  <2>0. claim[w] \in SUBSET Paths
    BY DEF SchedulerTypeOK
  <2>1. w \in WriteOwners(claim[w])
    BY <1>2 DEF WriteOwners
  <2>2. Cardinality(WriteOwners(claim[w])) # 0 /\ Cardinality(WriteOwners(claim[w])) \in Nat
    BY <2>0, <2>1, OwnersFinite, FS_EmptySet, FS_CardinalityType
  <2>3. parentClaims[claim[w]] > 0
    BY <2>0, <2>2 DEF WritesAccounted
  <2> QED
    BY <2>0, <2>3 DEF Unclaimed
<1> QED
  BY <1>1, <1>2

\* Whoever keeps or loses its claim disturbs nobody.
LEMMA ClaimsKept ==
  ASSUME SchedulerTypeOK, ClaimsDisjoint,
         \A b \in Acquirers : Owns(b)' => Owns(b) /\ req'[b] = req[b],
         \A w \in Writes : wpc'[w] = "writing" => wpc[w] = "writing" /\ claim'[w] = claim[w]
  PROVE  ClaimsDisjoint'
  BY DEF ClaimsDisjoint

\* A run that starts claims what nobody claims.
LEMMA ClaimsGain ==
  ASSUME SchedulerTypeOK, SlotsAccounted, WritesAccounted, ClaimsDisjoint,
         NEW a \in Acquirers, NEW r \in [writer : BOOLEAN, paths : SUBSET Paths],
         CanStart(r), req'[a] = r, ~Owns(a),
         \A b \in Acquirers \ {a} : (Owns(b)' <=> Owns(b)) /\ req'[b] = req[b],
         UNCHANGED writeCalls
  PROVE  ClaimsDisjoint'
<1>1. CASE r.writer
  <2>1. Unclaimed(r.paths)
    BY <1>1 DEF CanStart
  <2>2. /\ \A b \in Acquirers : Owns(b) /\ req[b].writer => ~Overlaps(req[b].paths, r.paths)
        /\ \A w \in Writes : wpc[w] = "writing" => ~Overlaps(claim[w], r.paths)
    BY <2>1, Covered
  <2>3. \A c, d : Overlaps(c, d) = Overlaps(d, c)
    BY DEF Overlaps
  <2> QED
    BY <1>1, <2>2, <2>3 DEF ClaimsDisjoint, writeCalls
<1>2. CASE ~r.writer
  BY <1>2 DEF ClaimsDisjoint, writeCalls
<1> QED
  BY <1>1, <1>2

\* With the writes and their claims as they were, the bag of claims still lists them.
LEMMA WritesSame ==
  ASSUME WritesAccounted, UNCHANGED <<parentClaims, writeCalls>>
  PROVE  WritesAccounted'
  BY DEF WritesAccounted, WriteOwners, writeCalls

\* With the same owners, requests and counters, slots and claims still agree.
LEMMA CountsSame ==
  ASSUME SchedulerInv, UNCHANGED <<counts, parentClaims, writeCalls>>,
         \A b \in Acquirers : (Owns(b)' <=> Owns(b)) /\ (Owns(b) => req'[b] = req[b])
  PROVE  SlotsAccounted' /\ ClaimsDisjoint' /\ WritesAccounted'
<1>1. SlotsAccounted'
  BY SlotsSame DEF SchedulerInv
<1>2. ClaimsDisjoint'
  BY ClaimsKept DEF SchedulerInv, writeCalls
<1>3. WritesAccounted'
  BY WritesSame DEF SchedulerInv
<1> QED
  BY <1>1, <1>2, <1>3

-----------------------------------------------------------------------------
(* The queue *)

\* A sequence without its k-th entry: one shorter, the later entries one place up.
LEMMA RemoveAtFacts ==
  ASSUME NEW S, NEW s \in Seq(S), NEW k \in 1..Len(s)
  PROVE  /\ RemoveAt(s, k) \in Seq(S)
         /\ Len(RemoveAt(s, k)) = Len(s) - 1
         /\ \A i \in 1..(Len(s) - 1) :
              RemoveAt(s, k)[i] = IF i < k THEN s[i] ELSE s[i + 1]
<1> DEFINE u == SubSeq(s, 1, k - 1)
           v == SubSeq(s, k + 1, Len(s))
<1>0. Len(s) \in Nat /\ k \in Nat /\ \A i \in 1..Len(s) : s[i] \in S
  BY ElementOfSeq, LenProperties
<1>1. u \in Seq(S) /\ Len(u) = k - 1 /\ \A i \in 1..(k - 1) : u[i] = s[i]
  BY <1>0, SubSeqProperties
<1>2. v \in Seq(S) /\ Len(v) = Len(s) - k /\ \A i \in 1..(Len(s) - k) : v[i] = s[k + i]
  BY <1>0, SubSeqProperties
<1> HIDE DEF u, v
<1>3. /\ u \o v \in Seq(S) /\ Len(u \o v) = Len(u) + Len(v)
      /\ \A i \in 1..(Len(u) + Len(v)) : (u \o v)[i] = IF i <= Len(u) THEN u[i] ELSE v[i - Len(u)]
  BY <1>1, <1>2, ConcatProperties
<1>4. \A i \in 1..(Len(s) - 1) : (u \o v)[i] = IF i < k THEN s[i] ELSE s[i + 1]
  <2>1. ASSUME NEW i \in 1..(Len(s) - 1)
        PROVE  (u \o v)[i] = IF i < k THEN s[i] ELSE s[i + 1]
    <3>1. (u \o v)[i] = IF i <= k - 1 THEN u[i] ELSE v[i - (k - 1)]
      BY <1>0, <1>1, <1>2, <1>3
    <3>2. CASE i < k
      BY <1>0, <1>1, <3>1, <3>2
    <3>3. CASE ~(i < k)
      <4>1. i - (k - 1) \in 1..(Len(s) - k)
        BY <1>0, <3>3
      <4>2. v[i - (k - 1)] = s[k + (i - (k - 1))] /\ k + (i - (k - 1)) = i + 1
        BY <1>0, <1>2, <4>1
      <4> QED
        BY <1>0, <3>1, <3>3, <4>2
    <3> QED
      BY <3>2, <3>3
  <2> QED
    BY <2>1
<1>5. RemoveAt(s, k) = u \o v
  BY DEF RemoveAt, u, v
<1>6. Len(u) + Len(v) = Len(s) - 1
  BY <1>0, <1>1, <1>2
<1> QED
  BY <1>3, <1>4, <1>5, <1>6

\* The queue stays as it is, and nobody in it goes elsewhere.
LEMMA QueueSame ==
  ASSUME SchedulerTypeOK, QueueSound, UNCHANGED <<waiters, ready>>,
         \A b \in Acquirers : Waiting(b) => Waiting(b)'
  PROVE  QueueSound'
<1>1. \A i \in 1..Len(waiters) : waiters[i] \in Acquirers
  BY ElementOfSeq DEF SchedulerTypeOK
<1>2. \A i \in 1..Len(waiters) : pc'[waiters[i]] \in {"queued", "leaving"}
  BY <1>1 DEF QueueSound, Waiting
<1>3. \A b \in ready : pc'[b] \in {"queued", "leaving"}
  BY DEF QueueSound, Waiting, SchedulerTypeOK
<1> QED
  BY <1>2, <1>3 DEF QueueSound, Waiting

\* One call less in the queue; the others keep their order.
LEMMA Shorter ==
  ASSUME waiters \in Seq(Acquirers), QueueSound, NEW k \in 1..Len(waiters),
         waiters' = RemoveAt(waiters, k)
  PROVE  /\ waiters' \in Seq(Acquirers) /\ Len(waiters') = Len(waiters) - 1
         /\ \A i \in 1..Len(waiters') :
              /\ waiters'[i] # waiters[k]
              /\ \E j \in 1..Len(waiters) : waiters'[i] = waiters[j] /\ (i < k => j = i)
         /\ \A i, j \in 1..Len(waiters') : waiters'[i] = waiters'[j] => i = j
<1>0. Len(waiters) \in Nat
  BY LenProperties
<1>1. /\ waiters' \in Seq(Acquirers) /\ Len(waiters') = Len(waiters) - 1
      /\ \A i \in 1..Len(waiters') :
           waiters'[i] = IF i < k THEN waiters[i] ELSE waiters[i + 1]
  BY RemoveAtFacts
<1>2. ASSUME NEW i \in 1..Len(waiters')
      PROVE  /\ waiters'[i] # waiters[k]
             /\ \E j \in 1..Len(waiters) : waiters'[i] = waiters[j] /\ (i < k => j = i)
  BY <1>0, <1>1 DEF QueueSound
<1>3. ASSUME NEW i \in 1..Len(waiters'), NEW j \in 1..Len(waiters'), waiters'[i] = waiters'[j]
      PROVE  i = j
  BY <1>0, <1>1, <1>3 DEF QueueSound
<1> QED
  BY <1>1, <1>2, <1>3

\* What takes slots and paths away lets nobody start who could not.
LEMMA Tighter ==
  ASSUME SchedulerTypeOK, SchedulerTypeOK', NEW a \in Acquirers, req'[a] = req[a],
         activeTotal <= activeTotal', activeWriters <= activeWriters',
         \A c \in SUBSET Paths : activeClaims[c] <= activeClaims'[c]
                                  /\ parentClaims[c] <= parentClaims'[c],
         ~CanStart(req[a])
  PROVE  ~CanStart(req[a])'
<1>1. /\ activeTotal \in Nat /\ activeTotal' \in Nat /\ activeWriters \in Nat
      /\ activeWriters' \in Nat /\ req[a].paths \in SUBSET Paths
      /\ \A c \in SUBSET Paths : activeClaims[c] \in Nat /\ activeClaims'[c] \in Nat
                                 /\ parentClaims[c] \in Nat /\ parentClaims'[c] \in Nat
  BY DEF SchedulerTypeOK
<1>2. ASSUME Unclaimed(req[a].paths)' PROVE Unclaimed(req[a].paths)
  BY <1>1, <1>2 DEF Unclaimed
<1> QED
  BY <1>1, <1>2, SchedulerAssumption DEF CanStart

\* Activation only raises counters, so it cannot make room for anybody.
LEMMA ActivateGrows ==
  ASSUME SchedulerTypeOK, NEW r \in [writer : BOOLEAN, paths : SUBSET Paths], Activate(r)
  PROVE  /\ activeTotal' \in Nat /\ activeWriters' \in Nat
         /\ activeClaims' \in [SUBSET Paths -> Nat]
         /\ activeTotal <= activeTotal' /\ activeWriters <= activeWriters'
         /\ \A c \in SUBSET Paths : activeClaims[c] <= activeClaims'[c]
<1>1. /\ activeTotal \in Nat /\ activeWriters \in Nat
      /\ activeClaims \in [SUBSET Paths -> Nat] /\ r.paths \in SUBSET Paths
  BY DEF SchedulerTypeOK
<1>2. \A c \in SUBSET Paths : activeClaims[c] \in Nat
  BY <1>1
<1>3. activeClaims' \in [SUBSET Paths -> Nat]
  BY <1>1, <1>2 DEF Activate
<1>4. \A c \in SUBSET Paths : activeClaims[c] <= activeClaims'[c]
  BY <1>1, <1>2 DEF Activate
<1> QED
  BY <1>1, <1>3, <1>4 DEF Activate

-----------------------------------------------------------------------------
(* Every step preserves the invariant *)

\* The pool starts empty.
LEMMA InitInv == SchedulerInit => SchedulerInv
<1> SUFFICES ASSUME SchedulerInit PROVE SchedulerInv
  OBVIOUS
<1>1. SchedulerTypeOK
  BY DEF SchedulerInit, SchedulerTypeOK, NoClaims, NoRequest
<1>2. /\ {a \in Acquirers : Owns(a)} = {}
      /\ {a \in Acquirers : Owns(a) /\ req[a].writer} = {}
      /\ \A c \in SUBSET Paths :
           {a \in Acquirers : Owns(a) /\ Claims(req[a]) /\ req[a].paths = c} = {}
  BY DEF SchedulerInit, Owns
<1>3. SlotsAccounted
  <2>1. Cardinality({}) = 0
    BY FS_EmptySet
  <2>2. activeTotal = 0 /\ activeWriters = 0 /\ \A c \in SUBSET Paths : activeClaims[c] = 0
    BY DEF SchedulerInit, NoClaims
  <2>3. \A c \in SUBSET Paths :
          activeClaims[c] = Cardinality({a \in Acquirers : Owns(a) /\ Claims(req[a])
                                                            /\ req[a].paths = c})
    BY <1>2, <2>1, <2>2
  <2>4. /\ activeTotal = Cardinality({a \in Acquirers : Owns(a)})
        /\ activeWriters = Cardinality({a \in Acquirers : Owns(a) /\ req[a].writer})
    BY <1>2, <2>1, <2>2
  <2>5. activeTotal <= MaxTotal /\ activeWriters <= MaxWriters
    BY <2>2, SchedulerAssumption
  <2> QED
    BY <2>3, <2>4, <2>5 DEF SlotsAccounted
<1>4. \A c \in SUBSET Paths : WriteOwners(c) = {}
  BY DEF SchedulerInit, WriteOwners
<1>5. WritesAccounted
  BY <1>4, FS_EmptySet DEF SchedulerInit, WritesAccounted, NoClaims
<1>6. ClaimsDisjoint
  BY DEF SchedulerInit, ClaimsDisjoint, Owns
<1>7. QueueSound /\ SeenWait
  BY DEF SchedulerInit, QueueSound, SeenWait, Seen
<1>8. ScanSound
  BY SchedulerAssumption DEF SchedulerInit, ScanSound
<1> QED
  BY <1>1, <1>3, <1>5, <1>6, <1>7, <1>8 DEF SchedulerInv

\* acquire: a slot at once, a place in the queue, or a refusal.
LEMMA AcquireInv ==
  ASSUME SchedulerInv, NEW a \in Acquirers, NEW r \in [writer : BOOLEAN, paths : SUBSET Paths],
         NEW h \in Acquirers \cup {None}, Acquire(a, r, h)
  PROVE  SchedulerInv'
<1>0. /\ SchedulerTypeOK /\ pc[a] = "idle" /\ mu = None /\ ~Owns(a) /\ a \notin ready
      /\ ~Waiting(a) /\ \A i \in 1..Len(waiters) : waiters[i] # a
      /\ UNCHANGED <<parentClaims, mu, scan, ready, ended, writeCalls>>
      /\ waiters \in Seq(Acquirers) /\ Len(waiters) \in Nat
      /\ \A i \in 1..Len(waiters) : waiters[i] \in Acquirers
  BY ElementOfSeq, LenProperties
     DEF SchedulerInv, Acquire, Call, Owns, Waiting, QueueSound, SchedulerTypeOK
<1>1. CASE CanStart(r) /\ Activate(r) /\ Asks(a, r, h) /\ At(a, "holding") /\ UNCHANGED waiters
  <2>1. SchedulerTypeOK'
    BY <1>0, <1>1, ActivateGrows DEF SchedulerTypeOK, Asks, At, writeCalls
  <2>2. /\ Owns(a)' /\ req'[a] = r
        /\ \A b \in Acquirers \ {a} : Owns(b)' = Owns(b) /\ req'[b] = req[b] /\ pc'[b] = pc[b]
    BY <1>0, <1>1 DEF Owns, Asks, At, SchedulerTypeOK
  <2>3. SlotsAccounted'
    BY <1>0, <1>1, <2>2, Gain DEF SchedulerInv
  <2>4. ClaimsDisjoint'
    BY <1>0, <1>1, <2>2, ClaimsGain DEF SchedulerInv
  <2>5. WritesAccounted'
    BY <1>0, WritesSame DEF SchedulerInv
  <2>6. QueueSound'
    BY <1>0, <1>1, <2>2, QueueSame DEF SchedulerInv, Waiting
  <2>7. ScanSound'
    BY <1>0, <1>1, SchedulerAssumption DEF ScanSound
  <2>8. SeenWait'
    <3> SUFFICES ASSUME NEW b \in Acquirers, Seen(b)' PROVE ~CanStart(req[b])'
      BY DEF SeenWait
    <3>1. Seen(b) /\ b # a
      BY <1>0, <1>1 DEF Seen
    <3>2. /\ activeTotal <= activeTotal' /\ activeWriters <= activeWriters'
          /\ \A c \in SUBSET Paths : activeClaims[c] <= activeClaims'[c]
      BY <1>0, <1>1, ActivateGrows
    <3>3. \A c \in SUBSET Paths : parentClaims[c] <= parentClaims'[c]
      <4>1. \A c \in SUBSET Paths : parentClaims[c] \in Nat
        BY <1>0 DEF SchedulerTypeOK
      <4> QED
        BY <1>0, <4>1
    <3> QED
      BY <1>0, <2>1, <2>2, <3>1, <3>2, <3>3, Tighter DEF SchedulerInv, SeenWait
  <2> QED
    BY <2>1, <2>3, <2>4, <2>5, <2>6, <2>7, <2>8 DEF SchedulerInv
<1>2. CASE At(a, "done") /\ UNCHANGED <<counts, waiters, req, under>>
  <2>1. SchedulerTypeOK'
    BY <1>0, <1>2 DEF SchedulerTypeOK, At, counts, writeCalls
  <2>2. \A b \in Acquirers : Owns(b)' = Owns(b) /\ req'[b] = req[b] /\ (b # a => pc'[b] = pc[b])
    BY <1>0, <1>2 DEF Owns, At, SchedulerTypeOK
  <2>3. SlotsAccounted' /\ ClaimsDisjoint' /\ WritesAccounted'
    BY <1>0, <1>2, <2>2, CountsSame
  <2>4. QueueSound'
    BY <1>0, <1>2, <2>2, QueueSame DEF SchedulerInv, Waiting
  <2>5. ScanSound'
    BY <1>0, <1>2, SchedulerAssumption DEF ScanSound
  <2>6. SeenWait'
    BY <1>0, <1>2 DEF SchedulerInv, SeenWait, Seen, CanStart, Unclaimed, counts
  <2> QED
    BY <2>1, <2>3, <2>4, <2>5, <2>6 DEF SchedulerInv
<1>3. CASE /\ ~CanStart(r) /\ waiters' = Append(waiters, a) /\ Asks(a, r, h)
           /\ At(a, "queued") /\ UNCHANGED counts
  <2>0. /\ waiters' \in Seq(Acquirers) /\ Len(waiters') = Len(waiters) + 1
        /\ \A i \in 1..Len(waiters) : waiters'[i] = waiters[i]
        /\ waiters'[Len(waiters) + 1] = a
    BY <1>0, <1>3, AppendProperties
  <2>1. SchedulerTypeOK'
    BY <1>0, <1>3, <2>0 DEF SchedulerTypeOK, Asks, At, counts, writeCalls
  <2>2. /\ req'[a] = r /\ pc'[a] = "queued" /\ ~Owns(a)'
        /\ \A b \in Acquirers \ {a} : Owns(b)' = Owns(b) /\ req'[b] = req[b] /\ pc'[b] = pc[b]
    BY <1>0, <1>3 DEF Owns, Asks, At, SchedulerTypeOK
  <2>3. SlotsAccounted'
    <3>1. \A b \in Acquirers : Owns(b)' = Owns(b) /\ (Owns(b) => req'[b] = req[b])
      BY <1>0, <2>2 DEF Owns
    <3> QED
      BY <1>3, <3>1, SlotsSame DEF SchedulerInv
  <2>4. ClaimsDisjoint' /\ WritesAccounted'
    BY <1>0, <1>3, <2>2, ClaimsKept, WritesSame DEF SchedulerInv, writeCalls
  <2>5. QueueSound'
    <3>1. \A b \in Acquirers : Waiting(b) => pc'[b] \in {"queued", "leaving"}
      BY <1>0, <2>2 DEF Waiting
    <3>2. pc'[a] \in {"queued", "leaving"} /\ a \notin ready'
      BY <1>0, <2>2
    <3>3. \A i \in 1..Len(waiters') : i \in 1..Len(waiters) \/ i = Len(waiters) + 1
      BY <1>0, <2>0
    <3>4. ready' = ready /\ \A b \in ready : b \in Acquirers
      BY <1>0 DEF SchedulerTypeOK
    <3>5. QueueSound
      BY DEF SchedulerInv
    <3>6. ASSUME NEW i \in 1..Len(waiters')
          PROVE  pc'[waiters'[i]] \in {"queued", "leaving"} /\ waiters'[i] \notin ready'
      <4>1. CASE i \in 1..Len(waiters)
        <5>1. waiters'[i] = waiters[i] /\ waiters[i] \in Acquirers
          BY <1>0, <2>0, <4>1
        <5>2. Waiting(waiters[i]) /\ waiters[i] \notin ready
          BY <3>5, <4>1 DEF QueueSound
        <5> QED
          BY <3>1, <3>4, <5>1, <5>2
      <4>2. CASE i = Len(waiters) + 1
        BY <2>0, <3>2, <4>2
      <4> QED
        BY <3>3, <4>1, <4>2
    <3>7. \A i, j \in 1..Len(waiters') : waiters'[i] = waiters'[j] => i = j
      BY <1>0, <2>0, <3>3, <3>5 DEF QueueSound
    <3>8. \A b \in ready' : pc'[b] \in {"queued", "leaving"}
      BY <3>1, <3>4, <3>5 DEF QueueSound
    <3> QED
      BY <3>6, <3>7, <3>8 DEF QueueSound, Waiting
  <2>6. ScanSound'
    BY <1>0, <1>3, SchedulerAssumption DEF ScanSound
  <2>7. SeenWait'
    <3> SUFFICES ASSUME NEW b \in Acquirers, Seen(b)' PROVE ~CanStart(req[b])'
      BY DEF SeenWait
    <3>1. CASE b = a
      BY <1>0, <1>3, <2>2, <3>1 DEF CanStart, Unclaimed, counts
    <3>2. CASE b # a
      <4>1. Seen(b)
        BY <1>0, <2>0, <3>2 DEF Seen
      <4> QED
        BY <1>0, <1>3, <2>2, <3>2, <4>1 DEF SchedulerInv, SeenWait, CanStart, Unclaimed, counts
    <3> QED
      BY <3>1, <3>2
  <2> QED
    BY <2>1, <2>3, <2>4, <2>5, <2>6, <2>7 DEF SchedulerInv
<1> QED
  BY <1>1, <1>2, <1>3 DEF Acquire

\* Nothing the scan or the queue depends on changes.
LEMMA SeenSame ==
  ASSUME SeenWait, UNCHANGED <<counts, parentClaims, waiters, mu, scan>>,
         \A b \in Acquirers : Seen(b) => req'[b] = req[b]
  PROVE  SeenWait'
<1> SUFFICES ASSUME NEW b \in Acquirers, Seen(b)' PROVE ~CanStart(req[b])'
  BY DEF SeenWait
<1>1. Seen(b)
  BY DEF Seen
<1> QED
  BY <1>1 DEF SeenWait, CanStart, Unclaimed, counts

\* A queued call finds its channel closed, or its context ended.
LEMMA StartedInv ==
  ASSUME SchedulerInv, NEW a \in Acquirers, Started(a) \/ Cancelled(a)
  PROVE  SchedulerInv'
<1>0. /\ SchedulerTypeOK /\ pc[a] = "queued" /\ UNCHANGED <<parentClaims, writeCalls>>
      /\ UNCHANGED <<counts, parentClaims, waiters, mu, scan>> /\ UNCHANGED req
      /\ waiters \in Seq(Acquirers)
  BY DEF SchedulerInv, SchedulerTypeOK, Started, Cancelled, calls
<1>1. SchedulerTypeOK'
  BY DEF SchedulerInv, SchedulerTypeOK, Started, Cancelled, calls, writeCalls, counts, At
<1>2. \A b \in Acquirers : (Owns(b)' <=> Owns(b)) /\ (b # a => pc'[b] = pc[b])
  BY DEF SchedulerInv, SchedulerTypeOK, Started, Cancelled, At, Owns
<1>3. SlotsAccounted' /\ ClaimsDisjoint' /\ WritesAccounted'
  BY <1>0, <1>2, CountsSame
<1>4. QueueSound'
  <2>1. CASE Started(a)
    <3>1. \A i \in 1..Len(waiters) : waiters[i] \in Acquirers /\ waiters[i] # a
      BY <2>1, <1>0, ElementOfSeq DEF Started, SchedulerInv, QueueSound
    <3>2. \A i \in 1..Len(waiters) : pc'[waiters[i]] \in {"queued", "leaving"}
                                      /\ waiters[i] \notin ready'
      BY <2>1, <1>2, <3>1 DEF Started, SchedulerInv, QueueSound, Waiting
    <3>3. \A b \in ready' : pc'[b] \in {"queued", "leaving"}
      BY <2>1, <1>0, <1>2 DEF Started, SchedulerInv, QueueSound, Waiting, SchedulerTypeOK
    <3> QED
      BY <1>0, <3>2, <3>3 DEF SchedulerInv, QueueSound, Waiting
  <2>2. CASE Cancelled(a)
    <3>1. \A b \in Acquirers : Waiting(b) => pc'[b] \in {"queued", "leaving"}
      BY <2>2, <1>0, <1>2 DEF Cancelled, At, SchedulerTypeOK, Waiting
    <3> QED
      BY <2>2, <1>0, <3>1, QueueSame DEF Cancelled, SchedulerInv, Waiting
  <2> QED
    BY <2>1, <2>2
<1>5. ScanSound'
  BY <1>0, <1>2 DEF SchedulerInv, ScanSound, writeCalls
<1>6. SeenWait'
  BY <1>0, SeenSame DEF SchedulerInv
<1> QED
  BY <1>1, <1>3, <1>4, <1>5, <1>6 DEF SchedulerInv

\* Contexts may end at any time, one or several at once.
LEMMA ContextInv ==
  ASSUME SchedulerInv, ended' \in SUBSET Acquirers,
         UNCHANGED <<counts, parentClaims, waiters, mu, scan, ready, pc, req, under, writeCalls>>
  PROVE  SchedulerInv'
<1>1. SchedulerTypeOK'
  BY DEF SchedulerInv, SchedulerTypeOK, writeCalls, counts
<1>2. \A b \in Acquirers : (Owns(b)' <=> Owns(b)) /\ (Waiting(b)' <=> Waiting(b))
  BY DEF Owns, Waiting
<1>3. SlotsAccounted' /\ ClaimsDisjoint' /\ WritesAccounted'
  BY <1>2, CountsSame
<1>4. QueueSound' /\ SeenWait'
  BY <1>2, QueueSame, SeenSame DEF SchedulerInv
<1>5. ScanSound'
  BY DEF SchedulerInv, ScanSound, writeCalls
<1> QED
  BY <1>1, <1>3, <1>4, <1>5 DEF SchedulerInv

\* A cancelled call leaves the queue, and goes on to drop a slot it was given meanwhile.
LEMMA RemoveWaiterInv ==
  ASSUME SchedulerInv, NEW a \in Acquirers, RemoveWaiter(a)
  PROVE  SchedulerInv'
<1>0. /\ SchedulerTypeOK /\ QueueSound /\ pc[a] = "leaving" /\ mu = None
      /\ UNCHANGED <<counts, parentClaims, mu, scan, ended, writeCalls>>
      /\ waiters' = Without(a) /\ ready' = ready \ {a}
      /\ waiters \in Seq(Acquirers) /\ Len(waiters) \in Nat
  BY LenProperties DEF SchedulerInv, SchedulerTypeOK, RemoveWaiter, Leave
<1>1. /\ waiters' \in Seq(Acquirers)
      /\ \A i \in 1..Len(waiters') : waiters'[i] # a
      /\ \A i \in 1..Len(waiters') : \E j \in 1..Len(waiters) : waiters'[i] = waiters[j]
      /\ \A i, j \in 1..Len(waiters') : waiters'[i] = waiters'[j] => i = j
  <2>1. CASE \E i \in 1..Len(waiters) : waiters[i] = a
    <3> DEFINE k == CHOOSE i \in 1..Len(waiters) : waiters[i] = a
    <3>1. k \in 1..Len(waiters) /\ waiters[k] = a
      BY <2>1
    <3>2. waiters' = RemoveAt(waiters, k)
      BY <1>0, <2>1 DEF Without
    <3> HIDE DEF k
    <3> QED
      BY <1>0, <3>1, <3>2, Shorter
  <2>2. CASE ~\E i \in 1..Len(waiters) : waiters[i] = a
    BY <1>0, <2>2 DEF Without, QueueSound
  <2> QED
    BY <2>1, <2>2
<1>2. SchedulerTypeOK'
  <2>1. pc' \in [Acquirers -> {"idle", "queued", "leaving", "dropping", "holding", "pumping",
                                "done"}]
    BY <1>0 DEF SchedulerTypeOK, RemoveWaiter, At
  <2>2. /\ req' \in [Acquirers -> [writer : BOOLEAN, paths : SUBSET Paths]]
        /\ under' \in [Acquirers -> Acquirers \cup {None}]
    <3>1. NoRequest \in [writer : BOOLEAN, paths : SUBSET Paths]
      BY DEF NoRequest
    <3>2. UNCHANGED <<req, under>> \/ Forget(a)
      BY DEF RemoveWaiter
    <3>3. req' = req \/ req' = [req EXCEPT ![a] = NoRequest]
      BY <3>2 DEF Forget
    <3>4. under' = under \/ under' = [under EXCEPT ![a] = None]
      BY <3>2 DEF Forget
    <3>5. req' \in [Acquirers -> [writer : BOOLEAN, paths : SUBSET Paths]]
      BY <1>0, <3>1, <3>3 DEF SchedulerTypeOK
    <3> QED
      BY <1>0, <3>4, <3>5 DEF SchedulerTypeOK
  <2> QED
    BY <1>0, <1>1, <2>1, <2>2 DEF SchedulerTypeOK, counts, writeCalls
<1>3. \A b \in Acquirers :
        /\ Owns(b)' <=> Owns(b)
        /\ b # a => pc'[b] = pc[b] /\ req'[b] = req[b]
        /\ Owns(b) => req'[b] = req[b]
  BY <1>0 DEF Owns, RemoveWaiter, Forget, At, SchedulerTypeOK
<1>4. SlotsAccounted' /\ ClaimsDisjoint' /\ WritesAccounted'
  BY <1>0, <1>3, CountsSame
<1>5. QueueSound'
  <2>1. ASSUME NEW i \in 1..Len(waiters')
        PROVE  pc'[waiters'[i]] \in {"queued", "leaving"} /\ waiters'[i] \notin ready'
    <3>1. PICK j \in 1..Len(waiters) : waiters'[i] = waiters[j]
      BY <1>1
    <3>2. waiters[j] \in Acquirers /\ waiters[j] # a
      BY <1>0, <1>1, <3>1, ElementOfSeq
    <3> QED
      BY <1>0, <1>3, <3>1, <3>2 DEF QueueSound, Waiting
  <2>2. \A b \in ready' : pc'[b] \in {"queued", "leaving"}
    BY <1>0, <1>3 DEF QueueSound, Waiting, SchedulerTypeOK
  <2> QED
    BY <1>1, <2>1, <2>2 DEF QueueSound, Waiting
<1>6. ScanSound'
  BY <1>0, SchedulerAssumption DEF ScanSound
<1>7. SeenWait'
  <2> SUFFICES ASSUME NEW b \in Acquirers, Seen(b)' PROVE ~CanStart(req[b])'
    BY DEF SeenWait
  <2>1. Seen(b) /\ b # a
    BY <1>0, <1>1 DEF Seen
  <2> QED
    BY <1>0, <1>3, <2>1 DEF SchedulerInv, SeenWait, CanStart, Unclaimed, counts
<1> QED
  BY <1>2, <1>4, <1>5, <1>6, <1>7 DEF SchedulerInv

\* Nothing has been examined at the start of a scan.
LEMMA ReleaseInv ==
  ASSUME SchedulerInv, NEW a \in Acquirers, Release(a)
  PROVE  SchedulerInv'
<1>0. /\ SchedulerTypeOK /\ QueueSound /\ pc[a] \in {"holding", "dropping"} /\ Owns(a)
      /\ a \notin ready /\ Deactivate(req[a]) /\ mu' = a /\ scan' = 1
      /\ UNCHANGED <<parentClaims, waiters, ready, ended, writeCalls>>
      /\ waiters \in Seq(Acquirers) /\ pc'[a] = "pumping"
      /\ a \notin Writes /\ a # None
  BY SchedulerAssumption
     DEF SchedulerInv, SchedulerTypeOK, Release, Owns, At, QueueSound, Waiting
<1>1. SchedulerTypeOK'
  <2>1. activeTotal' \in Nat /\ activeWriters' \in Nat
    BY <1>0 DEF SchedulerTypeOK, Deactivate, Less
  <2>2. activeClaims' \in [SUBSET Paths -> Nat]
    <3>1. \A c \in SUBSET Paths : Less(activeClaims[c]) \in Nat
      BY <1>0 DEF SchedulerTypeOK, Less
    <3> QED
      BY <1>0, <3>1 DEF SchedulerTypeOK, Deactivate
  <2> QED
    BY <1>0, <2>1, <2>2 DEF SchedulerTypeOK, Release, Forget, NoRequest, At, writeCalls
<1>2. \A b \in Acquirers \ {a} : (Owns(b)' <=> Owns(b)) /\ pc'[b] = pc[b] /\ req'[b] = req[b]
  BY <1>0 DEF Owns, Release, Forget, At, SchedulerTypeOK
<1>3. ~Owns(a)'
  BY <1>0 DEF Owns
<1>4. SlotsAccounted'
  <2>1. \A b \in Acquirers \ {a} : Owns(b)' = Owns(b) /\ req'[b] = req[b]
    BY <1>2 DEF Owns
  <2> QED
    BY <1>0, <1>3, <2>1, Loss DEF SchedulerInv
<1>5. ClaimsDisjoint' /\ WritesAccounted'
  BY <1>0, <1>2, <1>3, ClaimsKept, WritesSame DEF SchedulerInv, writeCalls
<1>6. QueueSound'
  <2>1. \A b \in Acquirers : Waiting(b) => pc'[b] \in {"queued", "leaving"}
    BY <1>0, <1>2 DEF Waiting
  <2> QED
    BY <1>0, <2>1, QueueSame DEF Waiting
<1>7. ScanSound' /\ SeenWait'
  BY <1>0 DEF ScanSound, SeenWait, Seen
<1> QED
  BY <1>1, <1>4, <1>5, <1>6, <1>7 DEF SchedulerInv

\* A write of the parent claims its path, or finds it claimed.
LEMMA ReserveInv ==
  ASSUME SchedulerInv, NEW w \in Writes, NEW p \in SUBSET Paths, ReserveParentWrite(w, p)
  PROVE  SchedulerInv'
<1>0. /\ SchedulerTypeOK /\ wpc[w] = "idle" /\ mu = None
      /\ UNCHANGED <<counts, waiters, mu, scan, ready, pc, calls>>
      /\ \A b \in Acquirers : (Owns(b)' <=> Owns(b)) /\ req'[b] = req[b]
      /\ \A b \in Acquirers : Waiting(b) => Waiting(b)'
  BY DEF SchedulerInv, ReserveParentWrite, Owns, calls, Waiting
<1>1. CASE ~Unclaimed(p) /\ wpc' = [wpc EXCEPT ![w] = "done"] /\ UNCHANGED <<parentClaims, claim>>
  <2>1. SchedulerTypeOK'
    BY <1>0, <1>1 DEF SchedulerTypeOK, counts, calls
  <2>2. \A v \in Writes : wpc'[v] = "writing" <=> wpc[v] = "writing"
    BY <1>0, <1>1 DEF SchedulerTypeOK
  <2>3. \A c \in SUBSET Paths : WriteOwners(c)' = WriteOwners(c)
    BY <1>1, <2>2 DEF WriteOwners
  <2>4. WritesAccounted'
    BY <1>1, <2>3 DEF SchedulerInv, WritesAccounted
  <2>5. SlotsAccounted'
    BY <1>0, SlotsSame DEF SchedulerInv
  <2>6. ClaimsDisjoint'
    BY <1>0, <1>1, <2>2, ClaimsKept DEF SchedulerInv
  <2>7. QueueSound' /\ SeenWait'
    BY <1>0, <1>1, QueueSame, SeenSame DEF SchedulerInv
  <2>8. ScanSound'
    BY <1>0, SchedulerAssumption DEF ScanSound
  <2> QED
    BY <2>1, <2>4, <2>5, <2>6, <2>7, <2>8 DEF SchedulerInv
<1>2. CASE /\ Unclaimed(p)
           /\ parentClaims' = [parentClaims EXCEPT ![p] = @ + 1]
           /\ claim' = [claim EXCEPT ![w] = p]
           /\ wpc' = [wpc EXCEPT ![w] = "writing"]
  <2>0. \A c \in SUBSET Paths :
          parentClaims[c] \in Nat /\ parentClaims'[c] = IF c = p THEN parentClaims[c] + 1
                                                        ELSE parentClaims[c]
    BY <1>0, <1>2 DEF SchedulerTypeOK
  <2>1. SchedulerTypeOK'
    <3>1. parentClaims' \in [SUBSET Paths -> Nat]
      <4>1. parentClaims[p] + 1 \in Nat
        BY <2>0
      <4> QED
        BY <1>0, <1>2, <4>1 DEF SchedulerTypeOK
    <3> QED
      BY <1>0, <1>2, <3>1 DEF SchedulerTypeOK, counts, calls
  <2>2. /\ wpc'[w] = "writing" /\ claim'[w] = p
        /\ \A v \in Writes \ {w} : wpc'[v] = wpc[v] /\ claim'[v] = claim[v]
    BY <1>0, <1>2 DEF SchedulerTypeOK
  <2>3. \A c \in SUBSET Paths :
          /\ w \notin WriteOwners(c)
          /\ WriteOwners(c)' = IF c = p THEN WriteOwners(c) \cup {w} ELSE WriteOwners(c)
    BY <1>0, <2>2 DEF WriteOwners
  <2>4. WritesAccounted'
    <3> SUFFICES ASSUME NEW c \in SUBSET Paths
                 PROVE  parentClaims'[c] = Cardinality(WriteOwners(c)')
      BY DEF WritesAccounted
    <3>1. parentClaims[c] = Cardinality(WriteOwners(c))
      BY DEF SchedulerInv, WritesAccounted
    <3>2. Cardinality(WriteOwners(c) \cup {w}) = Cardinality(WriteOwners(c)) + 1
      BY <2>3, OwnersFinite, CountOne
    <3> QED
      BY <2>0, <2>3, <3>1, <3>2
  <2>5. SlotsAccounted'
    BY <1>0, SlotsSame DEF SchedulerInv
  <2>6. ClaimsDisjoint'
    <3>1. /\ \A b \in Acquirers : Owns(b) /\ req[b].writer => ~Overlaps(req[b].paths, p)
          /\ \A v \in Writes : wpc[v] = "writing" => ~Overlaps(claim[v], p)
      BY <1>2, Covered DEF SchedulerInv
    <3>2. \A c, d : Overlaps(c, d) = Overlaps(d, c)
      BY DEF Overlaps
    <3> QED
      BY <1>0, <2>2, <3>1, <3>2 DEF SchedulerInv, ClaimsDisjoint
  <2>7. QueueSound'
    BY <1>0, QueueSame DEF SchedulerInv
  <2>8. ScanSound'
    BY <1>0, SchedulerAssumption DEF ScanSound
  <2>9. SeenWait'
    <3> SUFFICES ASSUME NEW b \in Acquirers, Seen(b)' PROVE ~CanStart(req[b])'
      BY DEF SeenWait
    <3>1. Seen(b)
      BY <1>0 DEF Seen
    <3>2. /\ activeTotal <= activeTotal' /\ activeWriters <= activeWriters'
          /\ \A c \in SUBSET Paths : activeClaims[c] <= activeClaims'[c]
      BY <1>0 DEF counts, SchedulerTypeOK
    <3>3. \A c \in SUBSET Paths : parentClaims[c] <= parentClaims'[c]
      BY <2>0
    <3> QED
      BY <1>0, <2>1, <3>1, <3>2, <3>3, Tighter DEF SchedulerInv, SeenWait
  <2> QED
    BY <2>1, <2>4, <2>5, <2>6, <2>7, <2>8, <2>9 DEF SchedulerInv
<1> QED
  BY <1>1, <1>2 DEF ReserveParentWrite

\* A write of the parent gives its claim back.
LEMMA ReleaseWriteInv ==
  ASSUME SchedulerInv, NEW w \in Writes, ReleaseParentWrite(w)
  PROVE  SchedulerInv'
<1>0. /\ SchedulerTypeOK /\ wpc[w] = "writing" /\ mu' = w /\ scan' = 1
      /\ UNCHANGED <<counts, waiters, ready, pc, calls>>
      /\ \A b \in Acquirers : (Owns(b)' <=> Owns(b)) /\ req'[b] = req[b]
      /\ \A b \in Acquirers : Waiting(b) => Waiting(b)'
      /\ w \notin Acquirers /\ w # None
  BY SchedulerAssumption DEF SchedulerInv, ReleaseParentWrite, Owns, calls, Waiting
<1>1. /\ wpc'[w] = "pumping"
      /\ \A v \in Writes \ {w} : wpc'[v] = wpc[v] /\ claim'[v] = claim[v]
  BY <1>0 DEF ReleaseParentWrite, SchedulerTypeOK
<1>2. \A c \in SUBSET Paths :
        /\ parentClaims[c] \in Nat
        /\ parentClaims'[c] = IF c = claim[w] THEN Less(parentClaims[c]) ELSE parentClaims[c]
  BY <1>0 DEF ReleaseParentWrite, SchedulerTypeOK
<1>3. SchedulerTypeOK'
  <2>1. \A c \in SUBSET Paths : Less(parentClaims[c]) \in Nat
    BY <1>2 DEF Less
  <2>2. parentClaims' \in [SUBSET Paths -> Nat]
    BY <1>0, <2>1 DEF ReleaseParentWrite, SchedulerTypeOK
  <2> QED
    BY <1>0, <2>2 DEF SchedulerTypeOK, ReleaseParentWrite, counts, calls
<1>4. WritesAccounted'
  <2> SUFFICES ASSUME NEW c \in SUBSET Paths
               PROVE  parentClaims'[c] = Cardinality(WriteOwners(c)')
    BY DEF WritesAccounted
  <2>1. WriteOwners(c)' = WriteOwners(c) \ {w} /\ (w \in WriteOwners(c) <=> c = claim[w])
    BY <1>0, <1>1 DEF WriteOwners
  <2>2. parentClaims[c] = Cardinality(WriteOwners(c))
    BY DEF SchedulerInv, WritesAccounted
  <2>3. CASE c = claim[w]
    <3>1. Cardinality(WriteOwners(c) \ {w}) = Less(Cardinality(WriteOwners(c)))
      BY <2>1, <2>3, OwnersFinite, CountOne
    <3> QED
      BY <1>2, <2>1, <2>2, <2>3, <3>1
  <2>4. CASE c # claim[w]
    <3>1. WriteOwners(c)' = WriteOwners(c)
      BY <2>1, <2>4
    <3> QED
      BY <1>2, <2>2, <2>4, <3>1
  <2> QED
    BY <2>3, <2>4
<1>5. SlotsAccounted'
  BY <1>0, SlotsSame DEF SchedulerInv
<1>6. ClaimsDisjoint'
  BY <1>0, <1>1, ClaimsKept DEF SchedulerInv
<1>7. QueueSound'
  BY <1>0, QueueSame DEF SchedulerInv
<1>8. ScanSound' /\ SeenWait'
  BY <1>0, <1>1 DEF ScanSound, SeenWait, Seen
<1> QED
  BY <1>3, <1>4, <1>5, <1>6, <1>7, <1>8 DEF SchedulerInv

\* A waiter that fits gets its slot; those passed before still do not fit.
LEMMA PumpInv ==
  ASSUME SchedulerInv, Pump
  PROVE  SchedulerInv'
<1>a. PICK a \in Acquirers : a = waiters[scan]
  BY LenProperties, ElementOfSeq DEF SchedulerInv, SchedulerTypeOK, Pump
<1>0. /\ SchedulerTypeOK /\ QueueSound /\ mu # None /\ scan \in 1..Len(waiters)
      /\ waiters \in Seq(Acquirers) /\ Len(waiters) \in Nat /\ a \in Acquirers
      /\ a \notin ready /\ Waiting(a) /\ ~Owns(a) /\ scan \in Nat
      /\ req[a] \in [writer : BOOLEAN, paths : SUBSET Paths]
      /\ UNCHANGED <<parentClaims, mu, pc, calls, writeCalls>>
  BY <1>a, LenProperties
     DEF SchedulerInv, SchedulerTypeOK, Pump, QueueSound, Waiting, Owns
<1>1. CASE CanStart(req[a])
  <2>0. /\ Activate(req[a]) /\ ready' = ready \cup {a} /\ waiters' = RemoveAt(waiters, scan)
        /\ UNCHANGED scan
    BY <1>a, <1>0, <1>1 DEF Pump
  <2>1. /\ waiters' \in Seq(Acquirers)
        /\ \A i \in 1..Len(waiters') : waiters'[i] # a
        /\ \A i \in 1..Len(waiters') :
             \E j \in 1..Len(waiters) : waiters'[i] = waiters[j] /\ (i < scan => j = i)
        /\ \A i, j \in 1..Len(waiters') : waiters'[i] = waiters'[j] => i = j
    BY <1>a, <1>0, <2>0, Shorter
  <2>2. SchedulerTypeOK'
    BY <1>0, <2>0, <2>1, ActivateGrows DEF SchedulerTypeOK, calls, writeCalls
  <2>3. /\ Owns(a)' /\ req' = req
        /\ \A b \in Acquirers \ {a} : (Owns(b)' <=> Owns(b)) /\ req'[b] = req[b]
    BY <1>0, <2>0 DEF Owns, calls
  <2>4. SlotsAccounted'
    BY <1>0, <1>1, <2>0, <2>3, Gain DEF SchedulerInv
  <2>5. ClaimsDisjoint'
    BY <1>0, <1>1, <2>3, ClaimsGain DEF SchedulerInv
  <2>6. WritesAccounted'
    BY <1>0, WritesSame DEF SchedulerInv
  <2>7. QueueSound'
    <3>1. ASSUME NEW i \in 1..Len(waiters')
          PROVE  Waiting(waiters'[i]) /\ waiters'[i] \notin ready'
      BY <1>0, <2>0, <2>1 DEF QueueSound
    <3>2. \A b \in ready' : Waiting(b)
      BY <1>0, <2>0 DEF QueueSound
    <3> QED
      BY <1>0, <2>1, <3>1, <3>2 DEF QueueSound, Waiting
  <2>8. ScanSound'
    BY <1>0 DEF SchedulerInv, ScanSound, writeCalls
  <2>9. SeenWait'
    <3> SUFFICES ASSUME NEW b \in Acquirers, Seen(b)' PROVE ~CanStart(req[b])'
      BY DEF SeenWait
    <3>1. Seen(b)
      BY <1>0, <2>0, <2>1 DEF Seen
    <3>2. /\ activeTotal <= activeTotal' /\ activeWriters <= activeWriters'
          /\ \A c \in SUBSET Paths : activeClaims[c] <= activeClaims'[c]
      BY <1>0, <2>0, ActivateGrows
    <3>3. \A c \in SUBSET Paths : parentClaims[c] <= parentClaims'[c]
      <4>1. \A c \in SUBSET Paths : parentClaims[c] \in Nat
        BY <1>0 DEF SchedulerTypeOK
      <4> QED
        BY <1>0, <4>1
    <3> QED
      BY <1>0, <2>2, <2>3, <3>1, <3>2, <3>3, Tighter DEF SchedulerInv, SeenWait
  <2> QED
    BY <2>2, <2>4, <2>5, <2>6, <2>7, <2>8, <2>9 DEF SchedulerInv
<1>2. CASE ~CanStart(req[a])
  <2>0. scan' = scan + 1 /\ UNCHANGED <<counts, ready, waiters>>
    BY <1>a, <1>0, <1>2 DEF Pump
  <2>1. SchedulerTypeOK'
    BY <1>0, <2>0 DEF SchedulerTypeOK, counts, calls, writeCalls
  <2>2. \A b \in Acquirers : (Owns(b)' <=> Owns(b)) /\ req'[b] = req[b]
    BY <1>0, <2>0 DEF Owns, calls
  <2>3. SlotsAccounted' /\ ClaimsDisjoint' /\ WritesAccounted'
    BY <1>0, <2>0, <2>2, CountsSame
  <2>4. QueueSound'
    BY <1>0, <2>0 DEF QueueSound, Waiting
  <2>5. ScanSound'
    BY <1>0 DEF SchedulerInv, ScanSound, writeCalls
  <2>6. SeenWait'
    <3> SUFFICES ASSUME NEW b \in Acquirers, Seen(b)' PROVE ~CanStart(req[b])'
      BY DEF SeenWait
    <3>1. Seen(b) \/ b = a
      BY <1>a, <1>0, <2>0 DEF Seen
    <3>2. ~CanStart(req[b])
      BY <1>2, <3>1 DEF SchedulerInv, SeenWait
    <3> QED
      BY <1>0, <2>0, <3>2 DEF CanStart, Unclaimed, counts, calls
  <2> QED
    BY <2>1, <2>3, <2>4, <2>5, <2>6 DEF SchedulerInv
<1> QED
  BY <1>1, <1>2

\* The scan under the mutex ends and lets the mutex go.
LEMMA PumpedInv ==
  ASSUME SchedulerInv, Pumped
  PROVE  SchedulerInv'
<1>0. /\ SchedulerTypeOK /\ QueueSound /\ mu # None /\ scan > Len(waiters) /\ mu' = None
      /\ scan' = 1 /\ UNCHANGED <<counts, parentClaims, waiters, ready, calls, claim>>
      /\ Len(waiters) \in Nat /\ scan \in Nat
      /\ mu \in Acquirers => pc[mu] = "pumping"
      /\ mu \in Writes => wpc[mu] = "pumping"
  BY LenProperties DEF SchedulerInv, SchedulerTypeOK, ScanSound, Pumped
<1>1. SchedulerTypeOK'
  BY <1>0 DEF SchedulerTypeOK, Pumped, counts, calls
<1>2. /\ \A b \in Acquirers : pc'[b] # pc[b] => pc[b] = "pumping" /\ pc'[b] = "done"
      /\ \A v \in Writes : wpc'[v] # wpc[v] => wpc[v] = "pumping" /\ wpc'[v] = "done"
  BY <1>0 DEF Pumped, SchedulerTypeOK
<1>3. \A b \in Acquirers : (Owns(b)' <=> Owns(b)) /\ req'[b] = req[b]
                           /\ (Waiting(b) => Waiting(b)')
  BY <1>0, <1>2 DEF Owns, Waiting, calls
<1>4. SlotsAccounted'
  BY <1>0, <1>3, SlotsSame DEF SchedulerInv
<1>5. ClaimsDisjoint'
  BY <1>0, <1>2, <1>3, ClaimsKept DEF SchedulerInv
<1>6. WritesAccounted'
  <2>1. \A c \in SUBSET Paths : WriteOwners(c)' = WriteOwners(c)
    BY <1>0, <1>2 DEF WriteOwners
  <2> QED
    BY <1>0, <2>1 DEF SchedulerInv, WritesAccounted
<1>7. QueueSound'
  BY <1>0, <1>3, QueueSame
<1>8. ScanSound'
  BY <1>0, SchedulerAssumption DEF ScanSound
<1>9. SeenWait'
  <2> SUFFICES ASSUME NEW b \in Acquirers, Seen(b)' PROVE ~CanStart(req[b])'
    BY DEF SeenWait
  <2>1. Seen(b)
    BY <1>0 DEF Seen
  <2> QED
    BY <1>0, <2>1 DEF SchedulerInv, SeenWait, CanStart, Unclaimed, counts, calls
<1> QED
  BY <1>1, <1>4, <1>5, <1>6, <1>7, <1>8, <1>9 DEF SchedulerInv

\* Every step of the pool keeps its invariant.
LEMMA NextInv == SchedulerInv /\ [SchedulerNext]_schedulerVars => SchedulerInv'
<1> SUFFICES ASSUME SchedulerInv, [SchedulerNext]_schedulerVars PROVE SchedulerInv'
  OBVIOUS
<1>0. Holders \subseteq Acquirers
  BY DEF Holders
<1>1. CASE \E a \in Acquirers, r \in Requests, h \in Holders \cup {None} : Acquire(a, r, h)
  BY <1>0, <1>1, SchedulerAssumption, AcquireInv
<1>2. CASE \E a \in Acquirers : Proceed(a)
  BY <1>2, StartedInv, RemoveWaiterInv, ReleaseInv DEF Proceed
<1>3. CASE \E a \in Acquirers : pc[a] = "queued" /\ EndContext(a)
  BY <1>3, ContextInv DEF EndContext, SchedulerInv, SchedulerTypeOK
<1>4. CASE \E w \in Writes, paths \in SUBSET Paths : ReserveParentWrite(w, paths)
  BY <1>4, ReserveInv
<1>5. CASE \E w \in Writes : ReleaseParentWrite(w)
  BY <1>5, ReleaseWriteInv
<1>6. CASE Pump \/ Pumped
  BY <1>6, PumpInv, PumpedInv
<1>7. CASE UNCHANGED schedulerVars
  <2>1. ended' \in SUBSET Acquirers
    BY <1>7 DEF schedulerVars, calls, SchedulerInv, SchedulerTypeOK
  <2>2. UNCHANGED <<counts, parentClaims, waiters, mu, scan, ready, pc, req, under, writeCalls>>
    BY <1>7 DEF schedulerVars, calls
  <2> QED
    BY <2>1, <2>2, ContextInv
<1> QED
  BY <1>1, <1>2, <1>3, <1>4, <1>5, <1>6, <1>7 DEF SchedulerNext

\* What the invariant says of those who wait.
LEMMA NobodyForgotten == SchedulerInv => NoLostWakeup
<1> SUFFICES ASSUME SchedulerInv, mu = None, NEW i \in 1..Len(waiters)
             PROVE  ~CanStart(req[waiters[i]])
  BY DEF NoLostWakeup
<1>1. waiters[i] \in Acquirers
  BY ElementOfSeq DEF SchedulerInv, SchedulerTypeOK
<1>2. Seen(waiters[i])
  BY DEF Seen
<1> QED
  BY <1>1, <1>2 DEF SchedulerInv, SeenWait

-----------------------------------------------------------------------------
(* The pool on its own, whatever its callers do *)

\* The invariant of the pool holds throughout.
LEMMA Invariance == SchedulerSpec => []SchedulerInv
  BY InitInv, NextInv, PTL DEF SchedulerSpec

\* Every variable has its type.
THEOREM SchedulerTypeCorrect == SchedulerSpec => []SchedulerTypeOK
  BY Invariance, PTL DEF SchedulerInv

\* The counters and the claims say exactly who has a slot, and the limits hold,
\* however cancellation and activation meet.
THEOREM EverySlotAccounted == SchedulerSpec => []SlotsAccounted
  BY Invariance, PTL DEF SchedulerInv

\* Runs that may write and writes of the parent never claim the same path.
THEOREM NoTwoClaimOnePath == SchedulerSpec => []ClaimsDisjoint
  BY Invariance, PTL DEF SchedulerInv

\* Nobody waits in the queue for a slot or a path that is free.
THEOREM NobodyWaitsForWhatIsFree == SchedulerSpec => []NoLostWakeup
  BY Invariance, NobodyForgotten, PTL

-----------------------------------------------------------------------------
(* The jobs: the inductive invariant *)

\* A goroutine that has not published its status yet: its job is in the table,
\* and killed if the session is not open any more.
Early(j) == gor[j] \in {"running", "returned", "settled", "recorded"}
JobsKnown ==
  /\ \A j \in table : gor[j] # "none" /\ open[session[j]] # "gone"
  /\ \A j \in Jobs : Early(j) =>
       /\ j \in table /\ status[j] \in {"Running", "Killed"}
       /\ open[session[j]] # "open" => status[j] = "Killed"
  /\ open[active] = "open"

NotesSound == \A j \in notes : j \in table /\ open[session[j]] = "open"

\* Before a restart, a goroutine past recordCompletion has told the session, if
\* that was not being destroyed.
ToldSound ==
  \A j \in table : gor[j] \in {"recorded", "published", "closed"} /\ open[session[j]] = "open"
                   /\ restarts = 0 => j \in told

\* Receipts that were published wait for a delivered turn, in memory and on disk.
Kept(j) == j \in reviewed \/ j \in evidence \ committed
Unwinding(j) == gor[j] \in {"returned", "settled", "recorded", "published"}
EvidenceSound ==
  /\ \A j \in wrote : Unwinding(j) \/ (gor[j] = "closed" /\ j \in table
                                       /\ status[j] # "Interrupted") => Kept(j)
  /\ \A j \in wrote : meta[j].status \in {"Done", "Failed", "Killed"}
                      => j \in reviewed \/ meta[j].evidence
  /\ \A j \in Jobs : gor[j] \in {"running", "returned"} => meta[j].status = "Running"
  /\ \A j \in Jobs : gor[j] = "none" => meta[j].status = "none"
  /\ \A j \in committed \cup leases : gor[j] = "closed"
  /\ leases \cap (evidence \ committed) \subseteq merged

JobsInv == TypeOK /\ JobsKnown /\ NotesSound /\ ToldSound /\ EvidenceSound

\* The invariants of the properties follow.
LEMMA InvImplies == JobsInv => EvidenceKept /\ TerminalImpliesNoted /\ NotesHaveJobs
<1> SUFFICES ASSUME JobsInv PROVE EvidenceKept /\ TerminalImpliesNoted /\ NotesHaveJobs
  OBVIOUS
<1>1. EvidenceKept
  BY DEF JobsInv, EvidenceSound, EvidenceKept, Exited, Kept
<1>2. NotesHaveJobs
  BY DEF JobsInv, NotesSound, NotesHaveJobs
<1>3. TerminalImpliesNoted
  <2> SUFFICES ASSUME NEW j \in table, status[j] \in {"Done", "Failed"},
                      open[session[j]] = "open", restarts = 0
               PROVE  j \in told
    BY DEF TerminalImpliesNoted
  <2>1. j \in Jobs /\ ~Early(j) /\ gor[j] # "none"
    BY DEF JobsInv, JobsKnown, TypeOK
  <2>2. gor[j] \in {"published", "closed"}
    BY <2>1 DEF JobsInv, TypeOK, Early
  <2> QED
    BY <2>2 DEF JobsInv, ToldSound
<1> QED
  BY <1>1, <1>2, <1>3

\* No job has been started.
LEMMA InitJobs == Init => JobsInv
<1> SUFFICES ASSUME Init PROVE JobsInv
  OBVIOUS
<1>1. SchedulerTypeOK
  BY InitInv DEF Init, SchedulerInv
<1>2. TypeOK
  <2>1. NoRecord \in [status : Terminal \cup {"none", "Running"}, evidence : BOOLEAN]
    BY DEF NoRecord
  <2>2. active \in Sessions /\ session \in [Jobs -> Sessions]
    BY DEF Init
  <2>3. /\ gor \in [Jobs -> {"none", "running", "returned", "settled", "recorded", "published",
                             "closed"}]
        /\ status \in [Jobs -> Terminal \cup {"none", "Running"}]
        /\ outcome \in [Jobs -> {"none", "Done", "Failed", "Killed"}]
        /\ open \in [Sessions -> {"open", "destroying", "gone"}]
    BY DEF Init
  <2>4. meta \in [Jobs -> [status : Terminal \cup {"none", "Running"}, evidence : BOOLEAN]]
    BY <2>1 DEF Init
  <2>5. restarts \in 0..MaxRestarts
    BY JobsAssumption DEF Init
  <2>6. /\ table = {} /\ evidence = {} /\ committed = {} /\ wrote = {} /\ reviewed = {}
        /\ notes = {} /\ told = {} /\ leases = {} /\ merged = {}
        /\ closed = FALSE /\ turn = FALSE
    BY DEF Init
  <2> QED
    BY <1>1, <2>2, <2>3, <2>4, <2>5, <2>6 DEF TypeOK
<1>3. JobsKnown /\ NotesSound /\ ToldSound
  BY DEF Init, JobsKnown, NotesSound, ToldSound, Early
<1>4. EvidenceSound
  BY DEF Init, EvidenceSound, NoRecord
<1> QED
  BY <1>2, <1>3, <1>4 DEF JobsInv

-----------------------------------------------------------------------------
(* The scheduler inside *)

\* A restart empties the pool.
LEMMA RestartScheduler ==
  ASSUME SchedulerInv, Restart
  PROVE  SchedulerInv'
<1>0. /\ activeTotal' = 0 /\ activeWriters' = 0
      /\ activeClaims' = NoClaims /\ parentClaims' = NoClaims
      /\ waiters' = <<>> /\ mu' = None /\ scan' = 1 /\ ready' = {} /\ ended' = {}
      /\ pc' \in [Acquirers -> {"idle", "done"}] /\ wpc' \in [Writes -> {"idle", "done"}]
      /\ req' = [a \in Acquirers |-> NoRequest] /\ under' = [a \in Acquirers |-> None]
      /\ claim' = [w \in Writes |-> {}]
  BY DEF Restart
<1>1. SchedulerTypeOK'
  BY <1>0 DEF SchedulerTypeOK, NoClaims, NoRequest
<1>2. \A a \in Acquirers : ~Owns(a)'
  BY <1>0 DEF Owns
<1>3. Cardinality({}) = 0
  BY FS_EmptySet
<1>4. SlotsAccounted'
  <2>1. Owners' = {} /\ WriterOwners' = {}
    BY <1>2 DEF Owners, WriterOwners
  <2>2. \A c \in SUBSET Paths : ClaimOwners(c)' = {} /\ activeClaims'[c] = 0
    BY <1>0, <1>2 DEF ClaimOwners, NoClaims
  <2>3. /\ activeTotal' = Cardinality(Owners') /\ activeWriters' = Cardinality(WriterOwners')
        /\ \A c \in SUBSET Paths : activeClaims'[c] = Cardinality(ClaimOwners(c)')
    BY <1>0, <1>3, <2>1, <2>2
  <2>4. activeTotal' <= MaxTotal /\ activeWriters' <= MaxWriters
    BY <1>0, SchedulerAssumption
  <2> QED
    BY <2>3, <2>4 DEF SlotsAccounted, Owners, WriterOwners, ClaimOwners
<1>5. WritesAccounted'
  <2>1. \A c \in SUBSET Paths : WriteOwners(c)' = {} /\ parentClaims'[c] = 0
    BY <1>0 DEF WriteOwners, NoClaims
  <2> QED
    BY <1>3, <2>1 DEF WritesAccounted
<1>6. ClaimsDisjoint'
  BY <1>0, <1>2 DEF ClaimsDisjoint
<1>7. QueueSound' /\ SeenWait'
  BY <1>0 DEF QueueSound, SeenWait, Seen
<1>8. ScanSound'
  BY <1>0, SchedulerAssumption DEF ScanSound
<1> QED
  BY <1>1, <1>4, <1>5, <1>6, <1>7, <1>8 DEF SchedulerInv

\* Every other step is one of the scheduler, ends contexts or leaves it alone.
LEMMA NextScheduler == SchedulerInv /\ TypeOK /\ [Next]_vars => SchedulerInv'
<1> SUFFICES ASSUME SchedulerInv, TypeOK, [Next]_vars PROVE SchedulerInv'
  OBVIOUS
<1>a. Jobs \subseteq Acquirers /\ Subagents \subseteq Acquirers /\ Holders \subseteq Acquirers
      /\ ended \in SUBSET Acquirers
  BY JobsAssumption DEF Subagents, Holders, TypeOK, SchedulerTypeOK
<1>0. CASE UNCHANGED schedulerVars
  BY <1>0, NextInv
<1>1. CASE \E j \in Jobs : Goroutine(j) \/ Work(j) \/ Kill(j)
  <2>1. PICK j \in Jobs : Goroutine(j) \/ Work(j) \/ Kill(j)
    BY <1>1
  <2>2. CASE \E r \in Requests : AcquireSlot(j, r)
    BY <1>a, <2>2, AcquireInv, SchedulerAssumption DEF AcquireSlot
  <2>3. CASE Kill(j)
    BY <1>a, <2>3, ContextInv DEF Kill, EndContext
  <2>4. CASE ~(\E r \in Requests : AcquireSlot(j, r)) /\ ~Kill(j)
    BY <2>1, <2>4, <1>0 DEF Goroutine, Work, PublishEvidence, Settle, RecordCompletion, PublishStatus,
                      CloseDone
  <2> QED
    BY <2>2, <2>3, <2>4
<1>2. CASE \E a \in Acquirers : Proceed(a) /\ UNCHANGED jobVars
  BY <1>2, StartedInv, RemoveWaiterInv, ReleaseInv DEF Proceed
<1>3. CASE \E a \in Subagents, r \in Requests, h \in Holders \cup {None} : Delegate(a, r, h)
  BY <1>a, <1>3, AcquireInv, SchedulerAssumption DEF Delegate
<1>4. CASE \E a \in Subagents : pc[a] = "queued" /\ EndContext(a) /\ UNCHANGED jobVars
  BY <1>a, <1>4, ContextInv DEF EndContext
<1>5. CASE \E w \in Writes, paths \in SUBSET Paths : Write(w, paths)
  BY <1>5, ReserveInv DEF Write
<1>6. CASE \E w \in Writes : ReleaseParentWrite(w) /\ UNCHANGED jobVars
  BY <1>6, ReleaseWriteInv
<1>7. CASE (Pump \/ Pumped) /\ UNCHANGED jobVars
  BY <1>7, PumpInv, PumpedInv
<1>8. CASE Turn
  BY <1>8, <1>0 DEF Turn, StartTurn, StartForSession, Collect, Deliver, FailTurn
<1>9. CASE \E s \in Sessions : SwitchSession(s) \/ BeginDestroySession(s) \/ FinishDestroySession(s)
  <2>1. PICK s \in Sessions : SwitchSession(s) \/ BeginDestroySession(s) \/ FinishDestroySession(s)
    BY <1>9
  <2>2. CASE SwitchSession(s) \/ FinishDestroySession(s)
    BY <2>2, <1>0 DEF SwitchSession, FinishDestroySession
  <2>3. CASE BeginDestroySession(s)
    <3>1. ended' \in SUBSET Acquirers
      BY <1>a, <2>3 DEF BeginDestroySession, Killing, Running, Mine, TypeOK
    <3> QED
      BY <2>3, <3>1, ContextInv DEF BeginDestroySession, Killing
  <2> QED
    BY <2>1, <2>2, <2>3
<1>10. CASE Close
  <2>1. ended' \in SUBSET Acquirers
    BY <1>a, <1>10 DEF Close
  <2> QED
    BY <1>10, <2>1, ContextInv DEF Close
<1>11. CASE Restart
  BY <1>11, RestartScheduler
<1>12. CASE UNCHANGED vars
  BY <1>0, <1>12 DEF vars
<1> QED
  BY <1>1, <1>2, <1>3, <1>4, <1>5, <1>6, <1>7, <1>8, <1>9, <1>10, <1>11, <1>12 DEF Next

-----------------------------------------------------------------------------
(* Every step preserves the invariant *)

\* Steps of the pool do not touch the jobs.
LEMMA JobsSame ==
  ASSUME JobsInv, SchedulerTypeOK', UNCHANGED jobVars
  PROVE  JobsInv'
<1>1. UNCHANGED <<table, status, outcome, meta, session, gor, evidence, committed, wrote, reviewed,
                  turn, leases, merged, notes, told, active, open, closed, restarts>>
  BY DEF jobVars, records, receipts, ledger, notices, manager
<1>2. TypeOK' /\ JobsKnown'
  BY <1>1 DEF JobsInv, TypeOK, JobsKnown, Early
<1>3. NotesSound' /\ ToldSound'
  BY <1>1 DEF JobsInv, NotesSound, ToldSound
<1>4. EvidenceSound'
  BY <1>1 DEF JobsInv, EvidenceSound, Kept, Unwinding
<1> QED
  BY <1>2, <1>3, <1>4 DEF JobsInv

\* A job is entered in the table with its first record.
LEMMA StartForSessionInv ==
  ASSUME JobsInv, SchedulerTypeOK', NEW j \in Jobs, StartForSession(j)
  PROVE  JobsInv'
<1>1. TypeOK'
  BY DEF JobsInv, TypeOK, StartForSession, Goto, records, receipts, ledger, notices, manager, Terminal
<1>2. JobsKnown'
  BY DEF JobsInv, TypeOK, JobsKnown, Early, StartForSession, Goto, records, receipts, ledger, notices, manager
<1>3. NotesSound'
  BY DEF JobsInv, TypeOK, JobsKnown, NotesSound, StartForSession, Goto, records, receipts, ledger, notices, manager
<1>4. ToldSound'
  BY DEF JobsInv, TypeOK, JobsKnown, ToldSound, StartForSession, Goto, records, receipts, ledger, notices, manager
<1>5. EvidenceSound'
  BY DEF JobsInv, TypeOK, JobsKnown, EvidenceSound, Kept, Unwinding, StartForSession, Goto, records, receipts, ledger, notices, manager
<1> QED
  BY <1>1, <1>2, <1>3, <1>4, <1>5 DEF JobsInv

\* A job changes the workspace while it has its slot.
LEMMA WorkInv ==
  ASSUME JobsInv, SchedulerTypeOK', NEW j \in Jobs, Work(j)
  PROVE  JobsInv'
<1>1. TypeOK'
  BY DEF JobsInv, TypeOK, Work, records, receipts, ledger, notices, manager, Terminal
<1>2. JobsKnown'
  BY DEF JobsInv, TypeOK, JobsKnown, Early, Work, records, receipts, ledger, notices, manager
<1>3. NotesSound'
  BY DEF JobsInv, TypeOK, JobsKnown, NotesSound, Work, records, receipts, ledger, notices, manager
<1>4. ToldSound'
  BY DEF JobsInv, TypeOK, JobsKnown, ToldSound, Work, records, receipts, ledger, notices, manager
<1>5. EvidenceSound'
  BY DEF JobsInv, TypeOK, JobsKnown, EvidenceSound, Kept, Unwinding, Work, records, receipts, ledger, notices, manager
<1> QED
  BY <1>1, <1>2, <1>3, <1>4, <1>5 DEF JobsInv

\* The receipts of what a job changed are published before its status.
LEMMA PublishEvidenceInv ==
  ASSUME JobsInv, SchedulerTypeOK', NEW j \in Jobs, PublishEvidence(j)
  PROVE  JobsInv'
<1>1. TypeOK'
  BY DEF JobsInv, TypeOK, PublishEvidence, Goto, records, receipts, ledger, notices, manager, Terminal
<1>2. JobsKnown'
  BY DEF JobsInv, TypeOK, JobsKnown, Early, PublishEvidence, Goto, records, receipts, ledger, notices, manager
<1>3. NotesSound'
  BY DEF JobsInv, TypeOK, JobsKnown, NotesSound, PublishEvidence, Goto, records, receipts, ledger, notices, manager
<1>4. ToldSound'
  BY DEF JobsInv, TypeOK, JobsKnown, ToldSound, PublishEvidence, Goto, records, receipts, ledger, notices, manager
<1>5. EvidenceSound'
  BY DEF JobsInv, TypeOK, JobsKnown, EvidenceSound, Kept, Unwinding, PublishEvidence, Goto, records, receipts, ledger, notices, manager
<1> QED
  BY <1>1, <1>2, <1>3, <1>4, <1>5 DEF JobsInv

\* A job settles on its outcome and rewrites its record, which may fail.
LEMMA SettleInv ==
  ASSUME JobsInv, SchedulerTypeOK', NEW j \in Jobs, Settle(j)
  PROVE  JobsInv'
<1>0. PICK st \in {"Done", "Failed", "Killed"} :
        /\ outcome' = [outcome EXCEPT ![j] = st]
        /\ \/ meta' = [meta EXCEPT ![j] = [status |-> st, evidence |-> j \in evidence]]
           \/ UNCHANGED meta
  BY DEF Settle
<1>a. /\ gor[j] = "returned" /\ gor' = [gor EXCEPT ![j] = "settled"]
      /\ UNCHANGED <<table, status, session, evidence, committed, wrote, reviewed, turn, leases,
                     merged, notes, told, active, open, closed, restarts>>
  BY DEF Settle, Goto, receipts, ledger, notices, manager
<1>b. /\ \A k \in Jobs \ {j} : meta'[k] = meta[k] /\ gor'[k] = gor[k]
      /\ gor'[j] = "settled"
      /\ meta'[j] = meta[j] \/ meta'[j].evidence = (j \in evidence)
  BY <1>0, <1>a DEF JobsInv, TypeOK
<1>1. TypeOK'
  <2>1. [status |-> st, evidence |-> j \in evidence]
          \in [status : Terminal \cup {"none", "Running"}, evidence : BOOLEAN]
    BY DEF Terminal
  <2>2. meta' \in [Jobs -> [status : Terminal \cup {"none", "Running"}, evidence : BOOLEAN]]
    BY <1>0, <2>1 DEF JobsInv, TypeOK
  <2> QED
    BY <1>0, <1>a, <2>2 DEF JobsInv, TypeOK
<1>2. JobsKnown'
  BY <1>a, <1>b DEF JobsInv, TypeOK, JobsKnown, Early
<1>3. NotesSound' /\ ToldSound'
  BY <1>a, <1>b DEF JobsInv, TypeOK, NotesSound, ToldSound
<1>4. EvidenceSound'
  <2>1. j \in wrote => Kept(j)
    BY <1>a DEF JobsInv, EvidenceSound, Unwinding
  <2>2. \A k \in wrote : Unwinding(k)' => Unwinding(k)
    BY <1>a, <1>b DEF JobsInv, TypeOK, Unwinding
  <2>3. \A k \in wrote : Unwinding(k)' \/ (gor'[k] = "closed" /\ k \in table
                                            /\ status[k] # "Interrupted") => Kept(k)
    BY <1>a, <1>b, <2>2 DEF JobsInv, TypeOK, EvidenceSound
  <2>4. \A k \in wrote : meta'[k].status \in {"Done", "Failed", "Killed"}
                         => k \in reviewed \/ meta'[k].evidence
    BY <1>a, <1>b, <2>1 DEF JobsInv, TypeOK, EvidenceSound, Kept
  <2>5. \A k \in Jobs : gor'[k] \in {"running", "returned"} => meta'[k].status = "Running"
    BY <1>a, <1>b DEF JobsInv, EvidenceSound
  <2>6. \A k \in committed \cup leases : gor'[k] = "closed"
    BY <1>a, <1>b DEF JobsInv, TypeOK, EvidenceSound
  <2>7. \A k \in wrote : Kept(k)' <=> Kept(k)
    BY <1>a DEF Kept
  <2>8. \A k \in Jobs : gor'[k] = "none" => meta'[k].status = "none"
    BY <1>a, <1>b DEF JobsInv, EvidenceSound
  <2> QED
    BY <1>a, <2>3, <2>4, <2>5, <2>6, <2>7, <2>8 DEF JobsInv, EvidenceSound
<1> QED
  BY <1>1, <1>2, <1>3, <1>4 DEF JobsInv

\* The completion is recorded and its note queued, before the status.
LEMMA RecordCompletionInv ==
  ASSUME JobsInv, SchedulerTypeOK', NEW j \in Jobs, RecordCompletion(j)
  PROVE  JobsInv'
<1>1. TypeOK'
  BY DEF JobsInv, TypeOK, RecordCompletion, Queue, Goto, records, receipts, ledger, notices, manager, Terminal
<1>2. JobsKnown'
  BY DEF JobsInv, TypeOK, JobsKnown, Early, RecordCompletion, Queue, Goto, records, receipts, ledger, notices, manager
<1>3. NotesSound'
  BY DEF JobsInv, TypeOK, JobsKnown, Early, NotesSound, RecordCompletion, Queue, Goto, records, receipts, ledger, notices, manager
<1>4. ToldSound'
  BY DEF JobsInv, TypeOK, JobsKnown, ToldSound, RecordCompletion, Queue, Goto, records, receipts, ledger, notices, manager
<1>5. EvidenceSound'
  BY DEF JobsInv, TypeOK, JobsKnown, EvidenceSound, Kept, Unwinding, RecordCompletion, Queue, Goto, records, receipts, ledger, notices, manager
<1> QED
  BY <1>1, <1>2, <1>3, <1>4, <1>5 DEF JobsInv

\* The terminal status becomes visible.
LEMMA PublishStatusInv ==
  ASSUME JobsInv, SchedulerTypeOK', NEW j \in Jobs, PublishStatus(j)
  PROVE  JobsInv'
<1>1. TypeOK'
  BY DEF JobsInv, TypeOK, PublishStatus, Goto, records, receipts, ledger, notices, manager, Terminal
<1>2. JobsKnown'
  BY DEF JobsInv, TypeOK, JobsKnown, Early, PublishStatus, Goto, records, receipts, ledger, notices, manager
<1>3. NotesSound'
  BY DEF JobsInv, TypeOK, JobsKnown, NotesSound, PublishStatus, Goto, records, receipts, ledger, notices, manager
<1>4. ToldSound'
  BY DEF JobsInv, TypeOK, JobsKnown, ToldSound, PublishStatus, Goto, records, receipts, ledger, notices, manager
<1>5. EvidenceSound'
  BY DEF JobsInv, TypeOK, JobsKnown, EvidenceSound, Kept, Unwinding, PublishStatus, Goto, records, receipts, ledger, notices, manager
<1> QED
  BY <1>1, <1>2, <1>3, <1>4, <1>5 DEF JobsInv

\* The done channel is closed, the last step of the goroutine.
LEMMA CloseDoneInv ==
  ASSUME JobsInv, SchedulerTypeOK', NEW j \in Jobs, CloseDone(j)
  PROVE  JobsInv'
<1>1. TypeOK'
  BY DEF JobsInv, TypeOK, CloseDone, Goto, records, receipts, ledger, notices, manager, Terminal
<1>2. JobsKnown'
  BY DEF JobsInv, TypeOK, JobsKnown, Early, CloseDone, Goto, records, receipts, ledger, notices, manager
<1>3. NotesSound'
  BY DEF JobsInv, TypeOK, JobsKnown, NotesSound, CloseDone, Goto, records, receipts, ledger, notices, manager
<1>4. ToldSound'
  BY DEF JobsInv, TypeOK, JobsKnown, ToldSound, CloseDone, Goto, records, receipts, ledger, notices, manager
<1>5. EvidenceSound'
  BY DEF JobsInv, TypeOK, JobsKnown, EvidenceSound, Kept, Unwinding, CloseDone, Goto, records, receipts, ledger, notices, manager
<1> QED
  BY <1>1, <1>2, <1>3, <1>4, <1>5 DEF JobsInv

\* A kill changes the status and ends the context; the goroutine goes on.
LEMMA KillInv ==
  ASSUME JobsInv, SchedulerTypeOK', NEW j \in Jobs, Kill(j)
  PROVE  JobsInv'
<1>1. TypeOK'
  BY DEF JobsInv, TypeOK, Kill, records, receipts, ledger, notices, manager, Terminal
<1>2. JobsKnown'
  BY DEF JobsInv, TypeOK, JobsKnown, Early, Kill, records, receipts, ledger, notices, manager
<1>3. NotesSound'
  BY DEF JobsInv, TypeOK, JobsKnown, NotesSound, Kill, records, receipts, ledger, notices, manager
<1>4. ToldSound'
  BY DEF JobsInv, TypeOK, JobsKnown, ToldSound, Kill, records, receipts, ledger, notices, manager
<1>5. EvidenceSound'
  BY DEF JobsInv, TypeOK, JobsKnown, EvidenceSound, Kept, Unwinding, Kill, records, receipts, ledger, notices, manager
<1> QED
  BY <1>1, <1>2, <1>3, <1>4, <1>5 DEF JobsInv

\* A turn starts with the evidence that waits leased to it.
LEMMA StartTurnInv ==
  ASSUME JobsInv, SchedulerTypeOK', StartTurn
  PROVE  JobsInv'
<1>1. TypeOK'
  BY DEF JobsInv, TypeOK, StartTurn, Pending, Mine, records, receipts, ledger, notices, manager, Terminal
<1>2. JobsKnown'
  BY DEF JobsInv, TypeOK, JobsKnown, Early, StartTurn, Pending, Mine, records, receipts, ledger, notices, manager
<1>3. NotesSound'
  BY DEF JobsInv, TypeOK, JobsKnown, NotesSound, StartTurn, Pending, Mine, records, receipts, ledger, notices, manager
<1>4. ToldSound'
  BY DEF JobsInv, TypeOK, JobsKnown, ToldSound, StartTurn, Pending, Mine, records, receipts, ledger, notices, manager
<1>5. EvidenceSound'
  BY DEF JobsInv, TypeOK, JobsKnown, EvidenceSound, Kept, Unwinding, StartTurn, Pending, Mine, records, receipts, ledger, notices, manager
<1> QED
  BY <1>1, <1>2, <1>3, <1>4, <1>5 DEF JobsInv

\* A turn leases the evidence of a job that has exited.
LEMMA CollectInv ==
  ASSUME JobsInv, SchedulerTypeOK', NEW j \in Jobs, Collect(j)
  PROVE  JobsInv'
<1>1. TypeOK'
  BY DEF JobsInv, TypeOK, Collect, Mine, records, receipts, ledger, notices, manager, Terminal
<1>2. JobsKnown'
  BY DEF JobsInv, TypeOK, JobsKnown, Early, Collect, Mine, records, receipts, ledger, notices, manager
<1>3. NotesSound'
  BY DEF JobsInv, TypeOK, JobsKnown, NotesSound, Collect, Mine, records, receipts, ledger, notices, manager
<1>4. ToldSound'
  BY DEF JobsInv, TypeOK, JobsKnown, ToldSound, Collect, Mine, records, receipts, ledger, notices, manager
<1>5. EvidenceSound'
  BY DEF JobsInv, TypeOK, JobsKnown, EvidenceSound, Kept, Unwinding, Collect, Mine, records, receipts, ledger, notices, manager
<1> QED
  BY <1>1, <1>2, <1>3, <1>4, <1>5 DEF JobsInv

\* A failed turn drops its leases and commits nothing.
LEMMA FailTurnInv ==
  ASSUME JobsInv, SchedulerTypeOK', FailTurn
  PROVE  JobsInv'
<1>1. TypeOK'
  BY DEF JobsInv, TypeOK, FailTurn, EndTurn, records, receipts, ledger, notices, manager, Terminal
<1>2. JobsKnown'
  BY DEF JobsInv, TypeOK, JobsKnown, Early, FailTurn, EndTurn, records, receipts, ledger, notices, manager
<1>3. NotesSound'
  BY DEF JobsInv, TypeOK, JobsKnown, NotesSound, FailTurn, EndTurn, records, receipts, ledger, notices, manager
<1>4. ToldSound'
  BY DEF JobsInv, TypeOK, JobsKnown, ToldSound, FailTurn, EndTurn, records, receipts, ledger, notices, manager
<1>5. EvidenceSound'
  BY DEF JobsInv, TypeOK, JobsKnown, EvidenceSound, Kept, Unwinding, FailTurn, EndTurn, records, receipts, ledger, notices, manager
<1> QED
  BY <1>1, <1>2, <1>3, <1>4, <1>5 DEF JobsInv

\* A delivered turn has reviewed what it leased.
LEMMA DeliverInv ==
  ASSUME JobsInv, SchedulerTypeOK', Deliver
  PROVE  JobsInv'
<1>1. TypeOK'
  <2> DEFINE R == [status : Terminal \cup {"none", "Running"}, evidence : BOOLEAN]
  <2>1. \A j \in Jobs : [status |-> status[j], evidence |-> FALSE] \in R /\ meta[j] \in R
    BY DEF JobsInv, TypeOK
  <2>2. PICK rewritten : meta' = [j \in Jobs |->
            IF j \in rewritten THEN [status |-> status[j], evidence |-> FALSE] ELSE meta[j]]
    BY DEF Deliver
  <2>3. meta' \in [Jobs -> R]
    BY <2>1, <2>2
  <2> QED
    BY <2>3 DEF JobsInv, TypeOK, Deliver, EndTurn, Mine, records, notices, manager
<1>2. JobsKnown'
  BY DEF JobsInv, TypeOK, JobsKnown, Early, Deliver, EndTurn, Mine, records, receipts, ledger, notices, manager
<1>3. NotesSound'
  BY DEF JobsInv, TypeOK, JobsKnown, NotesSound, Deliver, EndTurn, Mine, records, receipts, ledger, notices, manager
<1>4. ToldSound'
  BY DEF JobsInv, TypeOK, JobsKnown, ToldSound, Deliver, EndTurn, Mine, records, receipts, ledger, notices, manager
<1>5. EvidenceSound'
  BY DEF JobsInv, TypeOK, JobsKnown, EvidenceSound, Kept, Unwinding, Deliver, EndTurn, Mine, records, receipts, ledger, notices, manager
<1> QED
  BY <1>1, <1>2, <1>3, <1>4, <1>5 DEF JobsInv

\* Another session becomes the active one.
LEMMA SwitchSessionInv ==
  ASSUME JobsInv, SchedulerTypeOK', NEW s \in Sessions, SwitchSession(s)
  PROVE  JobsInv'
<1>1. TypeOK'
  BY DEF JobsInv, TypeOK, SwitchSession, records, receipts, ledger, notices, manager, Terminal
<1>2. JobsKnown'
  BY DEF JobsInv, TypeOK, JobsKnown, Early, SwitchSession, records, receipts, ledger, notices, manager
<1>3. NotesSound'
  BY DEF JobsInv, TypeOK, JobsKnown, NotesSound, SwitchSession, records, receipts, ledger, notices, manager
<1>4. ToldSound'
  BY DEF JobsInv, TypeOK, JobsKnown, ToldSound, SwitchSession, records, receipts, ledger, notices, manager
<1>5. EvidenceSound'
  BY DEF JobsInv, TypeOK, JobsKnown, EvidenceSound, Kept, Unwinding, SwitchSession, records, receipts, ledger, notices, manager
<1> QED
  BY <1>1, <1>2, <1>3, <1>4, <1>5 DEF JobsInv

\* A session being destroyed kills its jobs.
LEMMA BeginDestroyInv ==
  ASSUME JobsInv, SchedulerTypeOK', NEW s \in Sessions, BeginDestroySession(s)
  PROVE  JobsInv'
<1>1. TypeOK'
  BY DEF JobsInv, TypeOK, BeginDestroySession, Killing, Running, Mine, records, receipts, ledger, notices, manager, Terminal
<1>2. JobsKnown'
  BY DEF JobsInv, TypeOK, JobsKnown, Early, BeginDestroySession, Killing, Running, Mine, records, receipts, ledger, notices, manager
<1>3. NotesSound'
  BY DEF JobsInv, TypeOK, JobsKnown, NotesSound, BeginDestroySession, Killing, Running, Mine, records, receipts, ledger, notices, manager
<1>4. ToldSound'
  BY DEF JobsInv, TypeOK, JobsKnown, ToldSound, BeginDestroySession, Killing, Running, Mine, records, receipts, ledger, notices, manager
<1>5. EvidenceSound'
  BY DEF JobsInv, TypeOK, JobsKnown, EvidenceSound, Kept, Unwinding, BeginDestroySession, Killing, Running, Mine, records, receipts, ledger, notices, manager
<1> QED
  BY <1>1, <1>2, <1>3, <1>4, <1>5 DEF JobsInv

\* Its jobs leave the table with it.
LEMMA FinishDestroyInv ==
  ASSUME JobsInv, SchedulerTypeOK', NEW s \in Sessions, FinishDestroySession(s)
  PROVE  JobsInv'
<1>1. TypeOK'
  BY DEF JobsInv, TypeOK, FinishDestroySession, Of, records, receipts, ledger, notices, manager, Terminal
<1>2. JobsKnown'
  BY DEF JobsInv, TypeOK, JobsKnown, Early, FinishDestroySession, Of, records, receipts, ledger, notices, manager
<1>3. NotesSound'
  BY DEF JobsInv, TypeOK, JobsKnown, NotesSound, FinishDestroySession, Of, records, receipts, ledger, notices, manager
<1>4. ToldSound'
  BY DEF JobsInv, TypeOK, JobsKnown, ToldSound, FinishDestroySession, Of, records, receipts, ledger, notices, manager
<1>5. EvidenceSound'
  BY DEF JobsInv, TypeOK, JobsKnown, EvidenceSound, Kept, Unwinding, FinishDestroySession, Of, records, receipts, ledger, notices, manager
<1> QED
  BY <1>1, <1>2, <1>3, <1>4, <1>5 DEF JobsInv

\* Closing ends every context.
LEMMA CloseInv ==
  ASSUME JobsInv, SchedulerTypeOK', Close
  PROVE  JobsInv'
<1>1. TypeOK'
  BY DEF JobsInv, TypeOK, Close, Running, records, receipts, ledger, notices, manager, Terminal
<1>2. JobsKnown'
  BY DEF JobsInv, TypeOK, JobsKnown, Early, Close, Running, records, receipts, ledger, notices, manager
<1>3. NotesSound'
  BY DEF JobsInv, TypeOK, JobsKnown, NotesSound, Close, Running, records, receipts, ledger, notices, manager
<1>4. ToldSound'
  BY DEF JobsInv, TypeOK, JobsKnown, ToldSound, Close, Running, records, receipts, ledger, notices, manager
<1>5. EvidenceSound'
  BY DEF JobsInv, TypeOK, JobsKnown, EvidenceSound, Kept, Unwinding, Close, Running, records, receipts, ledger, notices, manager
<1> QED
  BY <1>1, <1>2, <1>3, <1>4, <1>5 DEF JobsInv

\* A restart forgets everything that is not on disk.
LEMMA RestartInv ==
  ASSUME JobsInv, SchedulerTypeOK', Restart
  PROVE  JobsInv'
<1>0. PICK left \in SUBSET {s \in Sessions : open[s] = "destroying"} :
        LET Left == {s \in Sessions : open[s] = "open"} \cup left
            Known == {j \in Jobs : meta[j].status # "none" /\ session[j] \in Left}
        IN /\ table' = Known
           /\ evidence' = {j \in Known : meta[j].evidence}
           /\ open' = [s \in Sessions |-> IF s \in Left THEN "open" ELSE "gone"]
  BY DEF Restart
<1>a. /\ gor' = [j \in Jobs |-> IF gor[j] = "none" THEN "none" ELSE "closed"]
      /\ meta' = [j \in Jobs |-> IF meta[j].status = "Running"
                                 THEN [meta[j] EXCEPT !.status = "Interrupted"] ELSE meta[j]]
      /\ status' = [j \in Jobs |-> meta'[j].status]
      /\ restarts < MaxRestarts /\ restarts' = restarts + 1
      /\ committed' = {} /\ notes' = {} /\ leases' = {} /\ merged' = {}
      /\ turn' = FALSE /\ closed' = FALSE /\ outcome' = [j \in Jobs |-> "none"]
      /\ UNCHANGED <<session, wrote, reviewed, told, active>>
  BY DEF Restart
<1> DEFINE R == [status : Terminal \cup {"none", "Running"}, evidence : BOOLEAN]
<1>b. \A j \in Jobs :
        /\ meta[j] \in R /\ meta'[j] \in R
        /\ meta'[j].evidence = meta[j].evidence
        /\ meta'[j].status = IF meta[j].status = "Running" THEN "Interrupted" ELSE meta[j].status
  <2> SUFFICES ASSUME NEW j \in Jobs
               PROVE  /\ meta[j] \in R /\ meta'[j] \in R
                      /\ meta'[j].evidence = meta[j].evidence
                      /\ meta'[j].status = IF meta[j].status = "Running" THEN "Interrupted"
                                          ELSE meta[j].status
    OBVIOUS
  <2>1. meta[j] \in R
    BY DEF JobsInv, TypeOK
  <2>2. meta'[j] = IF meta[j].status = "Running" THEN [meta[j] EXCEPT !.status = "Interrupted"]
                   ELSE meta[j]
    BY <1>a
  <2> QED
    BY <2>1, <2>2 DEF Terminal
<1>c. \A j \in table' : j \in Jobs /\ meta[j].status # "none" /\ open'[session[j]] = "open"
  BY <1>0 DEF JobsInv, TypeOK
<1>d. \A j \in Jobs : gor[j] = "none" => meta[j].status = "none"
  BY DEF JobsInv, EvidenceSound
<1>1. TypeOK'
  <2>1. status' \in [Jobs -> Terminal \cup {"none", "Running"}] /\ meta' \in [Jobs -> R]
    BY <1>a, <1>b
  <2>2. gor' \in [Jobs -> {"none", "running", "returned", "settled", "recorded", "published",
                           "closed"}]
    BY <1>a
  <2>3. restarts' \in 0..MaxRestarts
    BY <1>a, JobsAssumption DEF JobsInv, TypeOK
  <2> QED
    BY <1>0, <1>a, <2>1, <2>2, <2>3 DEF JobsInv, TypeOK
<1>2. JobsKnown'
  <2>1. \A j \in Jobs : gor'[j] \in {"none", "closed"}
    BY <1>a
  <2>2. \A j \in table' : gor'[j] = "closed"
    BY <1>a, <1>c, <1>d
  <2>3. open'[active] = "open"
    BY <1>0 DEF JobsInv, TypeOK, JobsKnown
  <2> QED
    BY <1>a, <1>c, <2>1, <2>2, <2>3 DEF JobsKnown, Early
<1>3. NotesSound' /\ ToldSound'
  BY <1>a DEF NotesSound, ToldSound, JobsInv, TypeOK
<1>4. EvidenceSound'
  <2>1. \A j \in wrote : j \in Jobs
    BY DEF JobsInv, TypeOK
  <2>2. ASSUME NEW j \in wrote, j \in table', status'[j] # "Interrupted" PROVE Kept(j)'
    <3>1. status'[j] = meta'[j].status /\ status'[j] \in Terminal \cup {"none", "Running"}
      BY <1>a, <1>b, <2>1
    <3>2. meta[j].status \in {"Done", "Failed", "Killed"}
      BY <1>b, <1>c, <2>1, <2>2, <3>1 DEF Terminal
    <3>3. j \in reviewed \/ meta[j].evidence
      BY <3>2 DEF JobsInv, EvidenceSound
    <3> QED
      BY <1>0, <1>a, <1>c, <2>2, <3>3 DEF Kept
  <2>3. \A j \in wrote : ~Unwinding(j)'
    BY <1>a, <2>1 DEF Unwinding
  <2>4. \A j \in wrote : meta'[j].status \in {"Done", "Failed", "Killed"}
                         => j \in reviewed' \/ meta'[j].evidence
    BY <1>a, <1>b, <2>1 DEF JobsInv, EvidenceSound
  <2>5. \A j \in Jobs : gor'[j] = "none" => meta'[j].status = "none"
    BY <1>a, <1>b, <1>d
  <2>6. \A j \in Jobs : gor'[j] \notin {"running", "returned"}
    BY <1>a
  <2> QED
    BY <1>a, <2>1, <2>2, <2>3, <2>4, <2>5, <2>6 DEF EvidenceSound
<1> QED
  BY <1>1, <1>2, <1>3, <1>4 DEF JobsInv

-----------------------------------------------------------------------------
(* The theorems *)

\* Every step keeps the invariant of the jobs.
LEMMA NextJobs == JobsInv /\ SchedulerTypeOK' /\ [Next]_vars => JobsInv'
<1> SUFFICES ASSUME JobsInv, SchedulerTypeOK', [Next]_vars PROVE JobsInv'
  OBVIOUS
<1>1. CASE \E j \in Jobs : Goroutine(j) \/ Work(j) \/ Kill(j)
  BY <1>1, JobsSame, WorkInv, PublishEvidenceInv, SettleInv, RecordCompletionInv, PublishStatusInv,
     CloseDoneInv, KillInv DEF Goroutine, AcquireSlot
<1>2. CASE Turn
  BY <1>2, StartTurnInv, StartForSessionInv, CollectInv, DeliverInv, FailTurnInv DEF Turn
<1>3. CASE \E s \in Sessions : SwitchSession(s) \/ BeginDestroySession(s) \/ FinishDestroySession(s)
  BY <1>3, SwitchSessionInv, BeginDestroyInv, FinishDestroyInv
<1>4. CASE Close \/ Restart
  BY <1>4, CloseInv, RestartInv
<1>5. CASE UNCHANGED vars
  BY <1>5, JobsSame DEF vars, jobVars
<1>6. CASE UNCHANGED jobVars
  BY <1>6, JobsSame
<1> QED
  BY <1>1, <1>2, <1>3, <1>4, <1>5, <1>6 DEF Next, Delegate, Write

\* Both invariants hold throughout.
LEMMA JobsInvariance == Spec => [](SchedulerInv /\ JobsInv)
<1>1. Init => SchedulerInv /\ JobsInv
  BY InitInv, InitJobs DEF Init
<1>2. SchedulerInv /\ JobsInv /\ [Next]_vars => (SchedulerInv /\ JobsInv)'
  <2> SUFFICES ASSUME SchedulerInv, JobsInv, [Next]_vars PROVE SchedulerInv' /\ JobsInv'
    OBVIOUS
  <2>1. SchedulerInv'
    BY NextScheduler DEF JobsInv
  <2>2. SchedulerTypeOK'
    BY <2>1 DEF SchedulerInv
  <2> QED
    BY <2>1, <2>2, NextJobs
<1> QED
  BY <1>1, <1>2, PTL DEF Spec

\* Every variable has its type.
THEOREM JobsTypeCorrect == Spec => []TypeOK
  BY JobsInvariance, PTL DEF JobsInv

\* What a background task changed is reviewed by a delivered turn or still
\* waits to be, through failed turns, kills and restarts.
THEOREM NoEvidenceLost == Spec => []EvidenceKept
  BY JobsInvariance, InvImplies, PTL

\* Whoever sees a job done or failed finds that its note was queued before.
THEOREM NotedBeforeTerminal == Spec => []TerminalImpliesNoted
  BY JobsInvariance, InvImplies, PTL

\* A destroyed session leaves no notes behind, whenever its jobs unwind.
THEOREM NoNoteSurvivesItsJob == Spec => []NotesHaveJobs
  BY JobsInvariance, InvImplies, PTL

\* With jobs, turns, teardown and restarts around it, the pool still counts every
\* slot, keeps claims apart and leaves nobody waiting for what is free.
THEOREM PoolSoundInside == Spec => [](SlotsAccounted /\ ClaimsDisjoint /\ NoLostWakeup)
  BY JobsInvariance, NobodyForgotten, PTL DEF SchedulerInv
=============================================================================
