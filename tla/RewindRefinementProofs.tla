------------------------ MODULE RewindRefinementProofs ------------------------
(***************************************************************************)
(* What the invariants of RewindTransactionProofs come to in orderly       *)
(* histories: the checkpoints are those of the conversation, one fault     *)
(* never strands a manifest, and the journalled transaction implements the *)
(* atomic rewind of AtomicRewind.                                          *)
(***************************************************************************)
EXTENDS RewindTransactionProofs, RewindRefinement

-----------------------------------------------------------------------------
(* Orderly histories: which checkpoints are listed *)

Below(cs, t) == {c \in cs : c.turn < t}
Above(cs, t) == {c \in cs : c.turn >= t}

\* The boundaries of cs cut talk where their turns began, each message of talk
\* has the checkpoint of its turn, and the checkpoints are numbered as they began.
Dated(cs, talk) ==
  \A c \in cs : /\ c.boundary <= Len(talk)
                /\ \A i \in DOMAIN talk : i > c.boundary <=> talk[i] >= c.began
Covered(cs, talk) == \A i \in DOMAIN talk : \E c \in cs : c.began = talk[i]
InOrder(cs) == \A c, d \in cs : c.turn < d.turn <=> c.began < d.began
Tells(cs, talk) == Dated(cs, talk) /\ Covered(cs, talk) /\ InOrder(cs)

\* What was saved is among the files.
Filed(cs, files) == \A c \in cs : c.saved => c \in files

\* A manifest that truncates the conversation has saved the checkpoints it drops:
\* those of its turn and of every message that goes with it.
Sound(m) ==
  IF WantsConversation(m.scope)
  THEN /\ \A c \in m.backup : c.turn >= m.turn
       /\ \E c \in m.backup : c.turn = m.turn /\ c.boundary = m.boundary
       /\ Dated(m.backup, m.forward) /\ InOrder(m.backup)
       /\ \A i \in DOMAIN m.forward :
            i > m.boundary => \E c \in m.backup : c.began = m.forward[i]
  ELSE m.backup = {}
BackupsSound == \A n \in DOMAIN txs : txs[n].state # "aborted" => Sound(txs[n])

\* Unless a manifest that is committing rewrites them, the checkpoints are those of
\* the conversation; otherwise they are when its backup is listed again.
Rewriting(n) == Unsettled(n) /\ WantsConversation(txs[n].scope)
Active(n) ==
  WantsConversation(txs[n].scope) /\ (Unsettled(n) \/ (pc \in InFlight /\ n = cur))
Whole == Tells(ckpt, conv) /\ Filed(ckpt, ckptDisk)
Parted(m) ==
  /\ Tells(Below(ckpt, m.turn) \cup m.backup, m.forward)
  /\ Above(ckpt, m.turn) \subseteq m.backup
  /\ Filed(Below(ckpt, m.turn), ckptDisk)
Listed ==
  /\ (\A n \in DOMAIN txs : ~Rewriting(n)) => Whole
  /\ \A n \in DOMAIN txs : Active(n) => Parted(txs[n])

\* At its own turn and after, the manifest in hand has all of its backup listed, or
\* none of it, as the step counts on.
FromHere(m, backedUp) ==
  Above(ckpt, m.turn) = (IF backedUp THEN m.backup ELSE {}) /\ Filed(ckpt, ckptDisk)
ListedInHand ==
  /\ pc \in Forward \ {"finalize"} /\ WantsConversation(M.scope) => FromHere(M, M.kind = "rewind")
  /\ pc = "finalize" /\ WantsConversation(M.scope) => FromHere(M, M.kind = "undo")
  /\ pc \in {"comp", "compMove", "verdict"} /\ WantsConversation(M.scope) =>
       FromHere(M, M.kind = "rewind") \/ (stateErr /\ txs[cur].state = "committing")

\* A rewind that stands dropped checkpoints that come after all that are listed, as
\* long as no turn has begun since, and after all that later rewinds dropped.
Beneath(c, m) == \A d \in m.backup : c.turn < d.turn /\ c.began < d.began
Stacked ==
  \A i \in UndoCandidates :
    /\ txs[i].when = turns => \A c \in ckpt :
         Beneath(c, txs[i]) \/ \E n \in DOMAIN txs : Rewriting(n) /\ c \in txs[n].backup
    /\ \A j \in UndoCandidates : i < j /\ txs[i].when = txs[j].when =>
         \A c \in txs[j].backup : Beneath(c, txs[i])
    /\ txs[i].when = turns => \A n \in DOMAIN txs :
         Active(n) /\ ~(txs[n].kind = "undo" /\ txs[n].parent = i) =>
           \A c \in txs[n].backup : Beneath(c, txs[i])

KInv == orderly => BackupsSound /\ Listed /\ ListedInHand /\ Stacked

\* Where the conversation ends that a manifest leaves, and what its turn found.
LEMMA RewoundFacts ==
  ASSUME NEW m \in Manifest, Sound(m), WantsConversation(m.scope)
  PROVE  /\ m.turn \in Nat /\ m.boundary \in Nat /\ m.backup \in SUBSET Checkpoint
         /\ m.forward \in Seq(Nat) /\ Len(m.forward) \in Nat /\ m.boundary <= Len(m.forward)
         /\ DOMAIN m.forward = 1..Len(m.forward) /\ \A i \in DOMAIN m.forward : m.forward[i] \in Nat
         /\ Rewound(m) = Upto(m.forward, m.boundary)
         /\ Len(Rewound(m)) = m.boundary /\ DOMAIN Rewound(m) = 1..m.boundary
         /\ \A i \in 1..m.boundary : Rewound(m)[i] = m.forward[i]
         /\ \E o \in m.backup : /\ o.turn = m.turn /\ o.boundary = m.boundary
                                /\ \A i \in DOMAIN m.forward :
                                     i > m.boundary <=> m.forward[i] >= o.began
<1>1. /\ m.forward \in Seq(Nat) /\ m.boundary \in Nat /\ m.turn \in Nat
      /\ m.backup \in SUBSET Checkpoint
  BY DEF Manifest
<1>2. /\ Len(m.forward) \in Nat /\ DOMAIN m.forward = 1..Len(m.forward)
      /\ \A i \in DOMAIN m.forward : m.forward[i] \in Nat
  BY <1>1, LenProperties, ElementOfSeq
<1>3. PICK o \in m.backup : o.turn = m.turn /\ o.boundary = m.boundary
  BY DEF Sound
<1>4. /\ m.boundary <= Len(m.forward)
      /\ \A i \in DOMAIN m.forward : i > m.boundary <=> m.forward[i] >= o.began
  BY <1>3 DEF Sound, Dated
<1>5. Upto(m.forward, m.boundary) = [i \in 1..m.boundary |-> m.forward[i]]
  BY <1>1 DEF Upto
<1>6. Upto(m.forward, m.boundary) \in Seq(Nat)
  BY <1>1, <1>2, <1>4, SubSeqProperties DEF Upto
<1>7. Len(Upto(m.forward, m.boundary)) = m.boundary
  BY <1>1, <1>5, <1>6, LenProperties
<1> QED
  BY <1>1, <1>2, <1>3, <1>4, <1>5, <1>7 DEF Rewound

\* Without its backup, the earlier checkpoints are those of the conversation that a
\* manifest leaves.
LEMMA TellsRewound ==
  ASSUME NEW m \in Manifest, Sound(m), WantsConversation(m.scope),
         NEW cs \in SUBSET Checkpoint, \A c \in cs : c.turn < m.turn,
         Tells(cs \cup m.backup, m.forward)
  PROVE  Tells(cs, Rewound(m))
<1>1. /\ m.turn \in Nat /\ m.boundary \in Nat /\ m.backup \in SUBSET Checkpoint
      /\ Len(m.forward) \in Nat /\ m.boundary <= Len(m.forward)
      /\ DOMAIN m.forward = 1..Len(m.forward) /\ \A i \in DOMAIN m.forward : m.forward[i] \in Nat
      /\ Len(Rewound(m)) = m.boundary /\ DOMAIN Rewound(m) = 1..m.boundary
      /\ \A i \in 1..m.boundary : Rewound(m)[i] = m.forward[i]
  BY RewoundFacts
<1>2. PICK o \in m.backup : /\ o.turn = m.turn /\ o.boundary = m.boundary
                            /\ \A i \in DOMAIN m.forward :
                                 i > m.boundary <=> m.forward[i] >= o.began
  BY RewoundFacts
<1>3. /\ \A c \in cs \cup m.backup : c.turn \in Nat /\ c.began \in Nat /\ c.boundary \in Nat
      /\ \A c \in m.backup : c.turn >= m.turn
  BY <1>1 DEF Checkpoint, Sound
<1>4. \A c \in cs : c.began < o.began
  BY <1>2, <1>3 DEF Tells, InOrder
<1>5. Dated(cs, Rewound(m))
  <2> SUFFICES ASSUME NEW c \in cs
               PROVE  /\ c.boundary <= m.boundary
                      /\ \A i \in 1..m.boundary : i > c.boundary <=> m.forward[i] >= c.began
    BY <1>1 DEF Dated
  <2>1. /\ c.boundary <= Len(m.forward) /\ c.boundary \in Nat /\ c.began \in Nat /\ c.began < o.began
        /\ \A i \in 1..Len(m.forward) : i > c.boundary <=> m.forward[i] >= c.began
    BY <1>1, <1>3, <1>4 DEF Tells, Dated
  <2>2. ASSUME c.boundary > m.boundary PROVE FALSE
    <3>1. m.boundary + 1 \in 1..Len(m.forward) /\ m.boundary + 1 > m.boundary
      BY <1>1, <2>1, <2>2
    <3>2. m.forward[m.boundary + 1] >= o.began /\ m.forward[m.boundary + 1] \in Nat
      BY <1>1, <1>2, <3>1
    <3>3. m.forward[m.boundary + 1] >= c.began
      BY <1>2, <1>3, <2>1, <3>2
    <3>4. m.boundary + 1 > c.boundary
      BY <2>1, <3>1, <3>3
    <3> QED
      BY <1>1, <2>1, <2>2, <3>4
  <2>3. 1..m.boundary \subseteq 1..Len(m.forward)
    BY <1>1
  <2> QED
    BY <1>1, <2>1, <2>2, <2>3
<1>6. Covered(cs, Rewound(m))
  <2> SUFFICES ASSUME NEW i \in 1..m.boundary PROVE \E c \in cs : c.began = m.forward[i]
    BY <1>1 DEF Covered
  <2>1. i \in DOMAIN m.forward /\ m.forward[i] \in Nat /\ m.forward[i] < o.began
    BY <1>1, <1>2, <1>3
  <2>2. PICK c \in cs \cup m.backup : c.began = m.forward[i]
    BY <2>1 DEF Tells, Covered
  <2>3. c.turn < o.turn
    BY <2>1, <2>2 DEF Tells, InOrder
  <2> QED
    BY <1>1, <1>2, <1>3, <2>2, <2>3
<1>7. InOrder(cs)
  BY DEF Tells, InOrder
<1> QED
  BY <1>5, <1>6, <1>7 DEF Tells

\* ... and with it those of the conversation that an undo puts back.
LEMMA TellsForward ==
  ASSUME NEW m \in Manifest, Sound(m), WantsConversation(m.scope),
         NEW cs \in SUBSET Checkpoint, \A c \in cs : Beneath(c, m),
         Tells(cs, Rewound(m))
  PROVE  Tells(cs \cup m.backup, m.forward)
<1>1. /\ m.turn \in Nat /\ m.boundary \in Nat /\ m.backup \in SUBSET Checkpoint
      /\ Len(m.forward) \in Nat /\ m.boundary <= Len(m.forward)
      /\ DOMAIN m.forward = 1..Len(m.forward) /\ \A i \in DOMAIN m.forward : m.forward[i] \in Nat
      /\ Len(Rewound(m)) = m.boundary /\ DOMAIN Rewound(m) = 1..m.boundary
      /\ \A i \in 1..m.boundary : Rewound(m)[i] = m.forward[i]
  BY RewoundFacts
<1>2. PICK o \in m.backup : /\ o.turn = m.turn /\ o.boundary = m.boundary
                            /\ \A i \in DOMAIN m.forward :
                                 i > m.boundary <=> m.forward[i] >= o.began
  BY RewoundFacts
<1>3. \A c \in cs \cup m.backup : c.turn \in Nat /\ c.began \in Nat /\ c.boundary \in Nat
  BY <1>1 DEF Checkpoint
<1>4. Dated(m.backup, m.forward) /\ InOrder(m.backup)
  BY DEF Sound
<1>5. Dated(cs, m.forward)
  <2> SUFFICES ASSUME NEW c \in cs
               PROVE  /\ c.boundary <= Len(m.forward)
                      /\ \A i \in 1..Len(m.forward) : i > c.boundary <=> m.forward[i] >= c.began
    BY <1>1 DEF Dated
  <2>1. /\ c.boundary <= m.boundary /\ c.began < o.began /\ c.boundary \in Nat /\ c.began \in Nat
        /\ \A i \in 1..m.boundary : i > c.boundary <=> m.forward[i] >= c.began
    BY <1>1, <1>2, <1>3 DEF Tells, Dated, Beneath
  <2>2. ASSUME NEW i \in 1..Len(m.forward), i > m.boundary
        PROVE  i > c.boundary /\ m.forward[i] >= c.began
    <3>1. m.forward[i] >= o.began /\ m.forward[i] \in Nat /\ o.began \in Nat
      BY <1>1, <1>2, <1>3, <2>2
    <3> QED
      BY <1>1, <2>1, <2>2, <3>1
  <2>3. \A i \in 1..Len(m.forward) : i \in 1..m.boundary \/ i > m.boundary
    BY <1>1
  <2> QED
    BY <1>1, <2>1, <2>2, <2>3
<1>6. Dated(cs \cup m.backup, m.forward)
  BY <1>4, <1>5 DEF Dated
<1>7. Covered(cs \cup m.backup, m.forward)
  <2> SUFFICES ASSUME NEW i \in 1..Len(m.forward)
               PROVE  \E c \in cs \cup m.backup : c.began = m.forward[i]
    BY <1>1 DEF Covered
  <2>1. CASE i \in 1..m.boundary
    BY <1>1, <2>1 DEF Tells, Covered
  <2>2. CASE i > m.boundary
    BY <1>1, <2>2 DEF Sound
  <2> QED
    BY <1>1, <2>1, <2>2
<1>8. InOrder(cs \cup m.backup)
  <2> SUFFICES ASSUME NEW c \in cs \cup m.backup, NEW d \in cs \cup m.backup
               PROVE  c.turn < d.turn <=> c.began < d.began
    BY DEF InOrder
  <2>1. CASE c \in cs /\ d \in cs
    BY <2>1 DEF Tells, InOrder
  <2>2. CASE c \in m.backup /\ d \in m.backup
    BY <1>4, <2>2 DEF InOrder
  <2>3. CASE c \in cs /\ d \in m.backup
    BY <2>3 DEF Beneath
  <2>4. CASE c \in m.backup /\ d \in cs
    <3>1. d.turn < c.turn /\ d.began < c.began
      BY <2>4 DEF Beneath
    <3> QED
      BY <1>3, <3>1
  <2> QED
    BY <2>1, <2>2, <2>3, <2>4
<1> QED
  BY <1>6, <1>7, <1>8 DEF Tells

\* The checkpoints before the turn and, of the others, all or none: those of the
\* conversation at that end.
LEMMA PartedWhole ==
  ASSUME NEW m \in Manifest, Sound(m), WantsConversation(m.scope), ckpt \subseteq Checkpoint,
         Parted(m), NEW all \in BOOLEAN, FromHere(m, all),
         conv = IF all THEN m.forward ELSE Rewound(m)
  PROVE  Whole
<1>1. m.turn \in Nat /\ \A c \in ckpt : c.turn \in Nat
  BY DEF Manifest, Checkpoint
<1>2. ckpt = Below(ckpt, m.turn) \cup Above(ckpt, m.turn)
  BY <1>1 DEF Below, Above
<1>3. CASE all
  BY <1>2, <1>3 DEF Whole, FromHere, Parted
<1>4. CASE ~all
  <2>1. ckpt = Below(ckpt, m.turn) /\ \A c \in ckpt : c.turn < m.turn
    BY <1>2, <1>4 DEF FromHere, Below
  <2>2. Tells(ckpt, Rewound(m))
    BY <2>1, TellsRewound DEF Parted
  <2> QED
    BY <1>4, <2>2 DEF Whole, FromHere
<1> QED
  BY <1>3, <1>4

\* The other way round, for an undo of what dropped later checkpoints than all.
LEMMA WholeParted ==
  ASSUME NEW m \in Manifest, Sound(m), WantsConversation(m.scope), ckpt \subseteq Checkpoint,
         Whole, \A c \in ckpt : Beneath(c, m), conv = Rewound(m)
  PROVE  Parted(m) /\ FromHere(m, FALSE)
<1>1. PICK o \in m.backup : o.turn = m.turn
  BY RewoundFacts
<1>2. \A c \in ckpt : c.turn < m.turn /\ c.turn \in Nat
  BY <1>1 DEF Beneath, Checkpoint
<1>3. Below(ckpt, m.turn) = ckpt /\ Above(ckpt, m.turn) = {}
  BY <1>2, RewoundFacts DEF Below, Above
<1>4. Tells(ckpt \cup m.backup, m.forward)
  BY TellsForward DEF Whole
<1> QED
  BY <1>3, <1>4 DEF Parted, FromHere, Whole

\* restoreCheckpointBackup leaves the earlier turns alone, and at the backed-up
\* turns lists the backup and nothing else.
LEMMA OverFacts ==
  ASSUME NEW b \in SUBSET Checkpoint, NEW cs \in SUBSET Checkpoint,
         NEW t \in Nat, \A c \in b : c.turn >= t
  PROVE  /\ Below(Over(b, cs), t) = Below(cs, t)
         /\ Above(cs, t) \subseteq b =>
              /\ Above(Over(b, cs), t) = b
              /\ \A ds : Filed(Below(cs, t), ds) => Filed(Over(b, cs), Over(b, ds))
<1>1. /\ \A c \in b : c.turn \in Nat /\ c.turn >= t
      /\ \A c \in cs : c.turn \in Nat
  BY DEF Checkpoint
<1>3. Below(Over(b, cs), t) = Below(cs, t)
  BY <1>1 DEF Over, Below, TurnsOf
<1>4. ASSUME Above(cs, t) \subseteq b
      PROVE  \A c \in Over(b, cs) : c \in b \/ (c \in Below(cs, t) /\ c.turn \notin TurnsOf(b))
  BY <1>1, <1>4 DEF Above, Below, TurnsOf, Over
<1>5. ASSUME Above(cs, t) \subseteq b PROVE Above(Over(b, cs), t) = b
  BY <1>1, <1>4, <1>5 DEF Over, Above, Below
<1>6. ASSUME Above(cs, t) \subseteq b, NEW ds, Filed(Below(cs, t), ds)
      PROVE  Filed(Over(b, cs), Over(b, ds))
  BY <1>4, <1>6 DEF Over, Filed
<1> QED
  BY <1>3, <1>5, <1>6

\* TruncateFrom drops its turn and the later ones, and no file of an earlier one.
LEMMA TruncateFacts ==
  ASSUME NEW t \in Nat, ckpt \subseteq Checkpoint, Truncate(t)
  PROVE  /\ ckpt' = Below(ckpt, t) /\ Below(ckpt', t) = Below(ckpt, t) /\ Above(ckpt', t) = {}
         /\ Filed(Below(ckpt, t), ckptDisk) => Filed(ckpt', ckptDisk')
<1>1. \A c \in ckpt : c.turn \in Nat
  BY DEF Checkpoint
<1>2. ckpt' = Below(ckpt, t)
  BY DEF Truncate, TruncatedAt, Below
<1>3. \A c \in Below(ckpt, t) : c.turn \notin TurnsOf(CheckpointsFrom(t))
  BY <1>1 DEF Below, TurnsOf, CheckpointsFrom
<1> QED
  BY <1>1, <1>2, <1>3 DEF Truncate, Below, Above, Filed

\* Versions of one manifest agree on its checkpoints.
LEMMA SameCheckpoints ==
  ASSUME NEW a, NEW b, SameData(a, b)
  PROVE  /\ (Sound(a) <=> Sound(b)) /\ (Parted(a) <=> Parted(b))
         /\ \A x : (FromHere(a, x) <=> FromHere(b, x))
         /\ \A c : (Beneath(c, a) <=> Beneath(c, b))
  BY DEF SameData, Sound, Parted, FromHere, Beneath

\* The backups of the manifests there were are the backups they had, and none that
\* was given up comes back.
LEMMA SoundKept ==
  ASSUME Kept, BackupsSound, DOMAIN txs' = DOMAIN txs
  PROVE  BackupsSound'
<1> SUFFICES ASSUME NEW n \in DOMAIN txs, txs'[n].state # "aborted" PROVE Sound(txs'[n])
  BY DEF BackupsSound
<1>1. SameData(txs'[n], txs[n]) /\ txs[n].state # "aborted"
  BY DEF Kept, Evolves, StateMove
<1> QED
  BY <1>1, SameCheckpoints DEF BackupsSound

\* What is rewritten, and at work, after a step that neither begins nor ends a
\* commit.
LEMMA Continued ==
  ASSUME Kept,
         \A n \in DOMAIN txs' : Unsettled(n)' => n \in DOMAIN txs /\ Unsettled(n),
         \A n \in DOMAIN txs : Unsettled(n) => Unsettled(n)',
         pc' \in InFlight => (pc \in InFlight /\ cur' = cur /\ cur \in DOMAIN txs)
                             \/ (cur' \in DOMAIN txs' /\ txs'[cur'].state = "committing")
  PROVE  /\ \A n \in DOMAIN txs' : Rewriting(n)' => n \in DOMAIN txs /\ Rewriting(n)
         /\ \A n \in DOMAIN txs : Rewriting(n) => Rewriting(n)'
         /\ \A n \in DOMAIN txs' : Active(n)' => n \in DOMAIN txs /\ Active(n)
<1>1. \A n \in DOMAIN txs : n \in DOMAIN txs' /\ txs'[n].scope = txs[n].scope
  BY DEF Kept, Evolves, SameData
<1>2. /\ \A n \in DOMAIN txs' : Rewriting(n)' => n \in DOMAIN txs /\ Rewriting(n)
      /\ \A n \in DOMAIN txs : Rewriting(n) => Rewriting(n)'
  BY <1>1 DEF Rewriting
<1>3. ASSUME NEW n \in DOMAIN txs', Active(n)' PROVE n \in DOMAIN txs /\ Active(n)
  <2>1. CASE Unsettled(n)'
    BY <1>1, <1>3, <2>1 DEF Active
  <2>2. CASE ~Unsettled(n)'
    <3>1. pc' \in InFlight /\ n = cur' /\ WantsConversation(txs'[n].scope)
      BY <1>3, <2>2 DEF Active, InFlight, Working, Forward
    <3>2. pc \in InFlight /\ n = cur /\ cur \in DOMAIN txs
      BY <2>2, <3>1 DEF Unsettled
    <3> QED
      BY <1>1, <3>1, <3>2 DEF Active
  <2> QED
    BY <2>1, <2>2
<1> QED
  BY <1>2, <1>3

\* What lies beneath the standing rewinds, unless a turn began, a manifest was added
\* or one was settled; a step may list checkpoints of a backup it goes on with.
LEMMA StackedKept ==
  ASSUME Kept, Stacked, UndoCandidates' = UndoCandidates, turns' = turns,
         \A n \in DOMAIN txs : Rewriting(n) => Rewriting(n)',
         \A n \in DOMAIN txs' : Active(n)' => n \in DOMAIN txs /\ Active(n),
         \A c \in ckpt' : c \in ckpt \/ \E n \in DOMAIN txs : Rewriting(n) /\ c \in txs[n].backup
  PROVE  Stacked'
<1>1. /\ \A n \in DOMAIN txs : n \in DOMAIN txs' /\ SameData(txs'[n], txs[n])
      /\ \A i \in UndoCandidates : i \in DOMAIN txs
  BY DEF Kept, Evolves, UndoCandidates
<1>2. \A n \in DOMAIN txs :
        /\ txs'[n].when = txs[n].when /\ txs'[n].backup = txs[n].backup
        /\ txs'[n].kind = txs[n].kind /\ txs'[n].parent = txs[n].parent
        /\ \A c : (Beneath(c, txs'[n]) <=> Beneath(c, txs[n]))
  BY <1>1, SameCheckpoints DEF SameData
<1> SUFFICES ASSUME NEW i \in UndoCandidates
             PROVE  /\ txs'[i].when = turns' => \A c \in ckpt' :
                         Beneath(c, txs'[i])
                         \/ \E n \in DOMAIN txs' : Rewriting(n)' /\ c \in txs'[n].backup
                    /\ \A j \in UndoCandidates : i < j /\ txs'[i].when = txs'[j].when =>
                         \A c \in txs'[j].backup : Beneath(c, txs'[i])
                    /\ txs'[i].when = turns' => \A n \in DOMAIN txs' :
                         Active(n)' /\ ~(txs'[n].kind = "undo" /\ txs'[n].parent = i) =>
                           \A c \in txs'[n].backup : Beneath(c, txs'[i])
  BY DEF Stacked, Beneath
<1>3. ASSUME txs'[i].when = turns', NEW c \in ckpt'
      PROVE  Beneath(c, txs'[i]) \/ \E n \in DOMAIN txs' : Rewriting(n)' /\ c \in txs'[n].backup
  <2>1. Beneath(c, txs[i]) \/ \E n \in DOMAIN txs : Rewriting(n) /\ c \in txs[n].backup
    BY <1>1, <1>2, <1>3 DEF Stacked
  <2> QED
    BY <1>1, <1>2, <2>1
<1>4. \A j \in UndoCandidates : i < j /\ txs'[i].when = txs'[j].when =>
        \A c \in txs'[j].backup : Beneath(c, txs'[i])
  BY <1>1, <1>2 DEF Stacked
<1>5. txs'[i].when = turns' => \A n \in DOMAIN txs' :
        Active(n)' /\ ~(txs'[n].kind = "undo" /\ txs'[n].parent = i) =>
          \A c \in txs'[n].backup : Beneath(c, txs'[i])
  BY <1>1, <1>2 DEF Stacked
<1> QED
  BY <1>3, <1>4, <1>5

\* A step that moves no checkpoint, nor what is committing.
LEMMA ListedKept ==
  ASSUME Kept, Listed, UNCHANGED checkpoints,
         UNCHANGED conv \/ (\E n \in DOMAIN txs : Rewriting(n)),
         \A n \in DOMAIN txs : Rewriting(n) => Rewriting(n)',
         \A n \in DOMAIN txs' : Active(n)' => n \in DOMAIN txs /\ Active(n)
  PROVE  Listed'
<1>1. \A n \in DOMAIN txs : n \in DOMAIN txs' /\ SameData(txs'[n], txs[n])
  BY DEF Kept, Evolves
<1>2. ckpt' = ckpt /\ ckptDisk' = ckptDisk
  BY DEF checkpoints
<1>3. ASSUME \A n \in DOMAIN txs' : ~Rewriting(n)' PROVE Whole'
  BY <1>1, <1>2, <1>3 DEF Listed, Whole
<1>4. ASSUME NEW n \in DOMAIN txs', Active(n)' PROVE Parted(txs[n])'
  <2>1. n \in DOMAIN txs /\ Parted(txs[n]) /\ SameData(txs'[n], txs[n])
    BY <1>1, <1>4 DEF Listed
  <2> QED
    BY <1>2, <2>1 DEF Parted, SameData
<1> QED
  BY <1>3, <1>4 DEF Listed

\* Both together.
LEMMA StillListed ==
  ASSUME Kept, BackupsSound, Listed, Stacked, UndoCandidates' = UndoCandidates,
         UNCHANGED <<checkpoints, turns>>, DOMAIN txs' = DOMAIN txs,
         UNCHANGED conv \/ (\E n \in DOMAIN txs : Rewriting(n)),
         \A n \in DOMAIN txs' : Unsettled(n)' => n \in DOMAIN txs /\ Unsettled(n),
         \A n \in DOMAIN txs : Unsettled(n) => Unsettled(n)',
         pc' \in InFlight => (pc \in InFlight /\ cur' = cur /\ cur \in DOMAIN txs)
                             \/ (cur' \in DOMAIN txs' /\ txs'[cur'].state = "committing")
  PROVE  BackupsSound' /\ Listed' /\ Stacked'
<1>1. BackupsSound'
  BY SoundKept
<1>2. /\ \A n \in DOMAIN txs : Rewriting(n) => Rewriting(n)'
      /\ \A n \in DOMAIN txs' : Active(n)' => n \in DOMAIN txs /\ Active(n)
  BY Continued
<1>3. Listed'
  BY <1>2, ListedKept
<1>4. Stacked'
  BY <1>2, StackedKept DEF checkpoints
<1> QED
  BY <1>1, <1>3, <1>4

\* PersistIntent adds a path to what is published and changes nothing else.
LEMMA IntentSame ==
  ASSUME JInv, PersistIntent
  PROVE  /\ SameData(M', M) /\ M'.state = M.state /\ DOMAIN txs' = DOMAIN txs
         /\ \A n \in DOMAIN txs : txs'[n].state = txs[n].state
<1> DEFINE m == [M EXCEPT !.published = @ \cup {Min(Unpublished)}]
<1>1. pc = "intent" /\ pc \in InFlight /\ pc \in Forward
  BY DEF PersistIntent, InFlight, Working, Forward
<1>2. M \in Manifest /\ cur \in DOMAIN txs /\ M = txs[cur]
  BY <1>1, InHandFacts DEF JInv
<1>3. SameData(m, M) /\ m.state = M.state
  BY <1>2 DEF Manifest, SameData
<1>4. Persist(m) \/ PersistFails(M)
  BY DEF PersistIntent
<1> HIDE DEF m
<1>5. M' = m \/ M' = M
  BY <1>4 DEF Persist, PersistFails, M
<1>6. SameData(M', M) /\ M'.state = M.state
  BY <1>3, <1>5 DEF SameData
<1>7. DOMAIN txs' = DOMAIN txs /\ \A n \in DOMAIN txs : txs'[n].state = txs[n].state
  BY <1>2, <1>3, <1>4 DEF Persist, PersistFails
<1> QED
  BY <1>6, <1>7

\* The steps of a commit that leave the checkpoints alone.
LEMMA ForwardListed ==
  ASSUME JInv, OInv, TInv, KInv, Kept, orderly, UndoCandidates' = UndoCandidates,
         \/ PersistIntent \/ BackupTarget \/ PublishTarget \/ PersistProgress
         \/ FilesDone \/ CommitConversation
  PROVE  KInv'
<1>1. /\ pc \in {"intent", "backup", "publish", "progress", "convo"}
      /\ pc \in InFlight /\ pc \in Forward /\ pc \in Journalled
      /\ UNCHANGED <<checkpoints, cur, turns>> /\ (PersistIntent \/ UNCHANGED <<txs, mem>>)
  BY DEF PersistIntent, BackupTarget, PublishTarget, PersistProgress, FilesDone,
     CommitConversation, InFlight, Working, Forward, Journalled, session, checkpoints, counters
<1>2. BackupsSound /\ Listed /\ ListedInHand /\ Stacked /\ txs[cur].state = "committing"
  BY <1>1 DEF KInv, JInv, MInv, InStep
<1>3. /\ SameData(M', M) /\ DOMAIN txs' = DOMAIN txs
      /\ \A n \in DOMAIN txs : txs'[n].state = txs[n].state
  <2>1. CASE PersistIntent
    BY <2>1, IntentSame
  <2>2. CASE UNCHANGED <<txs, mem>>
    BY <2>2 DEF M, SameData
  <2> QED
    BY <1>1, <2>1, <2>2
<1>4. UNCHANGED conv \/ (\E n \in DOMAIN txs : Rewriting(n))
  <2>1. CASE ~CommitConversation
    BY <2>1 DEF PersistIntent, BackupTarget, PublishTarget, PersistProgress, FilesDone, session
  <2>2. CASE CommitConversation
    <3> PICK c \in DOMAIN txs : c = cur
      BY <1>1, InHandEnds
    <3>1. SameData(M, txs[c]) /\ M.kind \in {"rewind", "undo"}
      BY <1>1, InHandEnds
    <3>2. CASE WantsConversation(M.scope)
      BY <1>2, <3>1, <3>2 DEF Rewriting, Unsettled, SameData
    <3>3. CASE ~WantsConversation(M.scope)
      <4>1. pc = "convo" /\ M.kind = "undo" /\ conv = M.forward
        BY <1>1, <2>2, <3>1, <3>3, InHandEnds DEF TInv, AtTheEnd, CommitConversation, BothAt, Forward
      <4> QED
        BY <2>2, <4>1 DEF CommitConversation, Forwards, ForwardsFails, RestoreConversation, RestoreFails
    <3> QED
      BY <3>2, <3>3
  <2> QED
    BY <2>1, <2>2
<1>5. BackupsSound' /\ Listed' /\ Stacked'
  <2>1. cur \in DOMAIN txs
    BY <1>1, InHandEnds
  <2> QED
    BY <1>1, <1>2, <1>3, <1>4, <2>1, StillListed DEF Unsettled
<1>6. /\ WantsConversation(M.scope) => FromHere(M, M.kind = "rewind")
      /\ M'.scope = M.scope /\ M'.kind = M.kind /\ M'.turn = M.turn /\ M'.backup = M.backup
  BY <1>1, <1>2, <1>3 DEF ListedInHand, SameData
<1>7. \/ pc' \in {"intent", "backup", "publish", "progress", "convo", "ckpts", "comp", "stateConv"}
      \/ pc' = "finalize" /\ ~WantsConversation(M.scope)
  BY <1>1 DEF PersistIntent, BackupTarget, PublishTarget, PersistProgress, FilesDone,
     CommitConversation, Compensate, CompensateState
<1>8. ListedInHand'
  BY <1>1, <1>6, <1>7 DEF ListedInHand, FromHere, checkpoints, Above
<1> QED
  BY <1>5, <1>8 DEF KInv

\* The steps back that leave the checkpoints alone.
LEMMA BackListed ==
  ASSUME JInv, OInv, TInv, KInv, Kept, orderly, UndoCandidates' = UndoCandidates,
         CompensateConversation \/ CompensateFile \/ CompensationDone
  PROVE  KInv'
<1>0. /\ UNCHANGED <<checkpoints, cur, txs, mem, turns>> /\ (stateErr => stateErr')
      /\ \/ pc = "stateConv" /\ pc' = "stateCkpt"
         \/ pc \in {"comp", "compMove"} /\ pc' \in {"comp", "compMove", "verdict"}
  <2>1. CASE CompensateConversation
    BY <2>1 DEF CompensateConversation, counters
  <2>2. ASSUME NEW f, CompensateNothing(f) \/ CompensateUnread(f) \/ CompensateForeign(f)
        PROVE  /\ UNCHANGED <<checkpoints, cur, txs, mem, turns, stateErr>>
               /\ pc = "comp" /\ pc' = "comp"
    BY <2>2 DEF CompensateNothing, CompensateUnread, CompensateForeign, Visiting, Visited,
       Untouched, session, counters
  <2>3. ASSUME NEW f, CompensateRename(f) \/ CompensateRemove(f)
        PROVE  /\ UNCHANGED <<checkpoints, cur, txs, mem, turns, stateErr>>
               /\ pc = "comp" /\ pc' \in {"comp", "compMove"}
    BY <2>3 DEF CompensateRename, CompensateRemove, Visiting, Visited, Untouched, session, counters
  <2>4. CASE CompensateMove
    <3>1. /\ UNCHANGED <<checkpoints, cur, txs, mem, turns, stateErr>>
          /\ pc = "compMove" /\ pc' = "comp"
      BY <2>4 DEF CompensateMove, Visited, Untouched, session, counters
    <3> QED
      BY <3>1
  <2>5. CASE CompensationDone
    <3>1. /\ UNCHANGED <<checkpoints, cur, txs, mem, turns, stateErr>>
          /\ pc = "comp" /\ pc' = "verdict"
      BY <2>5 DEF CompensationDone, session, counters
    <3> QED
      BY <3>1
  <2> QED
    BY <2>1, <2>2, <2>3, <2>4, <2>5 DEF CompensateFile
<1>1. /\ pc \in {"stateConv", "comp", "compMove"} /\ pc \in InFlight
      /\ UNCHANGED <<checkpoints, cur, txs, mem, turns>> /\ M' = M /\ (stateErr => stateErr')
      /\ pc = "stateConv" => pc' = "stateCkpt" /\ pc \in Journalled
      /\ pc # "stateConv" => pc' \in {"comp", "compMove", "verdict"}
  BY <1>0 DEF M, InFlight, Working, Forward, Journalled
<1>2. BackupsSound /\ Listed /\ ListedInHand /\ Stacked
  BY DEF KInv
<1>3. UNCHANGED conv \/ (\E n \in DOMAIN txs : Rewriting(n))
  <2>1. CASE ~CompensateConversation
    BY <2>1 DEF CompensateFile, CompensateNothing, CompensateUnread, CompensateRename,
       CompensateForeign, CompensateRemove, CompensateMove, CompensationDone, Untouched, session
  <2>2. CASE CompensateConversation
    <3> PICK c \in DOMAIN txs : c = cur
      BY <1>1, InHandEnds
    <3>1. /\ SameData(M, txs[c]) /\ M.kind \in {"rewind", "undo"} /\ pc = "stateConv"
          /\ Ends(M) = Ends(txs[c]) /\ txs[c].state = "committing"
      BY <1>1, <2>2, InHandEnds DEF CompensateConversation, JInv, MInv, InStep
    <3>2. CASE WantsConversation(M.scope)
      BY <3>1, <3>2 DEF Rewriting, Unsettled, SameData
    <3>3. CASE ~WantsConversation(M.scope)
      <4>1. conv = M.forward
        <5>1. conv \in Ends(M)
          BY <3>1 DEF TInv, AtAnEnd, Unsettled
        <5> QED
          BY <1>1, <3>3, <5>1, InHandEnds DEF Ends
      <4> QED
        BY <2>2, <3>1, <3>3, <4>1 DEF CompensateConversation, Backwards, BackwardsFails,
           RestoreConversation, RestoreFails
    <3> QED
      BY <3>2, <3>3
  <2> QED
    BY <2>1, <2>2
<1>4. BackupsSound' /\ Listed' /\ Stacked'
  <2>1. cur \in DOMAIN txs
    BY <1>1, InHandEnds
  <2> QED
    BY <1>1, <1>2, <1>3, <2>1, StillListed DEF Unsettled
<1>5. ListedInHand'
  <2>1. CASE pc = "stateConv"
    BY <1>1, <2>1 DEF ListedInHand, Forward
  <2>2. CASE pc # "stateConv"
    BY <1>1, <1>2, <2>2 DEF ListedInHand, FromHere, checkpoints, Above, Forward
  <2> QED
    BY <2>1, <2>2
<1> QED
  BY <1>4, <1>5 DEF KInv

\* However far the files of a rewriting step got, those of earlier turns are all
\* there, and what is new among the later ones comes from the backup.
LEMMA HalfDoneParted ==
  ASSUME NEW d \in HalfDone, ckptDisk \subseteq Checkpoint, ckpt \subseteq Checkpoint,
         pc \in {"ckpts", "stateCkpt"} /\ WantsConversation(M.scope) => Sound(M) /\ M \in Manifest
  PROVE  \/ d = ckptDisk
         \/ /\ pc \in {"ckpts", "stateCkpt"} /\ WantsConversation(M.scope)
            /\ Below(d, M.turn) = Below(ckptDisk, M.turn)
            /\ Above(d, M.turn) \subseteq Above(ckptDisk, M.turn) \cup M.backup
<1> SUFFICES ASSUME d # ckptDisk
             PROVE  /\ pc \in {"ckpts", "stateCkpt"} /\ WantsConversation(M.scope)
                    /\ Below(d, M.turn) = Below(ckptDisk, M.turn)
                    /\ Above(d, M.turn) \subseteq Above(ckptDisk, M.turn) \cup M.backup
  OBVIOUS
<1>1. /\ pc \in {"ckpts", "stateCkpt"} /\ WantsConversation(M.scope)
      /\ \/ d \in HalfTruncated(M.turn)
         \/ d \in HalfRestored(M.backup)
  BY DEF HalfDone, Truncating, Restoring
<1>2. /\ M.turn \in Nat /\ M.backup \subseteq Checkpoint
      /\ \A c \in M.backup : c.turn >= M.turn
  BY <1>1 DEF Sound, Manifest
<1>3. /\ \A c \in ckptDisk : c.turn \in Nat
      /\ \A c \in ckpt : c.turn \in Nat
      /\ \A c \in M.backup : c.turn \in Nat /\ c.turn >= M.turn
  BY <1>2 DEF Checkpoint
<1>4. CASE d \in HalfTruncated(M.turn)
  <2> PICK gone \in SUBSET TurnsOf(CheckpointsFrom(M.turn)) : d = {c \in ckptDisk : c.turn \notin gone}
    BY <1>4 DEF HalfTruncated
  <2>1. \A i \in gone : i \in Nat /\ i >= M.turn
    BY <1>3 DEF TurnsOf, CheckpointsFrom
  <2>2. \A c \in ckptDisk : c.turn < M.turn => c.turn \notin gone
    BY <1>2, <1>3, <2>1
  <2> QED
    BY <1>1, <2>2 DEF Below, Above
<1>5. CASE d \in HalfRestored(M.backup)
  <2> PICK i : d = Over({c \in M.backup : c.turn <= i}, ckptDisk)
    BY <1>5 DEF HalfRestored
  <2>1. \A c \in ckptDisk : c.turn < M.turn => c.turn \notin TurnsOf({e \in M.backup : e.turn <= i})
    BY <1>2, <1>3 DEF TurnsOf
  <2>2. Below(d, M.turn) = Below(ckptDisk, M.turn)
    BY <1>2, <1>3, <2>1 DEF Over, Below
  <2>3. Above(d, M.turn) \subseteq Above(ckptDisk, M.turn) \cup M.backup
    BY DEF Over, Above
  <2> QED
    BY <1>1, <2>2, <2>3
<1> QED
  BY <1>1, <1>4, <1>5

\* The steps that rewrite the checkpoints, forwards or compensating, to the end or
\* halfway.
LEMMA RewritingListed ==
  ASSUME JInv, Alone, BackupsSound, Listed, Stacked, Kept, UndoCandidates' = UndoCandidates,
         UNCHANGED <<txs, mem, cur, turns>>,
         pc \in {"ckpts", "stateCkpt"}, WantsConversation(M.scope)
  PROVE  /\ Truncating /\ Truncate(M.turn) => Listed' /\ Stacked' /\ FromHere(M, FALSE)'
         /\ Restoring /\ Restore(M.backup) => Listed' /\ Stacked' /\ FromHere(M, TRUE)'
         /\ ckptDisk' \in HalfDone /\ UNCHANGED ckpt => Listed' /\ Stacked'
<1>1. pc \in InFlight /\ pc \in Journalled /\ pc \in Working
  BY DEF InFlight, Working, Forward, Journalled
<1> PICK c \in DOMAIN txs : c = cur
  BY <1>1, InHandEnds
<1>2. M \in Manifest /\ SameData(M, txs[c]) /\ Unsettled(c)
  BY <1>1, InHandEnds DEF JInv, MInv, InStep, Unsettled
<1>3. M' = M /\ ckpt \subseteq Checkpoint /\ ckptDisk \subseteq Checkpoint
  BY DEF M, JInv, CInv, IInv, SessionOK
<1>4. Sound(M) /\ Parted(M) /\ Rewriting(c) /\ Active(c)
  <2>1. Sound(txs[c]) /\ Rewriting(c) /\ Active(c)
    BY <1>2 DEF BackupsSound, Unsettled, Rewriting, Active, SameData
  <2> QED
    BY <1>2, <2>1, SameCheckpoints DEF Listed
<1>5. /\ M.turn \in Nat /\ M.backup \in SUBSET Checkpoint
      /\ \A d \in M.backup : d.turn >= M.turn
  BY <1>2, <1>4 DEF Sound, Manifest
<1>6. /\ \A n \in DOMAIN txs' : Active(n)' => n = c
      /\ \A n \in DOMAIN txs : Rewriting(n) => Rewriting(n)'
      /\ Rewriting(c)'
  BY <1>1, <1>4 DEF Alone, Active, Rewriting, Unsettled
<1>7. ASSUME Parted(M)' PROVE Listed'
  <2>1. Parted(txs[c])'
    BY <1>2, <1>3, <1>7 DEF Parted, SameData
  <2> QED
    BY <1>6, <2>1 DEF Listed
<1>8. ASSUME ckpt' \subseteq ckpt \cup M.backup PROVE Stacked'
  <2>1. M.backup = txs[c].backup
    BY <1>2 DEF SameData
  <2>2. \A e \in ckpt' : e \in ckpt \/ \E n \in DOMAIN txs : Rewriting(n) /\ e \in txs[n].backup
    BY <1>4, <1>8, <2>1
  <2> QED
    BY <1>4, <1>6, <2>2, StackedKept
<1>9. ASSUME Truncate(M.turn) PROVE Parted(M)' /\ FromHere(M, FALSE)' /\ ckpt' \subseteq ckpt
  <2>1. /\ ckpt' = Below(ckpt, M.turn) /\ Below(ckpt', M.turn) = Below(ckpt, M.turn)
        /\ Above(ckpt', M.turn) = {} /\ Filed(ckpt', ckptDisk')
    BY <1>3, <1>4, <1>5, <1>9, TruncateFacts DEF Parted
  <2>2. Parted(M)' /\ FromHere(M, FALSE)'
    BY <1>3, <1>4, <2>1 DEF Parted, FromHere
  <2> QED
    BY <2>1, <2>2 DEF Below
<1>10. ASSUME Restore(M.backup)
       PROVE  Parted(M)' /\ FromHere(M, TRUE)' /\ ckpt' \subseteq ckpt \cup M.backup
  <2>1. ckpt' = Over(M.backup, ckpt) /\ ckptDisk' = Over(M.backup, ckptDisk)
    BY <1>10 DEF Restore, Merge
  <2>2. /\ Below(ckpt', M.turn) = Below(ckpt, M.turn) /\ Above(ckpt', M.turn) = M.backup
        /\ Filed(ckpt', ckptDisk')
    BY <1>3, <1>4, <1>5, <2>1, OverFacts DEF Parted
  <2>3. Filed(Below(ckpt', M.turn), ckptDisk')
    BY <2>2 DEF Below, Filed
  <2>4. Parted(M)' /\ FromHere(M, TRUE)'
    BY <1>3, <1>4, <2>2, <2>3 DEF Parted, FromHere
  <2> QED
    BY <2>1, <2>4 DEF Over
<1>11. ASSUME ckptDisk' \in HalfDone, UNCHANGED ckpt PROVE Parted(M)'
  <2>1. Below(ckptDisk', M.turn) = Below(ckptDisk, M.turn)
    BY <1>2, <1>3, <1>4, <1>11, HalfDoneParted
  <2>2. Filed(Below(ckpt, M.turn), ckptDisk')
    BY <1>4, <2>1 DEF Parted, Below, Filed
  <2> QED
    BY <1>3, <1>4, <1>11, <2>2 DEF Parted
<1> QED
  BY <1>7, <1>8, <1>9, <1>10, <1>11

\* The checkpoints follow the conversation, or an error is on record.
LEMMA CommitCheckpointsListed ==
  ASSUME JInv, OInv, KInv, Kept, orderly, UndoCandidates' = UndoCandidates, CommitCheckpoints
  PROVE  KInv'
<1>1. /\ pc = "ckpts" /\ pc \in Forward /\ pc \in InFlight
      /\ UNCHANGED <<txs, mem, cur, conv, turns>> /\ M' = M /\ cur \in DOMAIN txs
  BY InHandEnds DEF CommitCheckpoints, Forward, InFlight, Working, M, counters
<1>2. BackupsSound /\ Listed /\ Stacked /\ Alone /\ BackupsSound' /\ M.kind \in {"rewind", "undo"}
  BY <1>1, SoundKept, InHandEnds DEF KInv, OInv
<1>3. CASE WantsConversation(M.scope)
  <2>1. CASE Truncating /\ Truncate(M.turn) /\ pc' = "finalize"
    <3>1. Listed' /\ Stacked' /\ FromHere(M, FALSE)' /\ M.kind # "undo"
      BY <1>1, <1>2, <1>3, <2>1, RewritingListed DEF Truncating
    <3> QED
      BY <1>1, <1>2, <2>1, <3>1 DEF KInv, ListedInHand, Forward, FromHere
  <2>2. CASE Restoring /\ Restore(M.backup) /\ pc' = "finalize"
    <3>1. Listed' /\ Stacked' /\ FromHere(M, TRUE)' /\ M.kind = "undo"
      BY <1>1, <1>2, <1>3, <2>2, RewritingListed DEF Restoring
    <3> QED
      BY <1>1, <1>2, <2>2, <3>1 DEF KInv, ListedInHand, Forward, FromHere
  <2>3. CASE ckptDisk' \in HalfDone /\ UNCHANGED ckpt /\ pc' = "stateConv"
    <3>1. Listed' /\ Stacked'
      BY <1>1, <1>2, <1>3, <2>3, RewritingListed
    <3> QED
      BY <1>2, <2>3, <3>1 DEF KInv, ListedInHand, Forward
  <2> QED
    BY <1>3, <2>1, <2>2, <2>3 DEF CommitCheckpoints, CompensateState
<1>4. CASE ~WantsConversation(M.scope)
  <2>1. UNCHANGED checkpoints /\ pc' = "finalize"
    BY <1>4 DEF CommitCheckpoints, Truncating, Restoring
  <2>2. Listed' /\ Stacked'
    BY <1>1, <1>2, <2>1, StillListed DEF Unsettled
  <2> QED
    BY <1>1, <1>2, <1>4, <2>1, <2>2 DEF KInv, ListedInHand, Forward
<1> QED
  BY <1>3, <1>4

\* Compensating likewise, back to where they were.
LEMMA CompensateCheckpointsListed ==
  ASSUME JInv, OInv, KInv, Kept, orderly, UndoCandidates' = UndoCandidates, CompensateCheckpoints
  PROVE  KInv'
<1>1. /\ pc = "stateCkpt" /\ pc \in Journalled /\ pc \in InFlight
      /\ UNCHANGED <<txs, mem, cur, conv, turns>> /\ M' = M /\ pc' \in {"verdict", "comp"}
      /\ txs[cur].state = "committing" /\ cur \in DOMAIN txs
  BY InHandEnds DEF CompensateCheckpoints, Forward, InFlight, Working, Journalled, M, JInv,
     MInv, InStep, counters
<1>2. BackupsSound /\ Listed /\ Stacked /\ Alone /\ BackupsSound' /\ M.kind \in {"rewind", "undo"}
  BY <1>1, SoundKept, InHandEnds DEF KInv, OInv
<1>3. CASE WantsConversation(M.scope)
  <2>1. CASE Truncating /\ Truncate(M.turn)
    <3>1. Listed' /\ Stacked' /\ FromHere(M, FALSE)' /\ M.kind = "undo"
      BY <1>1, <1>2, <1>3, <2>1, RewritingListed DEF Truncating
    <3> QED
      BY <1>1, <1>2, <2>1, <3>1 DEF KInv, ListedInHand, Forward, FromHere
  <2>2. CASE Restoring /\ Restore(M.backup)
    <3>1. Listed' /\ Stacked' /\ FromHere(M, TRUE)' /\ M.kind = "rewind"
      BY <1>1, <1>2, <1>3, <2>2, RewritingListed DEF Restoring
    <3> QED
      BY <1>1, <1>2, <2>2, <3>1 DEF KInv, ListedInHand, Forward, FromHere
  <2>3. CASE ckptDisk' \in HalfDone /\ UNCHANGED ckpt /\ stateErr'
    <3>1. Listed' /\ Stacked'
      BY <1>1, <1>2, <1>3, <2>3, RewritingListed
    <3> QED
      BY <1>1, <1>2, <2>3, <3>1 DEF KInv, ListedInHand, Forward
  <2> QED
    BY <1>3, <2>1, <2>2, <2>3 DEF CompensateCheckpoints
<1>4. CASE ~WantsConversation(M.scope)
  <2>1. UNCHANGED checkpoints
    BY <1>4 DEF CompensateCheckpoints
  <2>2. Listed' /\ Stacked'
    BY <1>1, <1>2, <2>1, StillListed DEF Unsettled
  <2> QED
    BY <1>1, <1>2, <1>4, <2>1, <2>2 DEF KInv, ListedInHand, Forward
<1> QED
  BY <1>3, <1>4

\* BeginCommit: from now on the checkpoints may part from the conversation.
LEMMA BeginCommitListed ==
  ASSUME JInv, OInv, TInv, KInv, Kept, orderly, UndoCandidates' = UndoCandidates, BeginCommit
  PROVE  KInv'
<1> DEFINE m == [M EXCEPT !.state = "committing"]
<1>1. /\ pc = "prepared" /\ pc \in InFlight /\ pc \in Forward /\ pc \in Working
      /\ UNCHANGED <<conv, checkpoints, cur, turns>>
      /\ \/ Persist(m) /\ pc' = "intent"
         \/ PersistFails(m) /\ pc' = "comp"
  BY DEF BeginCommit, Compensate, InFlight, Working, Forward, session, checkpoints, counters
<1>2. BackupsSound /\ Listed /\ ListedInHand /\ Stacked /\ Alone
  BY <1>1 DEF KInv, OInv
<1> PICK c \in DOMAIN txs : c = cur
  BY <1>1, InHandEnds
<1>3. /\ SameData(m, M) /\ m.state = "committing" /\ M = txs[c] /\ M \in Manifest
      /\ M.kind \in {"rewind", "undo"}
  BY <1>1, InHandFacts, InHandEnds, StateData DEF JInv
<1>4. M' = m
  BY <1>1 DEF Persist, PersistFails, M
<1> HIDE DEF m
<1>5. /\ DOMAIN txs' = DOMAIN txs /\ \A n \in DOMAIN txs : n # c => txs'[n] = txs[n]
      /\ txs'[c] = m \/ txs'[c] = txs[c]
  BY <1>1 DEF Persist, PersistFails
<1>6. BackupsSound'
  BY <1>2, <1>5, SoundKept
<1>7. ListedInHand'
  BY <1>1, <1>2, <1>3, <1>4 DEF ListedInHand, FromHere, SameData, Forward, Above, checkpoints
<1>8. txs'[c].scope = txs[c].scope /\ (txs[c].state = "committing" => txs'[c].state = "committing")
  BY <1>3, <1>5 DEF SameData
<1>9. \A n \in DOMAIN txs : Rewriting(n) => Rewriting(n)'
  BY <1>5, <1>8 DEF Rewriting, Unsettled
<1>10. \A n \in DOMAIN txs' : Active(n)' => n \in DOMAIN txs /\ Active(n)
  BY <1>1, <1>5, <1>8 DEF Active, Unsettled
<1>11. Listed'
  BY <1>1, <1>2, <1>9, <1>10, ListedKept
<1>12. Stacked'
  BY <1>1, <1>2, <1>9, <1>10, StackedKept DEF checkpoints
<1> QED
  BY <1>6, <1>7, <1>11, <1>12 DEF KInv

\* What a rewind in hand has dropped, or has not touched yet, comes after what is
\* left.
LEMMA LeftBeneath ==
  ASSUME NEW m \in Manifest, Sound(m), WantsConversation(m.scope), ckpt \subseteq Checkpoint,
         Parted(m), FromHere(m, FALSE)
  PROVE  \A c \in ckpt : Beneath(c, m) /\ c \notin m.backup
<1>1. /\ m.turn \in Nat /\ m.backup \in SUBSET Checkpoint
      /\ \A d \in m.backup : d.turn \in Nat /\ d.turn >= m.turn
  BY DEF Manifest, Sound, Checkpoint
<1>2. ckpt = Below(ckpt, m.turn) /\ \A c \in ckpt : c.turn \in Nat /\ c.turn < m.turn
  BY <1>1 DEF FromHere, Below, Above, Checkpoint
<1>3. InOrder(ckpt \cup m.backup)
  BY <1>2 DEF Parted, Tells
<1> SUFFICES ASSUME NEW c \in ckpt PROVE Beneath(c, m) /\ c \notin m.backup
  OBVIOUS
<1>4. \A d \in m.backup : c.turn < d.turn
  BY <1>1, <1>2
<1>5. Beneath(c, m)
  BY <1>3, <1>4 DEF Beneath, InOrder
<1> QED
  BY <1>1, <1>2, <1>5

\* The commit point: the checkpoints are those of the end the conversation is at, and
\* what the rewind dropped goes on top of what the standing ones have.
LEMMA FinalizeListed ==
  ASSUME JInv, LInv, OInv, TInv, KInv, Kept, orderly, Finalize
  PROVE  KInv'
<1> DEFINE m == [M EXCEPT !.state = "committed"]
<1>1. /\ pc = "finalize" /\ pc \in InFlight /\ pc \in Forward /\ pc \in Journalled /\ pc \in Working
      /\ UNCHANGED <<conv, checkpoints, turns>>
  BY DEF Finalize, InFlight, Working, Forward, Journalled, session, counters
<1> PICK c \in DOMAIN txs : c = cur
  BY <1>1, InHandEnds
<1>2. /\ BackupsSound /\ Listed /\ ListedInHand /\ Stacked /\ Alone
      /\ M = txs[c] /\ M \in Manifest /\ txs[c].state = "committing"
      /\ M.kind \in {"rewind", "undo"} /\ M.when = turns /\ conv = After(M)
  BY <1>1, InHandFacts, InHandEnds DEF KInv, TInv, OInv, AtTheEnd, BothAt, JInv, MInv, InStep
<1>3. SameData(m, M) /\ m.state = "committed"
  BY <1>2, StateData
<1>4. \/ UNCHANGED <<txs, cur>> /\ pc' = "stateConv"
      \/ txs' = [txs EXCEPT ![c] = m] /\ pc' \in {"mark", "idle"}
  BY DEF Finalize, CompensateState, PersistFails
<1> HIDE DEF m
<1>5. ListedInHand'
  BY <1>4 DEF ListedInHand, Forward
<1>6. CASE UNCHANGED <<txs, cur>> /\ pc' = "stateConv"
  <2>1. BackupsSound' /\ Listed' /\ Stacked'
    BY <1>1, <1>2, <1>6, StillListed DEF Unsettled, UndoCandidates
  <2> QED
    BY <1>5, <2>1 DEF KInv
<1>7. CASE txs' = [txs EXCEPT ![c] = m] /\ pc' \in {"mark", "idle"}
  <2>1. /\ DOMAIN txs' = DOMAIN txs /\ txs'[c] = m
        /\ \A n \in DOMAIN txs : n # c => txs'[n] = txs[n]
        /\ \A n \in DOMAIN txs : SameData(txs'[n], txs[n])
    BY <1>7 DEF Kept, Evolves
  <2>2. \A n \in DOMAIN txs' : ~Unsettled(n)'
    BY <1>1, <1>2, <1>3, <2>1 DEF Alone, Unsettled
  <2>3. \A n \in DOMAIN txs' : ~Rewriting(n)' /\ ~Active(n)'
    BY <1>7, <2>2 DEF Rewriting, Active, InFlight, Working, Forward
  <2>4. /\ \A n \in DOMAIN txs : Unsettled(n) <=> n = c
        /\ WantsConversation(M.scope) => Rewriting(c) /\ Active(c) /\ Parted(M) /\ Sound(M)
                                         /\ FromHere(M, M.kind = "undo")
        /\ ~WantsConversation(M.scope) => M.backup = {} /\ \A n \in DOMAIN txs : ~Rewriting(n)
    BY <1>1, <1>2 DEF Alone, Unsettled, Rewriting, Active, Listed, ListedInHand, BackupsSound, Sound
  <2>5. Whole
    <3>1. CASE WantsConversation(M.scope)
      <4>1. conv = IF M.kind = "undo" THEN M.forward ELSE Rewound(M)
        BY <1>2 DEF After
      <4>2. ckpt \subseteq Checkpoint
        BY DEF JInv, CInv, IInv, SessionOK
      <4> QED
        BY <1>2, <2>4, <3>1, <4>1, <4>2, PartedWhole
    <3>2. CASE ~WantsConversation(M.scope)
      BY <1>2, <2>4, <3>2 DEF Listed
    <3> QED
      BY <3>1, <3>2
  <2>6. Listed'
    BY <1>1, <2>3, <2>5 DEF Listed, Whole, checkpoints
  <2>7. /\ \A i \in UndoCandidates : i \in DOMAIN txs /\ i # c /\ i \in Nat /\ i < c
        /\ M.kind = "rewind" => UndoCandidates' = UndoCandidates \cup {c}
        /\ M.kind = "undo" => UndoCandidates' = UndoCandidates \ {M.parent}
        /\ c \in Nat
    <3>1. c \in Nat
      BY Numbered DEF JInv, CInv
    <3> QED
      BY <1>1, <1>3, <1>7, <3>1, CandidatesAtCommit
  <2>8. ASSUME NEW i \in UndoCandidates, ~(M.kind = "undo" /\ M.parent = i), txs[i].when = turns
        PROVE  \A d \in M.backup \cup ckpt : Beneath(d, txs[i])
    <3>1. \A d \in M.backup : Beneath(d, txs[i])
      BY <1>2, <2>4, <2>8 DEF Stacked
    <3>2. \A d \in ckpt : Beneath(d, txs[i]) \/ d \in M.backup
      BY <1>2, <2>4, <2>8 DEF Stacked, Rewriting
    <3> QED
      BY <3>1, <3>2
  <2>9. ASSUME M.kind = "rewind" PROVE \A d \in ckpt : Beneath(d, M)
    <3>1. CASE WantsConversation(M.scope)
      BY <1>2, <2>4, <2>9, <3>1, LeftBeneath DEF JInv, CInv, IInv, SessionOK
    <3>2. CASE ~WantsConversation(M.scope)
      BY <2>4, <3>2 DEF Beneath
    <3> QED
      BY <3>1, <3>2
  <2>10. SUFFICES ASSUME NEW i \in UndoCandidates'
                  PROVE  /\ txs[i].when = turns => \A d \in ckpt : Beneath(d, txs[i])
                         /\ \A j \in UndoCandidates' : i < j /\ txs[i].when = txs[j].when =>
                              \A d \in txs[j].backup : Beneath(d, txs[i])
    <3>1. /\ \A n \in UndoCandidates' : n \in DOMAIN txs
          /\ \A n \in DOMAIN txs : /\ txs'[n].when = txs[n].when /\ txs'[n].backup = txs[n].backup
                                   /\ \A d : (Beneath(d, txs'[n]) <=> Beneath(d, txs[n]))
      BY <2>1, SameCheckpoints DEF UndoCandidates, SameData
    <3>2. ckpt' = ckpt /\ turns' = turns
      BY <1>1 DEF checkpoints
    <3>3. Stacked'
      BY <2>3, <2>10, <3>1, <3>2 DEF Stacked, Beneath
    <3>4. BackupsSound'
      BY <1>2, <2>1, SoundKept
    <3> QED
      BY <1>5, <2>6, <3>3, <3>4 DEF KInv
  <2>11. CASE i = c
    <3>1. M.kind = "rewind"
      BY <1>2, <2>7, <2>11
    <3> QED
      BY <1>2, <2>7, <2>9, <2>11, <3>1
  <2>12. CASE i # c
    <3>1. i \in UndoCandidates /\ ~(M.kind = "undo" /\ M.parent = i)
      BY <1>2, <2>7, <2>12
    <3>2. ASSUME NEW j \in UndoCandidates', i < j, txs[i].when = txs[j].when
          PROVE  \A d \in txs[j].backup : Beneath(d, txs[i])
      <4>1. CASE j = c
        BY <1>2, <2>8, <3>1, <3>2, <4>1
      <4>2. CASE j # c
        <5>1. j \in UndoCandidates
          BY <1>2, <2>7, <4>2
        <5> QED
          BY <1>2, <3>1, <3>2, <5>1 DEF Stacked
      <4> QED
        BY <4>1, <4>2
    <3> QED
      BY <2>8, <3>1, <3>2
  <2> QED
    BY <2>11, <2>12
<1> QED
  BY <1>4, <1>6, <1>7

\* A verdict leaves the checkpoints of its conversation, or an error for the next
\* recovery.
LEMMA VerdictListed ==
  ASSUME JInv, LInv, OInv, TInv, KInv, Kept, orderly, UndoCandidates' = UndoCandidates, Verdict
  PROVE  KInv'
<1> DEFINE s == IF stateErr \/ compErr THEN "committing" ELSE "aborted"
           m == [M EXCEPT !.state = s]
<1>1. /\ pc = "verdict" /\ pc \in InFlight /\ pc \in Working /\ pc' \in {"idle", "scan"}
      /\ UNCHANGED <<conv, checkpoints, turns>>
  BY DEF Verdict, InFlight, Working, session, counters
<1>2. /\ BackupsSound /\ Listed /\ ListedInHand /\ Stacked /\ Alone
      /\ WantsConversation(M.scope) =>
           FromHere(M, M.kind = "rewind") \/ (stateErr /\ txs[cur].state = "committing")
      /\ BothAt(Before(M)) \/ (stateErr /\ txs[cur].state = "committing")
  BY <1>1 DEF KInv, TInv, OInv, AtTheEnd, ListedInHand
<1> PICK c \in DOMAIN txs : c = cur
  BY <1>1, InHandEnds
<1>3. /\ m.state = s /\ M \in Manifest /\ M.kind \in {"rewind", "undo"}
      /\ SameData(M, txs[c]) /\ txs[c].state \in {"prepared", "committing"}
      /\ txs' = [txs EXCEPT ![c] = m] \/ UNCHANGED txs
  BY <1>1, InHandEnds, StateData DEF Verdict, JInv, MInv, InStep
<1>4. stateErr => s = "committing"
  OBVIOUS
<1> HIDE DEF m, s
<1>5. /\ DOMAIN txs' = DOMAIN txs /\ \A n \in DOMAIN txs : n # c => txs'[n] = txs[n]
      /\ txs'[c].state \in {s, txs[c].state}
      /\ \A n \in DOMAIN txs : SameData(txs'[n], txs[n])
  BY <1>3 DEF Kept, Evolves
<1>6. \A n \in DOMAIN txs : Unsettled(n) => n = c
  BY <1>1, <1>2 DEF Alone
<1>7. ListedInHand' /\ BackupsSound'
  BY <1>1, <1>2, <1>5, SoundKept DEF ListedInHand, Forward
<1>8. CASE Unsettled(c) => Unsettled(c)'
  <2>1. /\ \A n \in DOMAIN txs : Rewriting(n) => Rewriting(n)'
        /\ \A n \in DOMAIN txs' : Active(n)' => n \in DOMAIN txs /\ Active(n)
    BY <1>1, <1>3, <1>5, <1>6, <1>8 DEF Rewriting, Active, Unsettled, InFlight, Working, Forward, SameData
  <2>2. Listed'
    BY <1>1, <1>2, <2>1, ListedKept
  <2>3. Stacked'
    BY <1>1, <1>2, <2>1, StackedKept DEF checkpoints
  <2> QED
    BY <1>7, <2>2, <2>3 DEF KInv
<1>9. CASE Unsettled(c) /\ ~Unsettled(c)'
  <2>1. ~stateErr
    BY <1>4, <1>5, <1>9 DEF Unsettled
  <2>2. \A n \in DOMAIN txs' : ~Rewriting(n)' /\ ~Active(n)'
    BY <1>1, <1>5, <1>6, <1>9 DEF Rewriting, Active, Unsettled, InFlight, Working, Forward
  <2>3. /\ WantsConversation(M.scope) => Rewriting(c) /\ Active(c) /\ Parted(M) /\ Sound(M)
                                         /\ FromHere(M, M.kind = "rewind")
        /\ ~WantsConversation(M.scope) => \A n \in DOMAIN txs : ~Rewriting(n)
    BY <1>2, <1>3, <1>6, <1>9, <2>1, SameCheckpoints
       DEF Rewriting, Active, Listed, BackupsSound, SameData
  <2>4. Whole
    <3>1. CASE WantsConversation(M.scope)
      <4>1. conv = IF M.kind = "rewind" THEN M.forward ELSE Rewound(M)
        BY <1>2, <1>3, <2>1 DEF BothAt, Before
      <4>2. ckpt \subseteq Checkpoint
        BY DEF JInv, CInv, IInv, SessionOK
      <4> QED
        BY <1>3, <2>3, <3>1, <4>1, <4>2, PartedWhole
    <3>2. CASE ~WantsConversation(M.scope)
      BY <1>2, <2>3, <3>2 DEF Listed
    <3> QED
      BY <3>1, <3>2
  <2>5. Listed'
    BY <1>1, <2>2, <2>4 DEF Listed, Whole, checkpoints
  <2>6. ASSUME NEW i \in UndoCandidates, txs[i].when = turns, NEW d \in ckpt
        PROVE  Beneath(d, txs[i])
    <3>1. Beneath(d, txs[i]) \/ (Rewriting(c) /\ d \in txs[c].backup)
      BY <1>2, <1>6, <2>6 DEF Stacked, Rewriting
    <3>2. ASSUME Rewriting(c), d \in txs[c].backup PROVE Beneath(d, txs[i])
      <4>1. WantsConversation(M.scope) /\ Active(c) /\ d \in M.backup /\ txs[c].kind = M.kind
        BY <1>3, <2>3, <3>2 DEF Rewriting, SameData
      <4>2. CASE M.kind = "undo"
        <5>1. FromHere(M, FALSE)
          BY <2>3, <4>1, <4>2
        <5>2. d \notin M.backup
          BY <1>3, <2>3, <4>1, <5>1, LeftBeneath DEF JInv, CInv, IInv, SessionOK
        <5> QED
          BY <4>1, <5>2
      <4>3. CASE M.kind = "rewind"
        BY <1>2, <2>6, <3>2, <4>1, <4>3 DEF Stacked
      <4> QED
        BY <1>3, <4>2, <4>3
    <3> QED
      BY <3>1, <3>2
  <2>7. Stacked'
    <3>1. /\ \A i \in UndoCandidates : i \in DOMAIN txs
          /\ \A n \in DOMAIN txs : /\ txs'[n].when = txs[n].when /\ txs'[n].backup = txs[n].backup
                                   /\ \A d : (Beneath(d, txs'[n]) <=> Beneath(d, txs[n]))
      BY <1>5, SameCheckpoints DEF UndoCandidates, SameData
    <3>2. ckpt' = ckpt /\ turns' = turns
      BY <1>1 DEF checkpoints
    <3>3. \A i, j \in UndoCandidates : i < j /\ txs[i].when = txs[j].when =>
            \A d \in txs[j].backup : Beneath(d, txs[i])
      BY <1>2 DEF Stacked
    <3> QED
      BY <2>2, <2>6, <3>1, <3>2, <3>3 DEF Stacked, Beneath
  <2> QED
    BY <1>7, <2>5, <2>7 DEF KInv
<1> QED
  BY <1>8, <1>9

\* Recovery, a restart and the mark on what was undone move no checkpoint.
LEMMA RecoveryListed ==
  ASSUME JInv, LInv, KInv, Kept, orderly, UndoCandidates' = UndoCandidates,
         RecoverPrepared \/ RecoverCommitting \/ Start \/ PassDone \/ MarkUndone
  PROVE  KInv'
<1>1. /\ UNCHANGED <<conv, checkpoints, turns>>
      /\ BackupsSound /\ Listed /\ Stacked
  BY DEF RecoverPrepared, RecoverCommitting, Start, PassDone, MarkUndone, session, counters, KInv
<1>2. CASE RecoverPrepared
  <2>1. /\ Min(Remaining) \in DOMAIN txs /\ txs[Min(Remaining)] \in Manifest
        /\ txs[Min(Remaining)].state = "prepared" /\ pc' = "scan"
    BY <1>2, NextRemaining, Numbered DEF RecoverPrepared, JInv, CInv, control
  <2> PICK n \in DOMAIN txs : n = Min(Remaining)
    BY <2>1
  <2> DEFINE m == [txs[n] EXCEPT !.state = "aborted"]
  <2>2. txs' = [txs EXCEPT ![n] = m] \/ UNCHANGED txs
    BY <1>2 DEF RecoverPrepared
  <2>3. m.state = "aborted"
    BY <2>1, StateData
  <2> HIDE DEF m
  <2>4. /\ DOMAIN txs' = DOMAIN txs
        /\ \A i \in DOMAIN txs' : Unsettled(i)' => i \in DOMAIN txs /\ Unsettled(i)
        /\ \A i \in DOMAIN txs : Unsettled(i) => Unsettled(i)'
    BY <2>1, <2>2, <2>3 DEF Unsettled
  <2>5. pc' \notin InFlight /\ ListedInHand'
    BY <2>1 DEF ListedInHand, Forward, InFlight, Working
  <2>6. BackupsSound' /\ Listed' /\ Stacked'
    BY <1>1, <2>4, <2>5, StillListed
  <2> QED
    BY <2>5, <2>6 DEF KInv
<1>3. CASE RecoverCommitting
  <2>1. /\ Min(Remaining) \in DOMAIN txs /\ txs[Min(Remaining)].state = "committing"
        /\ UNCHANGED txs /\ mem' = <<txs[Min(Remaining)]>> /\ cur' = Min(Remaining)
        /\ pc' = IF WantsConversation(txs[Min(Remaining)].scope) THEN "stateConv" ELSE "comp"
    BY <1>3, NextRemaining, Numbered DEF RecoverCommitting, JInv, CInv
  <2> PICK n \in DOMAIN txs : n = Min(Remaining)
    BY <2>1
  <2>2. M' = txs[n] /\ cur' \in DOMAIN txs' /\ txs'[cur'].state = "committing"
    BY <2>1 DEF M
  <2>3. ListedInHand'
    BY <2>1, <2>2 DEF ListedInHand, Forward
  <2>4. BackupsSound' /\ Listed' /\ Stacked'
    BY <1>1, <2>1, <2>2, StillListed DEF Unsettled
  <2> QED
    BY <2>3, <2>4 DEF KInv
<1>4. CASE Start \/ PassDone
  <2>1. UNCHANGED txs /\ pc' \in {"scan", "idle"}
    BY <1>4 DEF Start, PassDone
  <2>2. pc' \notin InFlight /\ ListedInHand'
    BY <2>1 DEF ListedInHand, Forward, InFlight, Working
  <2>3. BackupsSound' /\ Listed' /\ Stacked'
    BY <1>1, <2>1, <2>2, StillListed DEF Unsettled
  <2> QED
    BY <2>2, <2>3 DEF KInv
<1>5. CASE MarkUndone
  <2>1. pc = "mark" /\ pc' = "idle" /\ M = txs[cur] /\ M.kind = "undo" /\ cur \in DOMAIN txs
    BY <1>5, Numbered, InMemory DEF MarkUndone, JInv, CInv, MInv, InStep, Working
  <2>2. M.parent \in DOMAIN txs /\ txs[M.parent].state \in {"committed", "undone"} /\ txs[M.parent] \in Manifest
    BY <2>1, Numbered DEF JInv, CInv, MInv, WellKept
  <2> PICK p \in DOMAIN txs : p = M.parent
    BY <2>2
  <2> DEFINE m == [txs[p] EXCEPT !.state = "undone"]
  <2>3. txs' = [txs EXCEPT ![p] = m] \/ UNCHANGED txs
    BY <1>5 DEF MarkUndone
  <2>4. m.state = "undone"
    BY <2>2, StateData
  <2> HIDE DEF m
  <2>5. /\ DOMAIN txs' = DOMAIN txs
        /\ \A n \in DOMAIN txs' : Unsettled(n)' => n \in DOMAIN txs /\ Unsettled(n)
        /\ \A n \in DOMAIN txs : Unsettled(n) => Unsettled(n)'
    BY <2>2, <2>3, <2>4 DEF Unsettled
  <2>6. pc' \notin InFlight /\ ListedInHand'
    BY <2>1 DEF ListedInHand, Forward, InFlight, Working
  <2>7. BackupsSound' /\ Listed' /\ Stacked'
    BY <1>1, <2>5, <2>6, StillListed
  <2> QED
    BY <2>6, <2>7 DEF KInv
<1> QED
  BY <1>2, <1>3, <1>4, <1>5

\* A turn opens one more checkpoint, dated after all there are, and at most one
\* message; a process that dies with it has lost nothing else.
LEMMA OrderlyTurn ==
  ASSUME IInv, Heard, KInv, orderly, orderly', AnyTurn
  PROVE  \E c \in Checkpoint :
           /\ Opens(c) /\ ckpt' = ckpt \cup {c} /\ c.turn = NextTurn /\ c.began = turns + 1
           /\ c.boundary = Len(conv) /\ c.pre = disk
           /\ conv' \in {conv, Append(conv, turns + 1)} /\ pc' \in {"idle", "down"}
           /\ NoManifestCommitting /\ turns' = turns + 1 /\ UNCHANGED txs
           /\ \A d \in ckpt : d.turn < c.turn /\ d.began < c.began
           /\ Whole /\ Whole'
<1> PICK c \in Checkpoint : Opens(c) /\ (Ended(c) \/ Died(c))
  BY TurnEnds
<1>1. /\ c.turn = NextTurn /\ c.began = turns + 1 /\ c.boundary = Len(conv) /\ c.pre = disk
      /\ NoManifestCommitting /\ turns' = turns + 1 /\ UNCHANGED txs
      /\ pc' \in {"idle", "down"} /\ pc = "idle"
  BY DEF Opens, Ended, Died
<1>2. /\ turns \in Nat /\ conv \in Seq(Nat) /\ Len(conv) \in Nat /\ DOMAIN conv = 1..Len(conv)
      /\ ckpt \subseteq Checkpoint /\ c.turn \in Nat
      /\ \A i \in DOMAIN conv : conv[i] \in 1..turns
  BY BoundsAssumption, LenProperties DEF IInv, SessionOK, CountersOK, Heard, Range, Checkpoint
<1>3. \A d \in ckpt : d.turn < c.turn /\ d.began < c.began /\ d.began \in Nat /\ d.turn \in Nat
                      /\ d.boundary \in Nat
  BY <1>1, <1>2, NextTurnFacts DEF IInv, SessionOK, Bounded, Checkpoint
<1>4. Whole
  BY <1>1 DEF KInv, Listed, Rewriting, Unsettled, NoManifestCommitting
<1>5. Over({c}, ckpt) = ckpt \cup {c}
  BY <1>3 DEF Over, TurnsOf
<1>6. /\ ckpt' = ckpt \cup {c} /\ conv' \in {conv, Append(conv, turns + 1)}
      /\ Filed(ckpt', ckptDisk')
  <2>1. Filed(ckpt, ckptDisk)
    BY <1>4 DEF Whole
  <2>2. CASE Ended(c)
    <3>1. /\ ckpt' = ckpt \cup {c} /\ conv' \in {conv, Append(conv, turns + 1)}
          /\ c.saved => c \in ckptDisk'
      BY <2>2 DEF Ended, Over
    <3>2. PICK d : d.turn = c.turn /\ ckptDisk' \in {ckptDisk, Over({d}, ckptDisk)}
      BY <2>2 DEF Ended
    <3>3. \A e \in ckpt : e.saved => e \in ckptDisk'
      BY <1>3, <2>1, <3>2 DEF Filed, Over, TurnsOf
    <3> QED
      BY <3>1, <3>3 DEF Filed
  <2>3. CASE Died(c)
    <3>1. ckptDisk = ckpt /\ convDisk = conv
      <4>1. Resumable
        BY <2>3 DEF Died
      <4>2. BackedUp = {}
        BY <1>1 DEF BackedUp, NoManifestCommitting
      <4> QED
        BY <1>1, <4>1, <4>2 DEF Resumable, Leftover, Lost
    <3> QED
      BY <1>5, <2>3, <3>1 DEF Died, Filed
  <2> QED
    BY <2>2, <2>3
<1>7. InOrder(ckpt')
  <2>1. InOrder(ckpt)
    BY <1>4 DEF Whole, Tells
  <2>2. c.turn \in Nat /\ c.began \in Nat
    BY <1>1, <1>2
  <2> QED
    BY <1>3, <1>6, <2>1, <2>2 DEF InOrder
<1>8. Dated(ckpt', conv) /\ \A i \in DOMAIN conv : \E d \in ckpt' : d.began = conv[i]
  <2>1. Dated(ckpt, conv) /\ Covered(ckpt, conv)
    BY <1>4 DEF Whole, Tells
  <2>2. Dated({c}, conv)
    BY <1>1, <1>2 DEF Dated
  <2>3. Dated(ckpt', conv)
    BY <1>6, <2>1, <2>2 DEF Dated
  <2>4. \A i \in DOMAIN conv : \E d \in ckpt' : d.began = conv[i]
    BY <1>6, <2>1 DEF Covered
  <2> QED
    BY <2>3, <2>4
<1>9. Dated(ckpt', conv') /\ Covered(ckpt', conv')
  <2>1. CASE conv' = conv
    BY <1>8, <2>1 DEF Covered
  <2>2. CASE conv' = Append(conv, turns + 1)
    <3>1. /\ Len(conv') = Len(conv) + 1 /\ DOMAIN conv' = 1..(Len(conv) + 1)
          /\ conv'[Len(conv) + 1] = turns + 1
          /\ \A i \in 1..Len(conv) : conv'[i] = conv[i]
      <4>1. /\ conv' \in Seq(Nat) /\ Len(conv') = Len(conv) + 1 /\ conv'[Len(conv) + 1] = turns + 1
            /\ \A i \in 1..Len(conv) : conv'[i] = conv[i]
        BY <1>2, <2>2, AppendProperties
      <4> QED
        BY <4>1, LenProperties
    <3>2. ASSUME NEW d \in ckpt'
          PROVE  /\ d.boundary <= Len(conv')
                 /\ \A i \in DOMAIN conv' : i > d.boundary <=> conv'[i] >= d.began
      <4>1. /\ d.boundary <= Len(conv) /\ d.boundary \in Nat /\ d.began \in Nat
            /\ d.began <= turns + 1
            /\ \A i \in 1..Len(conv) : i > d.boundary <=> conv[i] >= d.began
        <5>1. d.boundary \in Nat /\ d.began \in Nat /\ d.began <= turns + 1
          BY <1>1, <1>2, <1>3, <1>6, <3>2 DEF Checkpoint
        <5> QED
          BY <1>2, <1>8, <3>2, <5>1 DEF Dated
      <4>2. Len(conv) + 1 > d.boundary /\ turns + 1 >= d.began
        BY <1>2, <4>1
      <4>3. \A i \in DOMAIN conv' : i \in 1..Len(conv) \/ i = Len(conv) + 1
        BY <1>2, <3>1
      <4>4. d.boundary <= Len(conv')
        BY <1>2, <3>1, <4>1
      <4> QED
        BY <3>1, <4>1, <4>2, <4>3, <4>4
    <3>3. ASSUME NEW i \in DOMAIN conv' PROVE \E d \in ckpt' : d.began = conv'[i]
      <4>1. CASE i = Len(conv) + 1
        BY <1>1, <1>6, <3>1, <4>1
      <4>2. CASE i # Len(conv) + 1
        <5>1. i \in 1..Len(conv)
          BY <1>2, <3>1, <4>2
        <5> QED
          BY <1>2, <1>8, <3>1, <5>1
      <4> QED
        BY <4>1, <4>2
    <3> QED
      BY <3>2, <3>3 DEF Dated, Covered
  <2> QED
    BY <1>6, <2>1, <2>2
<1>10. Whole'
  BY <1>6, <1>7, <1>9 DEF Whole, Tells
<1> QED
  BY <1>1, <1>3, <1>4, <1>6, <1>10

\* A turn is later than every rewind; a crash or a restart finds the checkpoint files
\* of what was listed, or those a rewriting step was at.
LEMMA EnvironmentListed ==
  ASSUME JInv, LInv, OInv, TInv, KInv, Kept, orderly, orderly', UndoCandidates' = UndoCandidates,
         Environment
  PROVE  KInv'
<1>1. /\ UNCHANGED txs /\ pc' \in {"idle", "down"}
      /\ BackupsSound /\ Listed /\ Stacked
      /\ ckpt \subseteq Checkpoint /\ ckptDisk \subseteq Checkpoint
  BY DEF Environment, Turn, BlockedTurn, BrokenTurn, ExternalEdit, Crash, Shutdown, Stop, control,
     KInv, JInv, CInv, IInv, SessionOK
<1>2. /\ ListedInHand' /\ BackupsSound' /\ pc' \notin InFlight
      /\ \A n \in DOMAIN txs' : /\ Unsettled(n)' => n \in DOMAIN txs /\ Unsettled(n)
                                /\ Rewriting(n)' <=> Rewriting(n)
                                /\ Active(n)' => Active(n)
  BY <1>1, SoundKept DEF ListedInHand, Forward, InFlight, Working, Unsettled, Rewriting, Active
<1>3. ASSUME AnyTurn PROVE KInv'
  <2> PICK c \in Checkpoint :
        /\ NoManifestCommitting /\ turns' = turns + 1 /\ Whole'
    BY <1>3, OrderlyTurn DEF JInv, CInv, LInv
  <2>1. /\ turns \in Nat
        /\ \A n \in DOMAIN txs : ~Unsettled(n) /\ txs[n].when <= turns /\ txs[n].when \in Nat
    BY BoundsAssumption, Numbered DEF NoManifestCommitting, Unsettled, LInv, Heard, JInv, CInv, Manifest,
       IInv, CountersOK
  <2>2. Listed'
    BY <1>1, <1>2, <2>1 DEF Listed, Active, Unsettled
  <2>3. /\ \A i \in UndoCandidates : i \in DOMAIN txs /\ txs[i].when # turns'
        /\ \A i, j \in UndoCandidates : i < j /\ txs[i].when = txs[j].when =>
             \A d \in txs[j].backup : Beneath(d, txs[i])
    BY <1>1, <2>1 DEF Stacked, UndoCandidates
  <2>4. Stacked'
    BY <1>1, <2>3 DEF Stacked, Beneath
  <2> QED
    BY <1>2, <2>2, <2>4 DEF KInv
<1>4. ASSUME NEW f, NEW image, ExternalEdit(f, image) PROVE KInv'
  <2>1. UNCHANGED <<conv, checkpoints, turns>>
    BY <1>4 DEF ExternalEdit, session
  <2>2. Listed' /\ Stacked'
    BY <1>1, <1>2, <2>1, StillListed DEF Unsettled
  <2> QED
    BY <1>2, <2>2 DEF KInv
<1>5. CASE Crash \/ Shutdown
  <2> PICK files : Stop(files) /\ files \subseteq HalfDone \cup {ckptDisk}
    BY <1>5 DEF Crash, Shutdown
  <2>1. /\ ckptDisk' \in HalfDone \cup {ckptDisk} /\ ckpt' = ckptDisk' /\ conv' = convDisk
        /\ turns' = turns /\ Resumable
    BY DEF Stop
  <2> PICK d : d = ckptDisk'
    OBVIOUS
  <2>2. /\ ckptDisk \subseteq ckpt \cup BackedUp /\ ckpt \subseteq ckptDisk \cup BackedUp
        /\ pc = "idle" => convDisk = conv
    BY <2>1 DEF Resumable, Leftover, Lost
  <2>3. \A x \in BackedUp : \E n \in DOMAIN txs : Unsettled(n) /\ Rewriting(n) /\ x \in txs[n].backup
    BY <1>1 DEF BackedUp, Unsettled, Rewriting, BackupsSound, Sound
  <2>4. pc \in {"ckpts", "stateCkpt"} /\ WantsConversation(M.scope) =>
          /\ Sound(M) /\ M \in Manifest /\ cur \in DOMAIN txs /\ Rewriting(cur)
          /\ M.turn = txs[cur].turn /\ M.backup = txs[cur].backup
    <3> SUFFICES ASSUME pc \in {"ckpts", "stateCkpt"}, WantsConversation(M.scope)
                 PROVE  /\ Sound(M) /\ M \in Manifest /\ cur \in DOMAIN txs /\ Rewriting(cur)
                        /\ M.turn = txs[cur].turn /\ M.backup = txs[cur].backup
      OBVIOUS
    <3>1. /\ pc \in InFlight /\ pc \in Journalled
          /\ cur \in DOMAIN txs /\ M \in Manifest /\ SameData(M, txs[cur])
      BY InHandEnds DEF InFlight, Working, Forward, Journalled
    <3>2. txs[cur].state = "committing"
      BY <3>1 DEF JInv, MInv, InStep
    <3> QED
      BY <1>1, <3>1, <3>2, SameCheckpoints DEF BackupsSound, Rewriting, Unsettled, SameData
  <2>5. \/ d = ckptDisk
        \/ /\ pc \in {"ckpts", "stateCkpt"} /\ WantsConversation(M.scope)
           /\ Below(d, M.turn) = Below(ckptDisk, M.turn)
           /\ Above(d, M.turn) \subseteq Above(ckptDisk, M.turn) \cup M.backup
    BY <1>1, <2>1, <2>4, HalfDoneParted
  <2>6. ASSUME \A n \in DOMAIN txs' : ~Rewriting(n)' PROVE Whole'
    <3>1. \A n \in DOMAIN txs : ~Rewriting(n)
      BY <1>1, <1>2, <2>6
    <3>2. ckptDisk = ckpt /\ d = ckptDisk
      BY <2>2, <2>3, <2>4, <2>5, <3>1
    <3>3. conv = convDisk
      <4>1. CASE \E n \in DOMAIN txs : Unsettled(n)
        BY <3>1, <4>1 DEF TInv, AtAnEnd, Ends, Before, After, Rewound, Rewriting
      <4>2. CASE \A n \in DOMAIN txs : ~Unsettled(n)
        BY <2>2, <4>2 DEF TInv, AtAnEnd, NoManifestCommitting, Unsettled
      <4> QED
        BY <4>1, <4>2
    <3> QED
      BY <1>1, <2>1, <3>1, <3>2, <3>3 DEF Listed, Whole, Filed
  <2>7. ASSUME NEW n \in DOMAIN txs', Active(n)' PROVE Parted(txs[n])'
    <3>1. n \in DOMAIN txs /\ Unsettled(n) /\ WantsConversation(txs[n].scope) /\ Active(n)
      BY <1>1, <1>2, <2>7 DEF Active, Unsettled
    <3>2. /\ Parted(txs[n]) /\ Sound(txs[n])
          /\ \A c \in txs[n].backup : c.turn >= txs[n].turn
          /\ \A i \in DOMAIN txs : Unsettled(i) => i = n
      <4>1. Sound(txs[n])
        BY <1>1, <3>1 DEF BackupsSound, Unsettled
      <4> QED
        BY <1>1, <3>1, <4>1 DEF Listed, Sound, OInv, Alone
    <3>3. txs[n].turn \in Nat /\ txs[n].backup \in SUBSET Checkpoint
      BY <3>1, Numbered DEF JInv, CInv, Manifest
    <3>4. BackedUp \subseteq txs[n].backup
      BY <2>3, <3>2
    <3>5. /\ \A c \in ckptDisk : c.turn \in Nat
          /\ \A c \in ckpt : c.turn \in Nat
      BY <1>1 DEF Checkpoint
    <3>6. /\ \A c \in ckptDisk : c \in ckpt \/ c \in txs[n].backup
          /\ \A c \in ckpt : c \in ckptDisk \/ c \in txs[n].backup
      BY <2>2, <3>4
    <3>7. Below(ckptDisk, txs[n].turn) = Below(ckpt, txs[n].turn)
      BY <3>2, <3>3, <3>5, <3>6 DEF Below
    <3>8. Above(ckptDisk, txs[n].turn) \subseteq txs[n].backup
      BY <3>2, <3>6 DEF Parted, Above
    <3>9. Below(d, txs[n].turn) = Below(ckpt, txs[n].turn) /\ Above(d, txs[n].turn) \subseteq txs[n].backup
      <4>1. CASE d = ckptDisk
        BY <3>7, <3>8, <4>1
      <4>2. CASE d # ckptDisk
        <5>1. n = cur /\ M.turn = txs[n].turn /\ M.backup = txs[n].backup
          BY <2>4, <2>5, <3>2, <4>2 DEF Rewriting
        <5> QED
          BY <2>5, <3>7, <3>8, <4>2, <5>1
      <4> QED
        BY <4>1, <4>2
    <3>10. Filed(Below(d, txs[n].turn), d)
      BY DEF Filed, Below
    <3> QED
      BY <1>1, <2>1, <3>2, <3>9, <3>10 DEF Parted
  <2>8. Listed'
    BY <2>6, <2>7 DEF Listed
  <2>9. \A c \in ckpt' : c \in ckpt \/ \E n \in DOMAIN txs : Rewriting(n) /\ c \in txs[n].backup
    <3>1. \A c \in ckptDisk : c \in ckpt \/ \E n \in DOMAIN txs : Rewriting(n) /\ c \in txs[n].backup
      BY <2>2, <2>3
    <3>2. CASE d = ckptDisk
      BY <2>1, <3>1, <3>2
    <3>3. CASE d # ckptDisk
      <4>1. \A c \in d : c \in ckptDisk \/ c \in M.backup
        <5>1. \A c \in d : c.turn \in Nat
          BY <2>1, StopStep, <1>5 DEF JInv, CInv, IInv, SessionOK, Checkpoint, Crash, Shutdown
        <5>2. M.turn \in Nat
          BY <2>4, <2>5, <3>3 DEF Manifest
        <5>3. \A c \in d : c \in Below(d, M.turn) \/ c \in Above(d, M.turn)
          BY <5>1, <5>2 DEF Below, Above
        <5> QED
          BY <2>5, <3>3, <5>3 DEF Below, Above
      <4>2. cur \in DOMAIN txs /\ Rewriting(cur) /\ M.backup = txs[cur].backup
        BY <2>4, <2>5, <3>3
      <4> QED
        BY <2>1, <3>1, <4>1, <4>2
    <3> QED
      BY <3>2, <3>3
  <2>10. Stacked'
    BY <1>1, <1>2, <2>1, <2>9, StackedKept
  <2> QED
    BY <1>2, <2>8, <2>10 DEF KInv
<1> QED
  BY <1>3, <1>4, <1>5 DEF Environment, AnyTurn

\* What a rewind saves are the checkpoints it is going to drop.
LEMMA RewindSound ==
  ASSUME IInv, Whole, NEW t \in TurnsOf(ckpt), NEW scope \in Scopes
  PROVE  LET m == RewindManifest(t, scope)
         IN /\ Sound(m) /\ m.backup \subseteq ckpt
            /\ WantsConversation(scope) => Parted(m) /\ FromHere(m, TRUE)
<1> DEFINE m == RewindManifest(t, scope)
<1>1. /\ m.scope = scope /\ m.turn = t /\ m.forward = conv
      /\ m.boundary = CheckpointOf(t).boundary
      /\ m.backup = IF WantsConversation(scope) THEN CheckpointsFrom(t) ELSE {}
  BY DEF RewindManifest
<1> HIDE DEF m
<1>2. /\ ckpt \in SUBSET Checkpoint /\ t \in Nat /\ \A i \in DOMAIN conv : conv[i] \in Nat
      /\ \A c \in ckpt : c.turn \in Nat /\ c.began \in Nat
  BY ElementOfSeq, LenProperties DEF IInv, SessionOK, Checkpoint, TurnsOf
<1> PICK o : o = CheckpointOf(t)
  OBVIOUS
<1>3. o \in ckpt /\ o.turn = t
  BY DEF CheckpointOf, TurnsOf
<1>4. /\ Dated(ckpt, conv) /\ Covered(ckpt, conv) /\ InOrder(ckpt) /\ Filed(ckpt, ckptDisk)
  BY DEF Whole, Tells
<1>5. CheckpointsFrom(t) \subseteq ckpt /\ Above(ckpt, t) = CheckpointsFrom(t)
      /\ Below(ckpt, t) \cup CheckpointsFrom(t) = ckpt
  BY <1>2 DEF CheckpointsFrom, Above, Below
<1>6. ASSUME NEW i \in DOMAIN conv, i > o.boundary
      PROVE  \E c \in CheckpointsFrom(t) : c.began = conv[i]
  <2>1. conv[i] >= o.began
    BY <1>3, <1>4, <1>6 DEF Dated
  <2>2. PICK c \in ckpt : c.began = conv[i]
    BY <1>4 DEF Covered
  <2>3. ~(c.turn < t)
    BY <1>2, <1>3, <1>4, <2>1, <2>2 DEF InOrder
  <2>4. c.turn >= t
    BY <1>2, <2>3
  <2> QED
    BY <2>2, <2>4 DEF CheckpointsFrom
<1>7. Dated(CheckpointsFrom(t), conv) /\ InOrder(CheckpointsFrom(t))
  BY <1>4, <1>5 DEF Dated, InOrder
<1>8. o \in CheckpointsFrom(t) /\ \A c \in CheckpointsFrom(t) : c.turn >= t
  BY <1>2, <1>3 DEF CheckpointsFrom
<1>9. Sound(m)
  BY <1>1, <1>3, <1>6, <1>7, <1>8 DEF Sound
<1>10. ASSUME WantsConversation(scope) PROVE Parted(m) /\ FromHere(m, TRUE)
  <2>1. m.backup = CheckpointsFrom(t)
    BY <1>1, <1>10
  <2>2. Filed(Below(ckpt, t), ckptDisk)
    BY <1>4 DEF Filed, Below
  <2> QED
    BY <1>1, <1>4, <1>5, <2>1, <2>2 DEF Parted, FromHere, Tells
<1> QED
  BY <1>1, <1>5, <1>9, <1>10 DEF m

\* A new manifest, when nothing is committing: its checkpoints are those it will
\* take away or bring back, above all that later ones dropped.
LEMMA NewListed ==
  ASSUME JInv, LInv, KInv, orderly, NoManifestCommitting, NEW m \in Manifest, Asked(m),
         m.kind = "undo" => Top(lastUndo) /\ conv = Rewound(m), m.when = turns
  PROVE  /\ Sound(m)
         /\ WantsConversation(m.scope) => Parted(m) /\ FromHere(m, m.kind = "rewind")
         /\ \A i \in UndoCandidates :
              txs[i].when = turns /\ ~(m.kind = "undo" /\ m.parent = i) =>
                \A c \in m.backup : Beneath(c, txs[i])
<1>1. /\ IInv /\ BackupsSound /\ Stacked /\ \A n \in DOMAIN txs : ~Rewriting(n)
      /\ ckpt \subseteq Checkpoint
  BY DEF JInv, CInv, IInv, SessionOK, KInv, Rewriting, NoManifestCommitting, Unsettled
<1>2. Whole
  BY <1>1 DEF KInv, Listed
<1>3. \A i \in UndoCandidates : txs[i].when = turns => \A c \in ckpt : Beneath(c, txs[i])
  BY <1>1 DEF Stacked
<1>4. ASSUME NEW t, NEW scope, Rewinds(m, t, scope)
      PROVE  /\ Sound(m) /\ m.backup \subseteq ckpt /\ m.kind = "rewind"
             /\ WantsConversation(m.scope) => Parted(m) /\ FromHere(m, TRUE)
  <2> DEFINE o == RewindManifest(t, scope)
  <2>1. t \in TurnsOf(ckpt) /\ scope \in Scopes /\ o \in Manifest /\ SameButState(m, o)
    BY <1>1, <1>4, RewindManifestFacts DEF Rewinds
  <2>2. o.scope = scope /\ o.kind = "rewind"
    BY DEF RewindManifest
  <2>3. /\ Sound(o) /\ o.backup \subseteq ckpt
        /\ WantsConversation(scope) => Parted(o) /\ FromHere(o, TRUE)
    BY <1>1, <1>2, <2>1, RewindSound
  <2> HIDE DEF o
  <2>4. SameData(m, o)
    BY <2>1, ButState DEF SameData
  <2> QED
    BY <2>2, <2>3, <2>4, SameCheckpoints DEF SameData
<1>5. ASSUME NEW f, Reverts(m, f)
      PROVE  Sound(m) /\ m.backup = {} /\ ~WantsConversation(m.scope)
  <2>1. m.scope = "file" /\ m.backup = {}
    BY <1>1, <1>5, FileRevertManifestFacts, ButState DEF Reverts, FileRevertManifest
  <2> QED
    BY <2>1 DEF Sound, WantsConversation
<1>6. ASSUME Undoes(m)
      PROVE  /\ Sound(m) /\ m.kind = "undo"
             /\ WantsConversation(m.scope) => Parted(m) /\ FromHere(m, FALSE)
             /\ \A i \in UndoCandidates :
                  txs[i].when = turns /\ m.parent # i => \A c \in m.backup : Beneath(c, txs[i])
  <2>1. m.kind = "undo"
    <3>1. UndoManifest(lastUndo) \in Manifest /\ lastUndo \in DOMAIN txs /\ txs[lastUndo] \in Manifest
      BY <1>1, <1>6, UndoManifestFacts, Numbered DEF Undoes, UndoAllowed, IInv, ManifestsOK
    <3>2. UndoManifest(lastUndo).kind = "undo"
      BY <3>1 DEF UndoManifest, Manifest
    <3> QED
      BY <1>6, <3>1, <3>2, ButState DEF Undoes
  <2>2. /\ lastUndo \in DOMAIN txs /\ m.parent = lastUndo /\ txs[lastUndo].state = "committed"
        /\ m.scope = txs[lastUndo].scope /\ m.turn = txs[lastUndo].turn
        /\ m.boundary = txs[lastUndo].boundary /\ m.forward = txs[lastUndo].forward
        /\ m.when = txs[lastUndo].when /\ m.backup = txs[lastUndo].backup
    BY <1>1, <2>1, AskedFacts
  <2> PICK p \in DOMAIN txs : p = lastUndo
    BY <2>2
  <2>3. Sound(txs[p]) /\ Top(p) /\ p \in UndoCandidates /\ p \in Nat
    BY <1>1, <2>1, <2>2, Numbered DEF BackupsSound, Top
  <2>4. Sound(m) /\ \A c : (Beneath(c, m) <=> Beneath(c, txs[p]))
    BY <2>2, <2>3 DEF Sound, Beneath
  <2>5. WantsConversation(m.scope) => Parted(m) /\ FromHere(m, FALSE)
    <3>1. \A c \in ckpt : Beneath(c, m)
      BY <1>3, <2>2, <2>3, <2>4
    <3> QED
      BY <1>1, <1>2, <2>1, <2>4, <3>1, WholeParted
  <2>6. ASSUME NEW i \in UndoCandidates, txs[i].when = turns, m.parent # i
        PROVE  \A c \in m.backup : Beneath(c, txs[i])
    <3>1. i < p
      BY <2>2, <2>3, <2>6, Numbered DEF Top, UndoCandidates, JInv, CInv
    <3> QED
      BY <1>1, <2>2, <2>3, <2>6, <3>1 DEF Stacked
  <2> QED
    BY <2>1, <2>4, <2>5, <2>6
<1>7. CASE \E t, scope : Rewinds(m, t, scope)
  BY <1>3, <1>4, <1>7 DEF FromHere
<1>8. CASE \E f : Reverts(m, f)
  BY <1>5, <1>8
<1>9. CASE Undoes(m)
  BY <1>6, <1>9 DEF FromHere
<1> QED
  BY <1>7, <1>8, <1>9 DEF Asked

\* A new transaction, or one that failed to begin.
LEMMA RequestListed ==
  ASSUME JInv, LInv, TInv', KInv, Kept, orderly, orderly', UndoCandidates' = UndoCandidates,
         Request
  PROVE  KInv'
<1> PICK m \in Manifest :
      /\ txs' = Append(txs, m) /\ Adds(m) /\ Asked(m)
      /\ \/ m.kind = "rewind" /\ m.when = turns
         \/ m.kind = "undo" /\ lastUndo \in DOMAIN txs /\ Top(lastUndo)
      /\ pc = "idle" /\ UNCHANGED <<conv, turns>>
      /\ \/ pc' = "prepared" /\ mem' = <<m>> /\ cur' = Len(txs) + 1
            /\ (orderly' => NoManifestCommitting /\ m.when = turns)
         \/ pc' = "idle"
  BY NewManifest
<1>1. /\ BackupsSound /\ Listed /\ Stacked
      /\ UNCHANGED checkpoints /\ m.state \in {"prepared", "aborted"}
  BY DEF KInv, Adds, session
<1> PICK k : k = Len(txs) + 1
  OBVIOUS
<1>2. /\ DOMAIN txs' = DOMAIN txs \cup {k} /\ txs'[k] = m
      /\ \A i \in DOMAIN txs : txs'[i] = txs[i]
      /\ k \notin DOMAIN txs
  BY AppendedLast DEF JInv, CInv
<1>3. ASSUME m.kind = "undo", NoManifestCommitting, m.when = turns, pc' = "prepared"
      PROVE  conv = Rewound(m)
  <2>1. M' = m /\ conv' = conv
    BY <1>3 DEF M
  <2>2. conv' = Before(m)
    BY <1>3, <2>1 DEF TInv, AtTheEnd, BothAt, Forward
  <2> QED
    BY <1>3, <2>1, <2>2 DEF Before
<1>4. ASSUME pc' = "prepared"
      PROVE  /\ Sound(m)
             /\ WantsConversation(m.scope) => Parted(m) /\ FromHere(m, m.kind = "rewind")
             /\ \A i \in UndoCandidates :
                  txs[i].when = turns /\ ~(m.kind = "undo" /\ m.parent = i) =>
                    \A c \in m.backup : Beneath(c, txs[i])
  BY <1>3, <1>4, NewListed
<1>5. m.state # "aborted" => Sound(m)
  <2>1. CASE m.kind = "undo"
    <3> PICK p \in DOMAIN txs : p = lastUndo /\ p \in UndoCandidates
      BY <2>1 DEF Top
    <3>1. Sound(txs[p])
      BY <1>1 DEF BackupsSound, UndoCandidates
    <3>2. /\ m.scope = txs[p].scope /\ m.turn = txs[p].turn
          /\ m.boundary = txs[p].boundary /\ m.forward = txs[p].forward
          /\ m.backup = txs[p].backup
      BY <2>1, AskedFacts DEF JInv, CInv
    <3> QED
      BY <3>1, <3>2 DEF Sound
  <2>2. CASE m.kind = "rewind" /\ m.state # "aborted"
    <3>1. NoManifestCommitting /\ m.when = turns
      BY <2>2 DEF Adds
    <3> QED
      BY <2>2, <3>1, NewListed
  <2> QED
    BY <1>1, <2>1, <2>2
<1>6. BackupsSound'
  BY <1>1, <1>2, <1>5 DEF BackupsSound
<1>7. /\ \A n \in DOMAIN txs' : Unsettled(n)' <=> n \in DOMAIN txs /\ Unsettled(n)
      /\ \A n \in DOMAIN txs' : Rewriting(n)' <=> n \in DOMAIN txs /\ Rewriting(n)
      /\ \A n \in DOMAIN txs : Active(n)' => Active(n)
      /\ Active(k)' => pc' = "prepared" /\ WantsConversation(m.scope)
  <2>1. \A n \in DOMAIN txs' : Unsettled(n)' <=> n \in DOMAIN txs /\ Unsettled(n)
    BY <1>1, <1>2 DEF Unsettled
  <2>2. \A n \in DOMAIN txs' : Rewriting(n)' <=> n \in DOMAIN txs /\ Rewriting(n)
    BY <1>2, <2>1 DEF Rewriting
  <2>3. \A n \in DOMAIN txs : Active(n)' => Active(n)
    BY <1>2, <2>1 DEF Active, InFlight, Working, Forward
  <2>4. Active(k)' => pc' = "prepared" /\ WantsConversation(m.scope)
    BY <1>2, <2>1 DEF Active, InFlight, Working, Forward
  <2> QED
    BY <2>1, <2>2, <2>3, <2>4
<1>8. /\ ckpt' = ckpt /\ ckptDisk' = ckptDisk /\ conv' = conv /\ turns' = turns
      /\ Whole' <=> Whole
      /\ \A x : FromHere(m, x)' <=> FromHere(m, x)
  BY <1>1 DEF checkpoints, Whole, FromHere
<1>9. Listed'
  <2>1. ASSUME \A n \in DOMAIN txs' : ~Rewriting(n)' PROVE Whole'
    BY <1>1, <1>2, <1>7, <1>8, <2>1 DEF Listed
  <2>2. ASSUME NEW n \in DOMAIN txs', Active(n)' PROVE Parted(txs[n])'
    <3>1. CASE n \in DOMAIN txs
      <4>1. Parted(txs[n]) /\ txs'[n] = txs[n]
        BY <1>1, <1>2, <1>7, <2>2, <3>1 DEF Listed
      <4> QED
        BY <1>8, <4>1 DEF Parted
    <3>2. CASE n = k
      <4>1. Parted(m) /\ txs'[n] = m
        BY <1>2, <1>4, <1>7, <2>2, <3>2
      <4> QED
        BY <1>8, <4>1 DEF Parted
    <3> QED
      BY <1>2, <3>1, <3>2
  <2> QED
    BY <2>1, <2>2 DEF Listed
<1>10. ListedInHand'
  <2>1. CASE pc' = "idle"
    BY <2>1 DEF ListedInHand, Forward
  <2>2. CASE pc' = "prepared" /\ mem' = <<m>>
    <3>1. M' = m
      BY <2>2 DEF M
    <3> QED
      BY <1>4, <1>8, <2>2, <3>1 DEF ListedInHand, Forward
  <2> QED
    BY <2>1, <2>2
<1>11. Stacked'
  <2> SUFFICES ASSUME NEW i \in UndoCandidates
               PROVE  /\ txs'[i].when = turns => \A c \in ckpt :
                           Beneath(c, txs'[i])
                           \/ \E n \in DOMAIN txs' : Rewriting(n)' /\ c \in txs'[n].backup
                      /\ \A j \in UndoCandidates : i < j /\ txs'[i].when = txs'[j].when =>
                           \A c \in txs'[j].backup : Beneath(c, txs'[i])
                      /\ txs'[i].when = turns => \A n \in DOMAIN txs' :
                           Active(n)' /\ ~(txs'[n].kind = "undo" /\ txs'[n].parent = i) =>
                             \A c \in txs'[n].backup : Beneath(c, txs'[i])
    BY <1>8 DEF Stacked, Beneath
  <2>1. \A j \in UndoCandidates : j \in DOMAIN txs /\ txs'[j] = txs[j]
    BY <1>2 DEF UndoCandidates
  <2>2. ASSUME txs'[i].when = turns, NEW c \in ckpt
        PROVE  Beneath(c, txs'[i]) \/ \E n \in DOMAIN txs' : Rewriting(n)' /\ c \in txs'[n].backup
    <3>1. Beneath(c, txs[i]) \/ \E n \in DOMAIN txs : Rewriting(n) /\ c \in txs[n].backup
      BY <1>1, <2>1, <2>2 DEF Stacked
    <3> QED
      BY <1>2, <1>7, <2>1, <3>1
  <2>3. \A j \in UndoCandidates : i < j /\ txs'[i].when = txs'[j].when =>
          \A c \in txs'[j].backup : Beneath(c, txs'[i])
    BY <1>1, <2>1 DEF Stacked
  <2>4. ASSUME txs'[i].when = turns, NEW n \in DOMAIN txs', Active(n)',
               ~(txs'[n].kind = "undo" /\ txs'[n].parent = i)
        PROVE  \A c \in txs'[n].backup : Beneath(c, txs'[i])
    <3>1. CASE n \in DOMAIN txs
      BY <1>1, <1>2, <1>7, <2>1, <2>4, <3>1 DEF Stacked
    <3>2. CASE n = k
      BY <1>2, <1>4, <1>7, <2>1, <2>4, <3>2
    <3> QED
      BY <1>2, <3>1, <3>2
  <2> QED
    BY <2>2, <2>3, <2>4
<1> QED
  BY <1>6, <1>9, <1>10, <1>11 DEF KInv

\* Every step keeps the checkpoints in line with the conversation.
LEMMA NextListed == JInv /\ LInv /\ OInv /\ TInv /\ KInv /\ [Next]_vars => KInv'
<1> SUFFICES ASSUME JInv, LInv, OInv, TInv, KInv, [Next]_vars, orderly' PROVE KInv'
  BY DEF KInv
<1>1. Kept /\ orderly /\ TInv'
  BY NextKept, OrderlyBefore, NextTranscript DEF JInv
<1>2. CASE Finalize
  BY <1>1, <1>2, FinalizeListed
<1>3. CASE ~Finalize
  <2>1. UndoCandidates' = UndoCandidates
    BY <1>3, CandidatesKept
  <2>2. CASE Environment
    BY <1>1, <2>1, <2>2, EnvironmentListed
  <2>3. CASE Request
    BY <1>1, <2>1, <2>3, RequestListed
  <2>4. CASE Commit
    BY <1>1, <1>3, <2>1, <2>4, BeginCommitListed, ForwardListed, CommitCheckpointsListed,
       RecoveryListed DEF Commit
  <2>5. CASE Recover
    BY <1>1, <2>1, <2>5, BackListed, CompensateCheckpointsListed, VerdictListed, RecoveryListed
       DEF Recover
  <2>6. CASE UNCHANGED vars
    <3>1. UNCHANGED <<conv, ckpt, ckptDisk, txs, pc, mem, cur, stateErr, turns>>
      BY <2>6 DEF vars, session, control, checkpoints, counters
    <3>2. BackupsSound /\ Listed /\ ListedInHand /\ Stacked
      BY <1>1 DEF KInv
    <3>3. BackupsSound'
      BY <3>1, <3>2 DEF BackupsSound
    <3>4. /\ \A n : Rewriting(n)' <=> Rewriting(n)
          /\ \A n : Active(n)' <=> Active(n)
      BY <3>1 DEF Rewriting, Active, Unsettled
    <3>5. Listed'
      BY <3>1, <3>2, <3>4 DEF Listed, Whole, Parted
    <3>6. ListedInHand'
      BY <3>1, <3>2 DEF ListedInHand, FromHere, M
    <3>7. Stacked'
      BY <2>1, <3>1, <3>2, <3>4 DEF Stacked, Beneath
    <3> QED
      BY <3>3, <3>5, <3>6, <3>7 DEF KInv
  <2> QED
    BY <2>2, <2>3, <2>4, <2>5, <2>6 DEF Next
<1> QED
  BY <1>2, <1>3

\* In every orderly history every rewind that was not given up has saved the
\* checkpoints it drops, those above all that are left, and the listed ones are those
\* of the conversation but for a manifest that is committing; however turns end.
THEOREM OrderlyCheckpoints == Spec => [](JInv /\ LInv /\ OInv /\ TInv /\ KInv)
<1>1. Init => KInv
  <2> SUFFICES ASSUME Init PROVE KInv
    OBVIOUS
  <2>1. DOMAIN txs = {} /\ conv = <<>> /\ ckpt = {} /\ pc = "idle"
    BY DEF Init
  <2>2. Whole
    BY <2>1 DEF Whole, Tells, Dated, Covered, InOrder, Filed
  <2>3. UndoCandidates = {}
    BY <2>1 DEF UndoCandidates
  <2> QED
    BY <2>1, <2>2, <2>3 DEF KInv, BackupsSound, Listed, ListedInHand, Rewriting, Forward, Stacked
<1>2. JInv /\ LInv /\ OInv /\ TInv /\ KInv /\ [Next]_vars => KInv'
  BY NextListed
<1> QED
  BY <1>1, <1>2, OrderlyTranscripts, PTL DEF Spec

\* The property of the runs, for every number of files, turns, transactions, edits
\* and disturbances: whenever nothing is in flight or pending, the recorded boundaries
\* cut the conversation where their turns began, no message is without the checkpoint
\* of its turn, and what was saved will be found; blocked and broken turns, failed
\* saves and half-done truncations included.
THEOREM CheckpointsMatch == Spec => []CheckpointsMatchConversation
<1>1. KInv => CheckpointsMatchConversation
  <2> SUFFICES ASSUME KInv, orderly, Pending = {}
               PROVE  /\ \A c \in ckpt :
                           /\ c.boundary <= Len(conv)
                           /\ \A i \in DOMAIN conv : i > c.boundary <=> conv[i] >= c.began
                           /\ c.saved => c \in ckptDisk
                      /\ \A i \in DOMAIN conv : \E c \in ckpt : c.began = conv[i]
                      /\ \A c, d \in ckpt : c.turn < d.turn <=> c.began < d.began
    BY DEF CheckpointsMatchConversation
  <2>1. \A n \in DOMAIN txs : ~Rewriting(n)
    BY DEF Pending, Rewriting, Unsettled
  <2>2. Whole
    BY <2>1 DEF KInv, Listed
  <2> QED
    BY <2>2 DEF Whole, Tells, Dated, Covered, InOrder, Filed
<1> QED
  BY <1>1, OrderlyCheckpoints, PTL
-----------------------------------------------------------------------------
(* Orderly histories: one fault is always made good *)

NoErrors == ~stateErr /\ ~compErr

\* Between the two renames the temporary is still there to say so.
TmpLeft(n, f) ==
  disk[f] = Absent /\ txs[n].restore[f] # Absent /\ txs[n].fwd[f] # Absent => tmp[n][f] # Absent

\* The compensation has been there.
Passed(f) ==
  \/ pc \in {"comp", "compMove", "verdict"} /\ f \notin todo
  \/ pc = "compMove" /\ f = at

\* Finitely many files, of which the last one is visited first.
LEMMA FilesBound == \E k \in Nat : \A f \in Files : f <= k
<1> PICK seq \in Seq(Files) : \A f \in Files : \E n \in 1..Len(seq) : seq[n] = f
  BY BoundsAssumption DEF IsFiniteSet
<1>1. Len(seq) \in Nat /\ \A n \in 1..Len(seq) : seq[n] \in Nat
  BY BoundsAssumption, LenProperties, ElementOfSeq
<1> DEFINE B == {k \in 0..Len(seq) : \A b \in Nat : \E n \in 1..k : ~(seq[n] <= b)}
<1>2. B = {}
  <2> SUFFICES ASSUME B # {} PROVE FALSE
    OBVIOUS
  <2>1. B \in SUBSET Nat
    BY <1>1
  <2> DEFINE k == Min(B)
  <2>2. k \in B /\ \A j \in B : k <= j
    BY <2>1, MinFacts
  <2> HIDE DEF k
  <2>3. k \in 0..Len(seq) /\ k \in Nat /\ \A b \in Nat : \E n \in 1..k : ~(seq[n] <= b)
    BY <2>1, <2>2
  <2>4. k # 0
    BY <2>3
  <2>5. k \in 1..Len(seq) /\ k - 1 \in 0..Len(seq) /\ k - 1 \in Nat /\ k - 1 < k
    BY <1>1, <2>3, <2>4
  <2>6. k - 1 \notin B
    <3> HIDE DEF B
    <3> SUFFICES ASSUME k - 1 \in B PROVE FALSE
      OBVIOUS
    <3>1. k <= k - 1
      BY <2>2
    <3> QED
      BY <2>3, <3>1
  <2> PICK b \in Nat : \A n \in 1..(k - 1) : seq[n] <= b
    BY <2>5, <2>6
  <2> HIDE DEF B
  <2>7. seq[k] \in Nat /\ b + seq[k] \in Nat
    BY <1>1, <2>5
  <2>8. \A n \in 1..k : seq[n] <= b + seq[k]
    <3> SUFFICES ASSUME NEW n \in 1..k PROVE seq[n] <= b + seq[k]
      OBVIOUS
    <3>1. n \in 1..Len(seq) /\ seq[n] \in Nat
      BY <1>1, <2>5
    <3>2. CASE n = k
      <4>1. seq[k] <= b + seq[k]
        BY <2>7
      <4> QED
        BY <3>2, <4>1
    <3>3. CASE n # k
      <4>1. n \in 1..(k - 1)
        BY <2>3, <3>3
      <4>2. seq[n] <= b
        BY <4>1
      <4>3. \A x, y \in Nat : x <= b => x <= b + y
        OBVIOUS
      <4> QED
        BY <2>7, <3>1, <4>2, <4>3
    <3> QED
      BY <3>2, <3>3
  <2> QED
    BY <2>3, <2>7, <2>8
<1>3. Len(seq) \in 0..Len(seq)
  BY <1>1
<1>4. \E b \in Nat : \A n \in 1..Len(seq) : seq[n] <= b
  BY <1>2, <1>3
<1> QED
  BY <1>4

\* The file that is visited next is one of those to visit.
LEMMA LastVisited == ASSUME NEW S \in SUBSET Files, S # {} PROVE Max(S) \in S
<1> PICK k \in Nat : \A f \in Files : f <= k
  BY FilesBound
<1>1. S \in SUBSET (0..k)
  BY BoundsAssumption
<1> QED
  BY <1>1, MaxFacts

\* Before the first fault nothing turns back, and after it nothing that turned back
\* or was left committing meets a file it does not recognise.
Undisturbed ==
  disturbed = 0 => pc \notin Backing /\ (pc \notin Forward => NoManifestCommitting)
OnceDisturbed ==
  disturbed = 1 => (pc = "idle" => NoManifestCommitting) /\ (pc \in Backing => NoErrors)
Retraceable ==
  disturbed <= 1 =>
    \A n \in DOMAIN txs : Unsettled(n) =>
      \A f \in txs[n].published : Passed(f) \/ TmpLeft(n, f)

\* After one fault what is left committing is still ahead of the recovery.
Recovering ==
  /\ pc \in {"idle", "down"} => cur = 0
  /\ pc = "scan" => pass # "run"
  /\ pc = "scan" /\ disturbed = 1 =>
       \A n \in DOMAIN txs : Unsettled(n) =>
         n > cur \/ (pass = "filesOnly" /\ WantsConversation(txs[n].scope))

FInv ==
  orderly => /\ pc \notin Backing => NoErrors
             /\ Undisturbed /\ OnceDisturbed /\ Retraceable /\ Recovering

\* On the way to the commit point every published path is in place or staged.
LEMMA ForwardRetraceable ==
  ASSUME JInv, pc \in Forward
  PROVE  \A f \in txs[cur].published : TmpLeft(cur, f)
<1>1. pc \in InFlight
  BY DEF InFlight, Working, Forward
<1>2. M = txs[cur] /\ Waiting(M) /\ InPlace(M)
  BY DEF JInv, CInv, Underway, Progress
<1> QED
  BY <1>2 DEF Waiting, InPlace, InHand, TmpLeft

\* ... and so it is after a step that stays on that way.
LEMMA ForwardRetraceableNext ==
  ASSUME JInv', OInv', orderly', pc' \in Forward
  PROVE  Retraceable'
<1>1. M' = txs'[cur'] /\ Waiting(M)' /\ InPlace(M)'
  BY DEF JInv, CInv, Underway, Progress
<1>2. \A f \in txs'[cur'].published : TmpLeft(cur, f)'
  BY <1>1 DEF Waiting, InPlace, InHand, TmpLeft
<1>3. \A n \in DOMAIN txs' : Unsettled(n)' => n = cur'
  BY DEF OInv, Alone, Working, Forward
<1> QED
  BY <1>2, <1>3 DEF Retraceable, TmpLeft

\* A conversation to be truncated is never shorter than the boundary.
LEMMA LongEnough ==
  ASSUME JInv, KInv, orderly, pc \in InFlight, WantsConversation(M.scope), conv \in Ends(M),
         \E n \in DOMAIN txs : n = cur /\ txs[n].state # "aborted"
  PROVE  ~TooShort
<1> PICK c \in DOMAIN txs : c = cur /\ txs[c].state # "aborted"
  OBVIOUS
<1>1. SameData(M, txs[c]) /\ M \in Manifest
  BY InHandEnds
<1>2. Sound(M)
  BY <1>1, SameCheckpoints DEF KInv, BackupsSound
<1>3. /\ Len(Rewound(M)) = M.boundary /\ M.boundary \in Nat
      /\ Len(M.forward) \in Nat /\ M.boundary <= Len(M.forward)
  BY <1>1, <1>2, RewoundFacts
<1>4. conv \in {Rewound(M), M.forward}
  BY DEF Ends, Before, After
<1> QED
  BY <1>3, <1>4 DEF TooShort

\* A step of the commit goes on, commits, or turns back because of a fault.
LEMMA CommitSettles ==
  ASSUME JInv, OInv, TInv, KInv, FInv, Kept, JInv', OInv', orderly, orderly',
         Commit, ~MarkUndone
  PROVE  FInv'
<1>1. /\ pc \in Forward /\ pc \in InFlight /\ pc \in Working /\ pc \notin Backing
      /\ pc \notin {"down", "scan", "idle"}
  BY DEF Commit, BeginCommit, PersistIntent, BackupTarget, PublishTarget, PersistProgress,
     FilesDone, CommitConversation, CommitCheckpoints, Finalize, Forward, InFlight, Working, Backing
<1>2. NoErrors /\ UNCHANGED <<stateErr, compErr>> /\ disturbed \in Nat
  BY <1>1, BoundsAssumption DEF FInv, Commit, BeginCommit, PersistIntent, BackupTarget,
     PublishTarget, PersistProgress, FilesDone, CommitConversation, CommitCheckpoints, Finalize,
     JInv, CInv, IInv, CountersOK
<1> PICK c \in DOMAIN txs : c = cur
  BY <1>1, InHandEnds
<1>3. \A n \in DOMAIN txs : Unsettled(n) => n = c
  BY <1>1 DEF OInv, Alone
<1>4. \/ Calm /\ pc' \in Forward
      \/ Calm /\ Finalize
      \/ Fault /\ pc' \in {"comp", "stateConv"} /\ UNCHANGED <<txs, tmp>> /\ (UNCHANGED disk \/ PublishTarget)
  <2>1. CASE CommitConversation
    <3>1. pc = "convo" /\ BothAt(Before(M)) /\ (WantsConversation(M.scope) \/ M.kind = "undo")
      BY <2>1 DEF CommitConversation, TInv, AtTheEnd, Forward
    <3>2. M.kind = "rewind" => ~TooShort
      <4> SUFFICES ASSUME M.kind = "rewind" PROVE ~TooShort
        OBVIOUS
      <4>1. txs[c].state = "committing"
        BY <3>1 DEF JInv, MInv, InStep, Journalled, Forward
      <4>2. \E n \in DOMAIN txs : n = cur /\ txs[n].state # "aborted"
        BY <4>1
      <4>3. WantsConversation(M.scope) /\ conv \in Ends(M)
        BY <3>1 DEF BothAt, Ends
      <4> QED
        BY <1>1, <4>2, <4>3, LongEnough
    <3>3. M.kind \in {"rewind", "undo"}
      BY <1>1, InHandEnds
    <3> QED
      BY <2>1, <3>2, <3>3 DEF CommitConversation, Forwards, ForwardsFails, RestoreConversation,
         RestoreFails, TruncateConversation, TruncateFails, CompensateState, Forward, store
  <2>2. CASE BeginCommit \/ PersistIntent
    BY <2>2 DEF BeginCommit, PersistIntent, Persist, PersistFails, Compensate, Forward, store
  <2>3. CASE BackupTarget \/ PublishTarget \/ PersistProgress \/ FilesDone
    BY <2>3 DEF BackupTarget, PublishTarget, PersistProgress, FilesDone, Compensate, Forward, store
  <2>4. CASE CommitCheckpoints \/ Finalize
    BY <2>4 DEF CommitCheckpoints, Finalize, PersistFails, CompensateState, Forward, store
  <2> QED
    BY <2>1, <2>2, <2>3, <2>4 DEF Commit
<1>5. CASE Calm /\ pc' \in Forward
  <2>1. Retraceable'
    BY <1>5, ForwardRetraceableNext
  <2>2. pc' \notin Backing /\ pc' \notin {"idle", "down", "scan"}
    BY <1>5 DEF Backing, InFlight, Working, Forward
  <2> QED
    BY <1>2, <1>5, <2>1, <2>2 DEF FInv, NoErrors, Undisturbed, OnceDisturbed, Recovering
<1>6. CASE Calm /\ Finalize /\ pc' \notin Forward
  <2> DEFINE m == [M EXCEPT !.state = "committed"]
  <2>1. m.state = "committed"
    BY <1>1, InHandEnds, StateData
  <2>2. /\ txs' = [txs EXCEPT ![c] = m] /\ pc' \in {"mark", "idle"} /\ (pc' = "idle" => cur' = 0)
    BY <1>2, <1>6 DEF Finalize, Calm, Fault
  <2> HIDE DEF m
  <2>3. \A n \in DOMAIN txs' : ~Unsettled(n)'
    BY <1>3, <2>1, <2>2 DEF Unsettled
  <2>4. NoManifestCommitting'
    BY <2>3 DEF NoManifestCommitting, Unsettled
  <2>5. pc' \notin Backing /\ pc' \notin {"down", "scan"}
    BY <2>2 DEF Backing, InFlight, Working, Forward
  <2> QED
    BY <1>2, <2>2, <2>3, <2>4, <2>5
       DEF FInv, NoErrors, Undisturbed, OnceDisturbed, Recovering, Retraceable
<1>7. CASE Fault /\ pc' \in {"comp", "stateConv"} /\ UNCHANGED <<txs, tmp>> /\ (UNCHANGED disk \/ PublishTarget)
  <2>1. \A f \in txs[c].published : TmpLeft(c, f)
    BY <1>1, ForwardRetraceable
  <2>2. \A f \in txs[c].published : TmpLeft(c, f)'
    <3>1. CASE UNCHANGED disk
      BY <1>7, <2>1, <3>1 DEF TmpLeft
    <3>2. CASE PublishTarget /\ ~UNCHANGED disk
      <4>1. disk' = [disk EXCEPT ![at] = bak[c][at]] /\ pc = "publish" /\ disk \in Images
        BY <1>2, <1>7, <3>2 DEF PublishTarget, Calm, Fault, JInv, CInv, IInv, StoreOK
      <4>2. bak[c][at] = txs[c].fwd[at]
        BY <1>1, <4>1, InHandFacts DEF JInv, Ahead
      <4>3. \A f \in Files : f # at => disk'[f] = disk[f]
        BY <4>1 DEF Images
      <4>4. at \in Files => disk'[at] = txs[c].fwd[at]
        BY <4>1, <4>2 DEF Images
      <4>5. txs[c].published \subseteq Files
        BY Numbered DEF JInv, CInv, Manifest
      <4> QED
        BY <1>7, <2>1, <4>3, <4>4, <4>5 DEF TmpLeft
    <3> QED
      BY <1>7, <3>1, <3>2
  <2>3. Retraceable'
    BY <1>3, <1>7, <2>2 DEF Retraceable, Unsettled, TmpLeft
  <2>4. disturbed' # 0 /\ pc' \notin {"idle", "down", "scan"}
    BY <1>2, <1>7 DEF Fault
  <2> QED
    BY <1>2, <2>3, <2>4 DEF FInv, NoErrors, Undisturbed, OnceDisturbed, Recovering
<1> QED
  BY <1>4, <1>5, <1>6, <1>7

\* After one fault the compensation knows every file it finds.
LEMMA Recognised ==
  ASSUME JInv, OInv, FInv, orderly, disturbed <= 1, pc = "comp", todo # {},
         NEW f \in Files, f = Max(todo), f \in M.published
  PROVE  AtForward(f) \/ BetweenRenames(f) \/ AtRestore(f)
<1>1. pc \in InFlight
  BY DEF InFlight, Working
<1> PICK c \in DOMAIN txs : c = cur
  BY <1>1, InHandEnds
<1>2. /\ SameData(M, txs[c]) /\ M.published = txs[c].published
      /\ txs[c].state \in {"prepared", "committing"} /\ WellKept(c)
  BY <1>1, InHandFacts DEF JInv, MInv, InStep
<1>3. Unsettled(c)
  BY <1>2 DEF WellKept, Unsettled
<1>4. f \in todo
  BY LastVisited DEF JInv, CInv, IInv, ControlOK
<1>5. TmpLeft(c, f) /\ Placed(c, f)
  BY <1>2, <1>3, <1>4 DEF FInv, Retraceable, Passed, OInv, AllPlaced
<1> QED
  BY <1>2, <1>5 DEF AtForward, BetweenRenames, AtRestore, IsWrite, TmpLeft, Placed, SameData

\* A step back after the first fault records no error, and leaves every path it has
\* not been to as it was.
LEMMA BackSettles ==
  ASSUME JInv, OInv, TInv, KInv, FInv, Kept, orderly, disturbed = 1, Calm,
         CompensateConversation \/ CompensateCheckpoints \/ CompensateFile \/ CompensationDone
  PROVE  NoErrors' /\ Retraceable'
<1>1. /\ pc \in {"stateConv", "stateCkpt", "comp", "compMove"} /\ pc \in InFlight /\ pc \in Backing
      /\ pc \in Working /\ UNCHANGED <<txs, cur, mem>> /\ M' = M
  BY DEF CompensateConversation, CompensateCheckpoints, CompensateFile, CompensateNothing,
     CompensateUnread, CompensateRename, CompensateForeign, CompensateRemove, CompensateMove,
     CompensationDone, Visiting, Visited, Untouched, M, InFlight, Working, Forward, Backing
<1>2. NoErrors /\ Retraceable
  BY <1>1 DEF FInv, OnceDisturbed
<1>3. disturbed \in Nat /\ ~Fault
  BY DEF Calm, Fault
<1> PICK c \in DOMAIN txs : c = cur
  BY <1>1, InHandEnds
<1>4. /\ SameData(M, txs[c]) /\ Ends(M) = Ends(txs[c]) /\ M.kind \in {"rewind", "undo"}
      /\ M.published = txs[c].published /\ M.published \subseteq Files /\ c \in TxIds
  BY <1>1, InHandFacts, InHandEnds DEF JInv
<1>5. \A n \in DOMAIN txs : Unsettled(n) => n = c
  BY <1>1 DEF OInv, Alone
<1>6. ASSUME \A f \in txs[c].published : Passed(f) \/ TmpLeft(c, f) => Passed(f)' \/ TmpLeft(c, f)'
      PROVE  Retraceable'
  <2>1. \A n \in DOMAIN txs : Unsettled(n) => \A f \in txs[n].published : Passed(f)' \/ TmpLeft(n, f)'
    BY <1>2, <1>5, <1>6 DEF Retraceable
  <2> QED
    BY <1>1, <2>1 DEF Retraceable, Unsettled, TmpLeft, Passed
<1>7. CASE CompensateConversation
  <2>1. pc = "stateConv" /\ pc' = "stateCkpt" /\ UNCHANGED <<store, compErr>>
    BY <1>7 DEF CompensateConversation
  <2>2. ~stateErr'
    <3>1. CASE ~WantsConversation(M.scope) /\ (M.kind = "undo" \/ M.scope = "file")
      BY <1>2, <1>7, <3>1 DEF CompensateConversation, NoErrors
    <3>2. CASE M.kind = "rewind"
      BY <1>2, <1>3, <1>7, <3>2 DEF CompensateConversation, NoErrors, Backwards, BackwardsFails,
         RestoreFails, RestoreConversation
    <3>3. CASE M.kind = "undo" /\ WantsConversation(M.scope)
      <4>1. Unsettled(c)
        BY <2>1 DEF JInv, MInv, InStep, Journalled, Unsettled
      <4>2. conv \in Ends(M)
        BY <1>4, <4>1 DEF TInv, AtAnEnd
      <4>3. ~TooShort
        <5>1. \E n \in DOMAIN txs : n = cur /\ txs[n].state # "aborted"
          BY <4>1 DEF Unsettled
        <5> QED
          BY <1>1, <3>3, <4>2, <5>1, LongEnough
      <4> QED
        BY <1>2, <1>3, <1>7, <3>3, <4>3 DEF CompensateConversation, NoErrors, Backwards, BackwardsFails,
           TruncateFails, TruncateConversation
    <3> QED
      BY <1>4, <3>1, <3>2, <3>3
  <2>3. Retraceable'
    BY <1>1, <1>6, <2>1 DEF Passed, TmpLeft, store
  <2> QED
    BY <1>2, <2>1, <2>2, <2>3 DEF NoErrors
<1>8. CASE CompensateCheckpoints
  <2>1. /\ pc = "stateCkpt" /\ UNCHANGED <<store, compErr, todo>> /\ UNCHANGED stateErr
        /\ pc' = "comp"
    BY <1>2, <1>3, <1>8 DEF CompensateCheckpoints, NoErrors
  <2>2. Retraceable'
    BY <1>1, <1>6, <2>1 DEF Passed, TmpLeft, store
  <2> QED
    BY <1>2, <2>1, <2>2 DEF NoErrors
<1>9. CASE CompensationDone
  <2>1. pc = "comp" /\ pc' = "verdict" /\ UNCHANGED <<store, compErr, todo, stateErr>>
    BY <1>9 DEF CompensationDone
  <2>2. Retraceable'
    BY <1>1, <1>6, <2>1 DEF Passed, TmpLeft, store
  <2> QED
    BY <1>2, <2>1, <2>2 DEF NoErrors
<1>10. ASSUME NEW g \in Files, Visiting(g),
              \/ CompensateNothing(g) \/ CompensateUnread(g) \/ CompensateRename(g)
              \/ CompensateForeign(g) \/ CompensateRemove(g)
       PROVE  NoErrors' /\ Retraceable'
  <2>1. ~CompensateForeign(g) /\ ~CompensateUnread(g)
    BY <1>3, <1>10, Recognised DEF Visiting, CompensateForeign, CompensateUnread
  <2>2. disk \in Images /\ tmp \in [TxIds -> Images]
    BY DEF JInv, CInv, IInv, StoreOK
  <2>3. /\ pc = "comp" /\ UNCHANGED <<compErr, stateErr>>
        /\ \/ pc' = "comp" /\ todo' = todo \ {g}
           \/ pc' = "compMove" /\ at' = g /\ UNCHANGED todo
    BY <1>3, <1>10, <2>1 DEF CompensateNothing, CompensateRename, CompensateRemove, Visiting, Visited,
       Untouched
  <2>4. \A f \in Files : f # g => disk'[f] = disk[f] /\ tmp'[c][f] = tmp[c][f]
    <3>1. \/ UNCHANGED disk
          \/ \E x : disk' = [disk EXCEPT ![g] = x]
      BY <1>10, <2>1 DEF CompensateNothing, CompensateRename, CompensateRemove
    <3>2. \/ UNCHANGED tmp
          \/ tmp' = [tmp EXCEPT ![c][g] = Absent]
      BY <1>10, <2>1 DEF CompensateNothing, CompensateRename, CompensateRemove
    <3> QED
      BY <1>4, <2>2, <3>1, <3>2 DEF Images
  <2>5. ASSUME NEW f \in txs[c].published, Passed(f) \/ TmpLeft(c, f)
        PROVE  Passed(f)' \/ TmpLeft(c, f)'
    <3>1. CASE f = g
      BY <2>3, <3>1 DEF Passed
    <3>2. CASE f # g
      BY <1>1, <1>4, <2>3, <2>4, <2>5, <3>2 DEF Passed, TmpLeft
    <3> QED
      BY <3>1, <3>2
  <2> QED
    BY <1>2, <1>6, <2>3, <2>5 DEF NoErrors
<1>11. CASE CompensateMove
  <2>1. /\ pc = "compMove" /\ pc' = "comp" /\ todo' = todo \ {at}
        /\ UNCHANGED <<compErr, stateErr, tmp>> /\ \E x : disk' = [disk EXCEPT ![at] = x]
    BY <1>3, <1>11 DEF CompensateMove, Visited, Untouched
  <2>2. \A f \in Files : f # at => disk'[f] = disk[f]
    BY <2>1 DEF JInv, CInv, IInv, StoreOK, Images
  <2>3. ASSUME NEW f \in txs[c].published, Passed(f) \/ TmpLeft(c, f)
        PROVE  Passed(f)' \/ TmpLeft(c, f)'
    <3>1. CASE f = at
      BY <2>1, <3>1 DEF Passed
    <3>2. CASE f # at
      BY <1>1, <1>4, <2>1, <2>2, <2>3, <3>2 DEF Passed, TmpLeft
    <3> QED
      BY <3>1, <3>2
  <2> QED
    BY <1>2, <1>6, <2>1, <2>3 DEF NoErrors
<1>12. CASE CompensateFile
  BY <1>10, <1>11, <1>12 DEF CompensateFile, CompensateNothing, CompensateUnread,
     CompensateRename, CompensateForeign, CompensateRemove
<1> QED
  BY <1>7, <1>8, <1>9, <1>12

\* Nothing is left committing, or there was more than one fault.
LEMMA NothingLeft ==
  ASSUME NoErrors', pc' \notin Backing, pc' \in {"idle", "down"} => cur' = 0, pc' = "scan" => pass' # "run",
         NoManifestCommitting' \/ disturbed' \notin {0, 1}, disturbed' \in Nat
  PROVE  FInv'
<1>1. CASE NoManifestCommitting'
  <2>1. \A n \in DOMAIN txs' : ~Unsettled(n)'
    BY <1>1 DEF NoManifestCommitting, Unsettled
  <2> QED
    BY <1>1, <2>1 DEF FInv, Undisturbed, OnceDisturbed, Retraceable, Recovering
<1>2. CASE disturbed' \notin {0, 1}
  <2>1. ~(disturbed' <= 1)
    BY <1>2
  <2> QED
    BY <1>2, <2>1 DEF FInv, Undisturbed, OnceDisturbed, Retraceable, Recovering
<1> QED
  BY <1>1, <1>2

\* While the program is idle after at most one fault, nothing is committing.
LEMMA IdleSettled ==
  ASSUME JInv, FInv, orderly, pc = "idle" \/ (pc = "mark" /\ OInv)
  PROVE  /\ disturbed \in Nat /\ NoErrors
         /\ NoManifestCommitting \/ disturbed \notin {0, 1}
<1>1. disturbed \in Nat
  BY BoundsAssumption DEF JInv, CInv, IInv, CountersOK
<1>2. NoErrors
  BY DEF FInv, Backing, InFlight, Working
<1>3. CASE pc = "idle"
  BY <1>1, <1>2, <1>3 DEF FInv, Undisturbed, OnceDisturbed, Forward
<1>4. CASE pc = "mark" /\ OInv
  <2>1. pc \in Working /\ M = txs[cur] /\ M.state = "committed"
    BY <1>4 DEF Working, JInv, MInv, InStep
  <2>2. \A n \in DOMAIN txs : Unsettled(n) => n = cur
    BY <1>4, <2>1 DEF OInv, Alone
  <2>3. NoManifestCommitting
    BY <2>1, <2>2 DEF NoManifestCommitting, Unsettled
  <2> QED
    BY <1>1, <1>2, <2>3
<1> QED
  BY <1>3, <1>4

\* The steps of a compensation.
LEMMA BackwardsSettles ==
  ASSUME JInv, OInv, TInv, KInv, FInv, Kept, orderly,
         CompensateConversation \/ CompensateCheckpoints \/ CompensateFile \/ CompensationDone
  PROVE  FInv'
<1>1. /\ pc \in Backing /\ pc' \in Backing /\ (Calm \/ Fault)
      /\ pc' \notin {"idle", "down", "scan"}
  BY DEF CompensateConversation, CompensateCheckpoints, CompensateFile, CompensateNothing,
     CompensateUnread, CompensateRename, CompensateForeign, CompensateRemove, CompensateMove,
     CompensationDone, Visiting, Visited, InFlight, Working, Forward, Backing, Calm, Backwards, BackwardsFails,
     TruncateConversation, TruncateFails, RestoreConversation, RestoreFails
<1>2. disturbed \in Nat /\ disturbed # 0
  BY <1>1, BoundsAssumption DEF FInv, Undisturbed, JInv, CInv, IInv, CountersOK
<1>3. CASE disturbed = 1 /\ Calm
  <2>1. NoErrors' /\ Retraceable'
    BY <1>3, BackSettles
  <2> QED
    BY <1>1, <1>3, <2>1 DEF FInv, Undisturbed, OnceDisturbed, Recovering, Calm
<1>4. CASE disturbed # 1 \/ Fault
  <2>1. disturbed' # 0 /\ disturbed' # 1 /\ ~(disturbed' <= 1)
    BY <1>1, <1>2, <1>4 DEF Calm, Fault
  <2> QED
    BY <1>1, <2>1 DEF FInv, Undisturbed, OnceDisturbed, Retraceable, Recovering
<1> QED
  BY <1>1, <1>3, <1>4

\* The verdict after one fault is that the transaction is aborted.
LEMMA VerdictSettles ==
  ASSUME JInv, OInv, FInv, orderly, Verdict
  PROVE  FInv'
<1>1. /\ pc = "verdict" /\ pc \in Backing /\ pc \in Working /\ pc \in InFlight
      /\ pc' \in {"idle", "scan"} /\ pc' \notin Backing
      /\ (pc' = "scan" => pass' # "run") /\ (pc' = "idle" => cur' = 0) /\ NoErrors' /\ (Calm \/ Fault)
  BY DEF Verdict, Backing, InFlight, Working, Forward, NoErrors
<1>2. disturbed \in Nat /\ disturbed # 0
  BY <1>1, BoundsAssumption DEF FInv, Undisturbed, JInv, CInv, IInv, CountersOK
<1>3. CASE disturbed = 1 /\ Calm
  <2> PICK c \in DOMAIN txs : c = cur
    BY <1>1, InHandEnds
  <2> DEFINE m == [M EXCEPT !.state = IF stateErr \/ compErr THEN "committing" ELSE "aborted"]
  <2>1. ~stateErr /\ ~compErr
    BY <1>1, <1>3 DEF FInv, OnceDisturbed, NoErrors
  <2>2. m.state = "aborted"
    BY <1>1, <2>1, InHandEnds, StateData
  <2>3. txs' = [txs EXCEPT ![c] = m]
    BY <1>2, <1>3 DEF Verdict, Calm, Fault
  <2> HIDE DEF m
  <2>4. \A n \in DOMAIN txs : Unsettled(n) => n = c
    BY <1>1 DEF OInv, Alone
  <2>5. NoManifestCommitting'
    BY <2>2, <2>3, <2>4 DEF NoManifestCommitting, Unsettled
  <2> QED
    BY <1>1, <1>2, <1>3, <2>5, NothingLeft DEF Calm
<1>4. CASE disturbed # 1 \/ Fault
  <2>1. disturbed' \in Nat /\ disturbed' \notin {0, 1}
    BY <1>1, <1>2, <1>4 DEF Calm, Fault
  <2> QED
    BY <1>1, <2>1, NothingLeft
<1> QED
  BY <1>1, <1>3, <1>4

\* A committed undo that marks its parent leaves nothing committing.
LEMMA MarkUndoneSettles ==
  ASSUME JInv, OInv, FInv, Kept, orderly, MarkUndone
  PROVE  FInv'
<1>1. /\ pc = "mark" /\ pc' = "idle" /\ cur' = 0 /\ pc' \notin Backing /\ (Calm \/ Fault)
      /\ UNCHANGED <<stateErr, compErr>>
  BY DEF MarkUndone, Backing, InFlight, Working
<1>2. /\ disturbed \in Nat /\ NoErrors
      /\ NoManifestCommitting \/ disturbed \notin {0, 1}
  BY <1>1, IdleSettled
<1>3. \/ UNCHANGED txs
      \/ txs' = [txs EXCEPT ![M.parent].state = "undone"]
  BY DEF MarkUndone
<1>4. NoManifestCommitting => NoManifestCommitting'
  <2> SUFFICES ASSUME NoManifestCommitting, NEW n \in DOMAIN txs'
               PROVE  txs'[n].state # "committing"
    BY DEF NoManifestCommitting
  <2>1. n \in DOMAIN txs /\ txs[n] \in Manifest
    BY <1>3, Numbered DEF JInv, CInv
  <2>2. CASE UNCHANGED txs
    BY <2>1, <2>2 DEF NoManifestCommitting
  <2>3. CASE txs' = [txs EXCEPT ![M.parent].state = "undone"] /\ n # M.parent
    BY <2>1, <2>3 DEF NoManifestCommitting
  <2>4. CASE txs' = [txs EXCEPT ![M.parent].state = "undone"] /\ n = M.parent
    <3>1. txs'[n] = [txs[n] EXCEPT !.state = "undone"]
      BY <2>1, <2>4
    <3> QED
      BY <2>1, <3>1, StateData
  <2> QED
    BY <1>3, <2>2, <2>3, <2>4
<1>5. NoErrors' /\ disturbed' \in Nat
  BY <1>1, <1>2 DEF NoErrors, Calm, Fault
<1>6. NoManifestCommitting' \/ disturbed' \notin {0, 1}
  BY <1>1, <1>2, <1>4 DEF Calm, Fault
<1> QED
  BY <1>1, <1>5, <1>6, NothingLeft

\* What recovery discards was never published.
LEMMA RecoverPreparedSettles ==
  ASSUME JInv, FInv, orderly, RecoverPrepared
  PROVE  FInv'
<1> DEFINE n == Min(Remaining)
<1>1. /\ pc = "scan" /\ pc' = "scan" /\ Remaining # {} /\ txs[n].state = "prepared" /\ cur' = n
      /\ UNCHANGED <<disk, pc, todo, at, pass, stateErr, compErr>> /\ (Calm \/ Fault)
      /\ \E row : tmp' = [tmp EXCEPT ![n] = row]
      /\ UNCHANGED txs \/ txs' = [txs EXCEPT ![n].state = "aborted"]
  BY DEF RecoverPrepared, control
<1>2. n \in Remaining /\ \A k \in Remaining : n <= k
  <2>1. Remaining \in SUBSET Nat
    BY Numbered DEF Remaining, JInv, CInv
  <2> QED
    BY <1>1, <2>1, MinFacts
<1>3. n \in DOMAIN txs /\ txs[n] \in Manifest /\ n \in Nat /\ pc \notin Backing
  BY <1>1, <1>2, Numbered DEF Remaining, Backing, InFlight, Working, JInv, CInv
<1>4. NoErrors /\ NoErrors' /\ pass # "run" /\ disturbed \in Nat
  BY <1>1, <1>3, BoundsAssumption DEF FInv, NoErrors, Recovering, JInv, CInv, IInv, CountersOK
<1> HIDE DEF n
<1>5. /\ DOMAIN txs' = DOMAIN txs
      /\ \A k \in DOMAIN txs : k # n => txs'[k] = txs[k] /\ tmp'[k] = tmp[k]
  BY <1>1, Numbered DEF JInv, CInv, IInv, StoreOK
<1>6. txs'[n].state # "committing"
  <2>1. CASE UNCHANGED txs
    BY <1>1, <2>1
  <2>2. CASE txs' = [txs EXCEPT ![n].state = "aborted"]
    <3>1. txs'[n] = [txs[n] EXCEPT !.state = "aborted"]
      BY <1>3, <2>2
    <3> QED
      BY <1>3, <3>1, StateData
  <2> QED
    BY <1>1, <2>1, <2>2
<1>7. \A k \in DOMAIN txs : Unsettled(k)' => Unsettled(k) /\ k # n /\ txs'[k] = txs[k]
  BY <1>5, <1>6 DEF Unsettled
<1>8. CASE disturbed = 0 \/ (disturbed # 1 /\ disturbed # 0)
  <2>1. CASE disturbed = 0
    <3>1. NoManifestCommitting
      BY <1>1, <2>1 DEF FInv, Undisturbed, Forward
    <3>2. NoManifestCommitting'
      BY <1>5, <1>7, <3>1 DEF NoManifestCommitting, Unsettled
    <3> QED
      BY <1>1, <1>3, <1>4, <3>2, NothingLeft DEF Calm, Fault
  <2>2. CASE disturbed # 1 /\ disturbed # 0
    BY <1>1, <1>3, <1>4, <2>2, NothingLeft DEF Calm, Fault
  <2> QED
    BY <1>8, <2>1, <2>2
<1>9. CASE disturbed = 1 /\ Fault
  <2>1. disturbed' \in Nat /\ disturbed' \notin {0, 1}
    BY <1>9 DEF Fault
  <2> QED
    BY <1>1, <1>3, <1>4, <2>1, NothingLeft
<1>10. CASE disturbed = 1 /\ Calm
  <2>1. disturbed' = 1
    BY <1>10 DEF Calm
  <2>2. ASSUME NEW k \in DOMAIN txs, Unsettled(k)'
        PROVE  k > cur' \/ (pass = "filesOnly" /\ WantsConversation(txs[k].scope))
    <3>1. Unsettled(k) /\ k # n /\ k \in Nat
      BY <1>7, <2>2, Numbered DEF JInv, CInv
    <3>2. k > cur \/ (pass = "filesOnly" /\ WantsConversation(txs[k].scope))
      BY <1>1, <1>10, <3>1 DEF FInv, Recovering
    <3>3. CASE k > cur /\ ~(pass = "filesOnly" /\ WantsConversation(txs[k].scope))
      <4>1. pass = "withConversation" \/ ~WantsConversation(txs[k].scope)
        BY <1>4, <3>3 DEF JInv, CInv, IInv, ControlOK
      <4>2. k \in Remaining
        BY <3>1, <3>3, <4>1 DEF Remaining, Recoverable, Unsettled
      <4>3. n <= k
        BY <1>2, <4>2
      <4> QED
        BY <1>1, <1>3, <3>1, <4>3
    <3> QED
      BY <3>2, <3>3
  <2>3. Recovering'
    BY <1>1, <1>3, <1>4, <1>5, <1>7, <2>2 DEF Recovering
  <2>4. Retraceable'
    <3> SUFFICES ASSUME NEW k \in DOMAIN txs, Unsettled(k)', NEW f \in txs'[k].published
                 PROVE  TmpLeft(k, f)'
      BY <1>5 DEF Retraceable
    <3>1. TmpLeft(k, f)
      BY <1>1, <1>7, <1>10 DEF FInv, Retraceable, Passed
    <3> QED
      BY <1>1, <1>5, <1>7, <3>1 DEF TmpLeft
  <2> QED
    BY <1>1, <1>3, <1>4, <2>1, <2>3, <2>4 DEF FInv, Undisturbed, OnceDisturbed
<1> QED
  BY <1>1, <1>4, <1>8, <1>9, <1>10

\* What recovery takes up it can take back.
LEMMA RecoverCommittingSettles ==
  ASSUME JInv, FInv, orderly, RecoverCommitting
  PROVE  FInv'
<1>1. /\ pc = "scan" /\ pc' \in {"stateConv", "comp"}
      /\ UNCHANGED <<store, txs, stateErr, compErr, disturbed>>
      /\ \E n \in DOMAIN txs : Unsettled(n)
  <2>1. Min(Remaining) \in DOMAIN txs
    BY NextRemaining, Numbered DEF RecoverCommitting, JInv, CInv
  <2> QED
    BY <2>1 DEF RecoverCommitting, Unsettled
<1>2. pc \notin Backing /\ pc \notin Forward /\ pc' \notin {"idle", "down", "scan"} /\ pc' \in Backing
  BY <1>1 DEF Backing, InFlight, Working, Forward
<1>3. NoErrors /\ disturbed # 0 /\ Retraceable
  BY <1>1, <1>2 DEF FInv, Undisturbed, NoManifestCommitting, Unsettled
<1>4. Retraceable'
  BY <1>1, <1>3 DEF Retraceable, Unsettled, Passed, TmpLeft, store
<1> QED
  BY <1>1, <1>2, <1>3, <1>4 DEF FInv, Undisturbed, OnceDisturbed, Recovering, NoErrors

\* A pass begins with every manifest ahead of it, and ends past all that it settles.
LEMMA PassSettles ==
  ASSUME JInv, FInv, orderly, Start \/ PassDone
  PROVE  FInv'
<1>1. /\ pc \in {"down", "scan"} /\ pc' \in {"scan", "idle"} /\ cur \in Nat
      /\ UNCHANGED <<store, txs, stateErr, compErr, disturbed>>
      /\ disturbed \in Nat /\ DOMAIN txs \subseteq Nat \ {0}
  BY Numbered, BoundsAssumption DEF Start, PassDone, store, JInv, CInv, IInv, CountersOK, ManifestsOK
<1>2. pc \notin Backing /\ pc' \notin Backing /\ pc \notin Forward
  BY <1>1 DEF Backing, InFlight, Working, Forward
<1>3. NoErrors /\ NoErrors' /\ (disturbed = 0 => NoManifestCommitting) /\ Retraceable
  BY <1>1, <1>2 DEF FInv, NoErrors, Undisturbed
<1>4. cur' = 0 /\ (pc' = "scan" => pass' # "run")
  BY DEF Start, PassDone, FInv, Recovering
<1>5. CASE disturbed # 1
  <2>1. NoManifestCommitting' <=> NoManifestCommitting
    BY <1>1 DEF NoManifestCommitting
  <2> QED
    BY <1>1, <1>2, <1>3, <1>4, <1>5, <2>1, NothingLeft
<1>6. CASE disturbed = 1
  <2>1. Retraceable'
    BY <1>1, <1>3 DEF Retraceable, Unsettled, Passed, TmpLeft, store
  <2>2. pc' = "scan" => \A n \in DOMAIN txs : n > cur'
    BY <1>1, <1>4
  <2>3. Recovering'
    BY <1>1, <1>4, <2>2 DEF Recovering
  <2>4. ASSUME pc' = "idle" PROVE NoManifestCommitting
    <3>1. pc = "scan" /\ Remaining = {} /\ pass # "filesOnly" /\ pass # "run"
      BY <2>4 DEF Start, PassDone, FInv, Recovering
    <3>2. pass = "withConversation"
      BY <3>1 DEF JInv, CInv, IInv, ControlOK
    <3> SUFFICES ASSUME NEW n \in DOMAIN txs, txs[n].state = "committing" PROVE FALSE
      BY DEF NoManifestCommitting
    <3>3. n > cur
      BY <1>6, <3>1 DEF FInv, Recovering, Unsettled
    <3> QED
      BY <3>1, <3>2, <3>3 DEF Remaining, Recoverable
  <2>5. OnceDisturbed'
    BY <1>1, <1>2, <2>4 DEF OnceDisturbed, NoManifestCommitting
  <2> QED
    BY <1>1, <1>2, <1>3, <1>6, <2>1, <2>3, <2>5 DEF FInv, Undisturbed
<1> QED
  BY <1>5, <1>6

\* Turns, edits and shutdowns of an orderly history find nothing committing.
LEMMA EnvironmentSettles ==
  ASSUME JInv, OInv, FInv, orderly, orderly', Environment
  PROVE  FInv'
<1>1. disturbed \in Nat
  BY BoundsAssumption DEF JInv, CInv, IInv, CountersOK
<1>2. ASSUME UNCHANGED <<txs, cur, stateErr, compErr>>, pc \in {"idle", "down"},
             pc' \in {"idle", "down"}, NoManifestCommitting, Calm \/ Fault
      PROVE  FInv'
  <2>1. pc \notin Backing /\ pc' \notin Backing /\ disturbed' \in Nat
    BY <1>1, <1>2 DEF Backing, InFlight, Working, Calm, Fault
  <2>2. NoErrors' /\ cur' = 0 /\ pc' # "scan"
    BY <1>2, <2>1 DEF FInv, NoErrors, Recovering
  <2>3. NoManifestCommitting'
    BY <1>2 DEF NoManifestCommitting
  <2> QED
    BY <1>1, <1>2, <2>1, <2>2, <2>3, NothingLeft
<1>3. CASE AnyTurn
  <2>1. PICK c \in Checkpoint : Opens(c) /\ (Ended(c) \/ Died(c))
    BY <1>3, TurnEnds DEF JInv, CInv
  <2>2. UNCHANGED <<txs, cur, stateErr, compErr>> /\ pc = "idle" /\ NoManifestCommitting /\ (Calm \/ Fault)
    BY <2>1 DEF Opens
  <2>3. pc' \in {"idle", "down"}
    BY <2>1 DEF Ended, Died
  <2> QED
    BY <1>2, <2>2, <2>3
<1>4. CASE \E f \in Files : \E image \in {Absent, EditImage(edits + 1)} : ExternalEdit(f, image)
  BY <1>2, <1>4 DEF ExternalEdit, control, Calm
<1>5. CASE Crash \/ Shutdown
  <2>1. /\ pc' = "down" /\ cur' = 0 /\ NoErrors' /\ UNCHANGED <<store, txs>>
        /\ pc' \notin Backing
    BY <1>5 DEF Crash, Shutdown, Stop, NoErrors, Backing, InFlight, Working
  <2>2. NoManifestCommitting' <=> NoManifestCommitting
    BY <2>1 DEF NoManifestCommitting
  <2>3. CASE NoManifestCommitting \/ disturbed' \notin {0, 1}
    BY <1>1, <1>5, <2>1, <2>2, <2>3, NothingLeft DEF Crash, Shutdown, Calm, Fault
  <2>4. CASE ~NoManifestCommitting /\ disturbed' \in {0, 1}
    <3>1. disturbed = 0 /\ disturbed' = 1 /\ pc \in Forward
      BY <1>1, <1>5, <2>4 DEF FInv, Undisturbed, OnceDisturbed, Crash, Shutdown, Calm, Fault, Forward
    <3>2. \A n \in DOMAIN txs : Unsettled(n) => n = cur
      BY <3>1 DEF OInv, Alone, Working, Forward
    <3>3. \A f \in txs[cur].published : TmpLeft(cur, f)
      BY <3>1, ForwardRetraceable
    <3>4. Retraceable'
      BY <2>1, <3>2, <3>3 DEF Retraceable, Unsettled, TmpLeft, store
    <3> QED
      BY <2>1, <3>1, <3>4 DEF FInv, Undisturbed, OnceDisturbed, Recovering
  <2> QED
    BY <2>3, <2>4
<1> QED
  BY <1>3, <1>4, <1>5 DEF Environment, AnyTurn

\* A request is made while nothing is committing, and begins nothing that is.
LEMMA RequestSettles ==
  ASSUME JInv, LInv, TInv, FInv, orderly, orderly', Request
  PROVE  FInv'
<1>1. /\ pc = "idle" /\ pc' \in {"idle", "prepared"} /\ (Calm \/ Fault)
      /\ UNCHANGED <<stateErr, compErr>> /\ (pc' = "idle" => UNCHANGED cur)
      /\ \E m : txs' = Append(txs, m) /\ m \in Manifest /\ m.state # "committing"
  BY NewManifest DEF Adds
<1>2. /\ disturbed \in Nat /\ NoErrors /\ pc' \notin Backing /\ (pc' = "idle" => cur' = 0)
      /\ NoManifestCommitting \/ disturbed \notin {0, 1}
  BY <1>1, IdleSettled DEF Backing, InFlight, Working, Forward, FInv, Recovering
<1>3. NoManifestCommitting => NoManifestCommitting'
  <2> PICK m \in Manifest : txs' = Append(txs, m) /\ m.state # "committing"
    BY <1>1
  <2>1. /\ DOMAIN txs' = DOMAIN txs \cup {Len(txs) + 1} /\ txs'[Len(txs) + 1] = m
        /\ \A n \in DOMAIN txs : txs'[n] = txs[n]
    BY AppendedLast DEF JInv, CInv
  <2> QED
    BY <2>1 DEF NoManifestCommitting
<1>4. NoErrors' /\ disturbed' \in Nat
  BY <1>1, <1>2 DEF NoErrors, Calm, Fault
<1>5. NoManifestCommitting' \/ disturbed' \notin {0, 1}
  BY <1>1, <1>2, <1>3 DEF Calm, Fault
<1> QED
  BY <1>1, <1>2, <1>4, <1>5, NothingLeft

\* Every step keeps it.
LEMMA NextSettles ==
  JInv /\ LInv /\ OInv /\ TInv /\ KInv /\ FInv /\ [Next]_vars => FInv'
<1> SUFFICES ASSUME JInv, LInv, OInv, TInv, KInv, FInv, [Next]_vars, orderly' PROVE FInv'
  BY DEF FInv
<1>1. orderly /\ JInv' /\ OInv'
  BY OrderlyBefore, NextJournal, NextOrdered
<1>2. CASE Next
  <2>1. Kept
    BY NextKept DEF JInv
  <2>2. CASE Environment
    BY <1>1, <2>2, EnvironmentSettles
  <2>3. CASE Request
    BY <1>1, <2>3, RequestSettles
  <2>4. CASE Commit
    BY <1>1, <2>1, <2>4, CommitSettles, MarkUndoneSettles
  <2>5. CASE Recover
    BY <1>1, <2>1, <2>5, BackwardsSettles, VerdictSettles, RecoverPreparedSettles,
       RecoverCommittingSettles, PassSettles DEF Recover
  <2> QED
    BY <1>2, <2>2, <2>3, <2>4, <2>5 DEF Next
<1>3. CASE UNCHANGED vars
  <2>1. /\ UNCHANGED <<store, txs, pc, at, todo, pass, stateErr, compErr, cur, disturbed, orderly>>
    BY <1>3 DEF vars, control, counters
  <2>2. /\ NoErrors' <=> NoErrors
        /\ NoManifestCommitting' <=> NoManifestCommitting
        /\ Retraceable => Retraceable'
        /\ Recovering => Recovering'
    BY <2>1 DEF NoErrors, NoManifestCommitting, Retraceable, Recovering, Unsettled, Passed,
       TmpLeft, store
  <2> QED
    BY <1>1, <2>1, <2>2 DEF FInv, Undisturbed, OnceDisturbed
<1> QED
  BY <1>2, <1>3

\* In every orderly history with at most one fault, whatever is left committing can
\* still be recognised, and a recovery that is not at its end still has it ahead.
THEOREM OrderlyFaults == Spec => [](JInv /\ LInv /\ OInv /\ TInv /\ KInv /\ FInv)
<1>1. Init => FInv
  <2> SUFFICES ASSUME Init PROVE FInv
    OBVIOUS
  <2>1. DOMAIN txs = {} /\ pc = "idle" /\ cur = 0 /\ ~stateErr /\ ~compErr
    BY DEF Init
  <2> QED
    BY <2>1 DEF FInv, NoErrors, Undisturbed, OnceDisturbed, Retraceable, Recovering,
       NoManifestCommitting, Backing, InFlight, Working
<1>2. JInv /\ LInv /\ OInv /\ TInv /\ KInv /\ FInv /\ [Next]_vars => FInv'
  BY NextSettles
<1> QED
  BY <1>1, <1>2, OrderlyCheckpoints, PTL DEF Spec

\* The property of the runs, for every number of files, turns, transactions, edits
\* and disturbances: after one crash or one failing call of an orderly history, no
\* manifest is committing once the program is idle again.
THEOREM OneFaultRecovers == Spec => []OneFaultSettles
<1>1. JInv /\ FInv => OneFaultSettles
  <2> SUFFICES ASSUME JInv, FInv, pc = "idle", disturbed <= 1, orderly
               PROVE  NoManifestCommitting
    BY DEF OneFaultSettles
  <2>1. disturbed \in {0, 1} /\ (NoManifestCommitting \/ disturbed \notin {0, 1})
    BY IdleSettled
  <2> QED
    BY <2>1
<1> QED
  BY <1>1, OrderlyFaults, PTL

-----------------------------------------------------------------------------
(* Orderly histories: every rewind is atomic, seen through the mapping *)

\* What the mapping of RewindRefinement shows: the workspace when nothing is
\* committing, and otherwise what the committing manifest found.
Mapped ==
  /\ NoManifestCommitting => AbsFiles = disk /\ AbsTalk = conv /\ AbsCheckpoints = ckpt
  /\ \A n \in DOMAIN txs : Unsettled(n) =>
       /\ AbsFiles = [f \in Files |-> IF f \in txs[n].published THEN txs[n].fwd[f] ELSE disk[f]]
       /\ AbsTalk = Before(txs[n])
       /\ AbsCheckpoints =
            IF WantsConversation(txs[n].scope)
            THEN Below(ckpt, txs[n].turn) \cup (IF txs[n].kind = "rewind" THEN txs[n].backup ELSE {})
            ELSE ckpt
MapInv == orderly => Mapped

\* It follows from what is known of the conversation and the checkpoints.
LEMMA MapHolds == JInv /\ OInv /\ TInv /\ KInv => MapInv
<1> SUFFICES ASSUME JInv, OInv, TInv, KInv, orderly PROVE Mapped
  BY DEF MapInv
<1>1. NoManifestCommitting => AbsFiles = disk /\ AbsTalk = conv /\ AbsCheckpoints = ckpt
  <2> SUFFICES ASSUME NoManifestCommitting
               PROVE  AbsFiles = disk /\ AbsTalk = conv /\ AbsCheckpoints = ckpt
    OBVIOUS
  <2>1. Committing = {}
    BY DEF Committing, NoManifestCommitting
  <2>2. disk \in Images
    BY DEF JInv, CInv, IInv, StoreOK
  <2> QED
    BY <2>1, <2>2 DEF AbsFiles, AbsTalk, AbsCheckpoints, Images
<1>2. ASSUME NEW n \in DOMAIN txs, Unsettled(n)
      PROVE  /\ AbsFiles = [f \in Files |-> IF f \in txs[n].published THEN txs[n].fwd[f] ELSE disk[f]]
             /\ AbsTalk = Before(txs[n])
             /\ AbsCheckpoints =
                  IF WantsConversation(txs[n].scope)
                  THEN Below(ckpt, txs[n].turn) \cup (IF txs[n].kind = "rewind" THEN txs[n].backup ELSE {})
                  ELSE ckpt
  <2>1. n \in Nat /\ txs[n] \in Manifest
    BY Numbered DEF JInv, CInv
  <2>2. Committing = {n}
    BY <1>2 DEF OInv, Alone, Unsettled, Committing
  <2>3. Max({n}) = n
    BY <2>1, MaxFacts
  <2>4. Hidden = txs[n] /\ Committing # {}
    BY <2>2, <2>3 DEF Hidden
  <2>5. AbsFiles = [f \in Files |-> IF f \in txs[n].published THEN txs[n].fwd[f] ELSE disk[f]]
    BY <2>4 DEF AbsFiles
  <2>6. AbsTalk = Before(txs[n])
    <3>1. CASE WantsConversation(txs[n].scope)
      BY <2>4, <3>1 DEF AbsTalk, Before, Rewound
    <3>2. CASE ~WantsConversation(txs[n].scope)
      <4>1. conv \in Ends(txs[n])
        BY <1>2 DEF TInv, AtAnEnd
      <4> QED
        BY <2>4, <3>2, <4>1 DEF AbsTalk, Before, After, Ends, Rewound
    <3> QED
      BY <3>1, <3>2
  <2>7. CASE ~WantsConversation(txs[n].scope)
    BY <2>4, <2>5, <2>6, <2>7 DEF AbsCheckpoints
  <2>8. CASE WantsConversation(txs[n].scope)
    <3>1. Parted(txs[n]) /\ Sound(txs[n])
      BY <1>2, <2>8 DEF KInv, Listed, Active, Unsettled, BackupsSound
    <3>2. CASE txs[n].kind = "undo"
      BY <2>4, <2>5, <2>6, <2>8, <3>2 DEF AbsCheckpoints, TruncatedAt, Below
    <3>3. CASE txs[n].kind = "rewind"
      <4>1. ckpt \subseteq Checkpoint /\ txs[n].backup \subseteq Checkpoint /\ txs[n].turn \in Nat
            /\ Len(txs[n].forward) \in Nat
        BY <2>1, LenProperties DEF JInv, CInv, IInv, SessionOK, Manifest
      <4> DEFINE b == txs[n].backup
                 t == txs[n].turn
      <4>2. AbsCheckpoints = b \cup {c \in ckpt : c.turn \notin TurnsOf(b)}
        BY <2>4, <2>8, <3>3 DEF AbsCheckpoints, Merge, Over
      <4>3. \A c \in ckpt : c.turn < t \/ (c.turn >= t /\ c \in b)
        BY <3>1, <4>1 DEF Parted, Above, Checkpoint
      <4>4. \A c \in b : c.turn >= t
        BY <2>8, <3>1 DEF Sound
      <4>5. \A c \in ckpt : c.turn < t => c.turn \notin TurnsOf(b)
        BY <4>1, <4>4 DEF TurnsOf, Checkpoint
      <4>6. AbsCheckpoints = Below(ckpt, t) \cup b
        BY <4>1, <4>2, <4>3, <4>5 DEF Below, TurnsOf
      <4> QED
        BY <2>5, <2>6, <2>8, <3>3, <4>6
    <3>4. txs[n].kind \in {"rewind", "undo"}
      BY <2>1 DEF Manifest
    <3> QED
      BY <3>2, <3>3, <3>4
  <2> QED
    BY <2>7, <2>8
<1> QED
  BY <1>1, <1>2 DEF Mapped

Seen == UNCHANGED <<AbsFiles, AbsTalk, AbsCheckpoints>>

\* What is committing hides what a step does to it.
LEMMA HiddenSeen ==
  ASSUME Mapped, Mapped', NEW n \in DOMAIN txs, Unsettled(n), Unsettled(n)',
         txs[n] \in Manifest, SameData(txs'[n], txs[n]),
         txs[n].published \subseteq txs'[n].published,
         \A f \in txs'[n].published \ txs[n].published : disk[f] = txs[n].fwd[f],
         \A f \in Files \ txs'[n].published : disk'[f] = disk[f],
         IF WantsConversation(txs[n].scope)
         THEN Below(ckpt', txs[n].turn) = Below(ckpt, txs[n].turn) ELSE ckpt' = ckpt
  PROVE  Seen
<1> n \in DOMAIN txs'
  BY DEF Unsettled
<1>1. AbsTalk' = AbsTalk
  <2>1. AbsTalk = Before(txs[n]) /\ AbsTalk' = Before(txs'[n])
    BY DEF Mapped
  <2> QED
    BY <2>1, SameEnds
<1>2. AbsCheckpoints' = AbsCheckpoints
  <2>1. /\ AbsCheckpoints =
             IF WantsConversation(txs[n].scope)
             THEN Below(ckpt, txs[n].turn) \cup (IF txs[n].kind = "rewind" THEN txs[n].backup ELSE {})
             ELSE ckpt
        /\ AbsCheckpoints' =
             IF WantsConversation(txs'[n].scope)
             THEN Below(ckpt', txs'[n].turn) \cup (IF txs'[n].kind = "rewind" THEN txs'[n].backup ELSE {})
             ELSE ckpt'
    BY DEF Mapped
  <2>2. /\ txs'[n].scope = txs[n].scope /\ txs'[n].turn = txs[n].turn /\ txs'[n].kind = txs[n].kind
        /\ txs'[n].backup = txs[n].backup
    BY DEF SameData
  <2> QED
    BY <2>1, <2>2
<1>3. AbsFiles' = AbsFiles
  <2>1. /\ AbsFiles = [f \in Files |-> IF f \in txs[n].published THEN txs[n].fwd[f] ELSE disk[f]]
        /\ AbsFiles' = [f \in Files |-> IF f \in txs'[n].published THEN txs'[n].fwd[f] ELSE disk'[f]]
    BY DEF Mapped
  <2>2. txs'[n].fwd = txs[n].fwd
    BY DEF SameData
  <2>3. \A f \in Files :
          (IF f \in txs[n].published THEN txs[n].fwd[f] ELSE disk[f]) =
          (IF f \in txs'[n].published THEN txs'[n].fwd[f] ELSE disk'[f])
    BY <2>2
  <2> QED
    BY <2>1, <2>3
<1> QED
  BY <1>1, <1>2, <1>3 DEF Seen

\* Nothing is committing, and nothing moves.
LEMMA QuietSeen ==
  ASSUME Mapped, Mapped', NoManifestCommitting, NoManifestCommitting', UNCHANGED <<disk, conv, ckpt>>
  PROVE  Seen
  BY DEF Mapped, Seen

\* Whatever is committing, its manifest and the workspace stay as they are.
LEMMA StillSeen ==
  ASSUME Mapped, Mapped', IInv, UNCHANGED <<disk, conv, ckpt>>,
         \A n : Unsettled(n)' <=> Unsettled(n),
         \A n : Unsettled(n) => txs'[n] = txs[n]
  PROVE  Seen
<1>1. CASE NoManifestCommitting
  <2>1. NoManifestCommitting'
    BY <1>1 DEF NoManifestCommitting, Unsettled
  <2> QED
    BY <1>1, <2>1, QuietSeen
<1>2. CASE ~NoManifestCommitting
  <2> PICK n \in DOMAIN txs : Unsettled(n)
    BY <1>2 DEF NoManifestCommitting, Unsettled
  <2>1. txs[n] \in Manifest /\ txs'[n] = txs[n] /\ Unsettled(n)'
    BY Numbered
  <2>2. SameData(txs'[n], txs[n])
    BY <2>1 DEF SameData
  <2> QED
    BY <2>1, <2>2, HiddenSeen
<1> QED
  BY <1>1, <1>2

\* A manifest that begins or ceases to commit does so in the state it found: where
\* its published files, the conversation and the checkpoints are as they were.
LEMMA EdgeSeen ==
  ASSUME Mapped, Mapped', NEW n \in DOMAIN txs, UNCHANGED <<disk, conv, ckpt>>,
         txs[n] \in Manifest, SameData(txs'[n], txs[n]), txs'[n].published = txs[n].published,
         (NoManifestCommitting /\ Unsettled(n)') \/ (Unsettled(n) /\ NoManifestCommitting'),
         \A f \in txs[n].published : disk[f] = txs[n].fwd[f],
         conv = Before(txs[n]),
         WantsConversation(txs[n].scope) =>
           Above(ckpt, txs[n].turn) = (IF txs[n].kind = "rewind" THEN txs[n].backup ELSE {}),
         disk \in Images, ckpt \subseteq Checkpoint
  PROVE  Seen
<1>1. Before(txs'[n]) = Before(txs[n])
  BY SameEnds
<1>2. [f \in Files |-> IF f \in txs[n].published THEN txs[n].fwd[f] ELSE disk[f]] = disk
  BY DEF Images
<1>3. WantsConversation(txs[n].scope) =>
        Below(ckpt, txs[n].turn) \cup (IF txs[n].kind = "rewind" THEN txs[n].backup ELSE {}) = ckpt
  <2>1. ckpt = Below(ckpt, txs[n].turn) \cup Above(ckpt, txs[n].turn)
    BY DEF Below, Above, Checkpoint, Manifest
  <2> QED
    BY <2>1
<1>4. CASE NoManifestCommitting /\ Unsettled(n)'
  <2>1. /\ AbsFiles' = [f \in Files |-> IF f \in txs'[n].published THEN txs'[n].fwd[f] ELSE disk'[f]]
        /\ AbsTalk' = Before(txs'[n])
        /\ AbsCheckpoints' =
             IF WantsConversation(txs'[n].scope)
             THEN Below(ckpt', txs'[n].turn) \cup (IF txs'[n].kind = "rewind" THEN txs'[n].backup ELSE {})
             ELSE ckpt'
    BY <1>4 DEF Mapped, Unsettled
  <2>2. AbsFiles = disk /\ AbsTalk = conv /\ AbsCheckpoints = ckpt
    BY <1>4 DEF Mapped
  <2> QED
    BY <1>1, <1>2, <1>3, <2>1, <2>2 DEF Seen, SameData
<1>5. CASE Unsettled(n) /\ NoManifestCommitting'
  <2>1. /\ AbsFiles = [f \in Files |-> IF f \in txs[n].published THEN txs[n].fwd[f] ELSE disk[f]]
        /\ AbsTalk = Before(txs[n])
        /\ AbsCheckpoints =
             IF WantsConversation(txs[n].scope)
             THEN Below(ckpt, txs[n].turn) \cup (IF txs[n].kind = "rewind" THEN txs[n].backup ELSE {})
             ELSE ckpt
    BY <1>5 DEF Mapped, Unsettled
  <2>2. AbsFiles' = disk' /\ AbsTalk' = conv' /\ AbsCheckpoints' = ckpt'
    BY <1>5 DEF Mapped
  <2> QED
    BY <1>2, <1>3, <2>1, <2>2 DEF Seen
<1> QED
  BY <1>4, <1>5

\* Rewriting the checkpoints from a turn on leaves the earlier ones alone.
LEMMA BelowKept ==
  ASSUME JInv, KInv, orderly, pc \in {"ckpts", "stateCkpt"}, WantsConversation(M.scope),
         \/ Truncating /\ Truncate(M.turn)
         \/ Restoring /\ Restore(M.backup)
         \/ UNCHANGED ckpt
  PROVE  Below(ckpt', M.turn) = Below(ckpt, M.turn)
<1>1. pc \in InFlight /\ pc \in Journalled
  BY DEF InFlight, Working, Forward, Journalled
<1>2. M \in Manifest /\ SameData(M, txs[cur]) /\ cur \in DOMAIN txs /\ ckpt \subseteq Checkpoint
  BY <1>1, InHandEnds DEF JInv, CInv, IInv, SessionOK
<1>3. Sound(M)
  <2>1. txs[cur].state = "committing"
    BY <1>1 DEF JInv, MInv, InStep
  <2>2. Sound(txs[cur])
    BY <1>2, <2>1 DEF KInv, BackupsSound
  <2> QED
    BY <1>2, <2>2, SameCheckpoints
<1>4. M.turn \in Nat /\ M.backup \in SUBSET Checkpoint /\ \A c \in M.backup : c.turn >= M.turn
  BY <1>2, <1>3 DEF Sound, Manifest
<1>5. CASE Truncate(M.turn)
  BY <1>2, <1>4, <1>5, TruncateFacts
<1>6. CASE Restore(M.backup)
  <2>1. ckpt' = Over(M.backup, ckpt)
    BY <1>6 DEF Restore, Merge
  <2> QED
    BY <1>2, <1>4, <2>1, OverFacts
<1> QED
  BY <1>5, <1>6

\* Until the commit point a commit is not seen.
LEMMA CommitSeen ==
  ASSUME JInv, OInv, TInv, KInv, orderly, Mapped, Mapped',
         Commit, ~MarkUndone, ~(Finalize /\ Calm)
  PROVE  Seen
<1>1. /\ pc \in Forward /\ pc \in InFlight /\ pc \in Working
      /\ pc # "prepared" => pc \in Journalled /\ ~BeginCommit
  BY DEF Commit, BeginCommit, PersistIntent, BackupTarget, PublishTarget, PersistProgress,
     FilesDone, CommitConversation, CommitCheckpoints, Finalize, Forward, InFlight, Working, Journalled
<1> PICK c \in DOMAIN txs : c = cur
  BY <1>1, InHandEnds
<1>2. /\ M = txs[c] /\ Progress(M) /\ M \in Manifest /\ txs[c] \in Manifest /\ WellKept(c)
      /\ txs[c].state \in {"prepared", "committing"}
      /\ pc \in Journalled => Unsettled(c)
  BY <1>1, InHandFacts DEF JInv, CInv, MInv, InStep, Unsettled
<1>3. \A n : Unsettled(n) => n = c
  BY <1>1 DEF OInv, Alone, Unsettled
<1>4. IInv /\ disk \in Images /\ ckpt \subseteq Checkpoint
  BY DEF JInv, CInv, IInv, StoreOK, SessionOK
<1>5. CASE UNCHANGED <<txs, disk, conv, ckpt>>
  <2>1. \A n : (Unsettled(n)' <=> Unsettled(n)) /\ (Unsettled(n) => txs'[n] = txs[n])
    BY <1>5 DEF Unsettled
  <2> QED
    BY <1>4, <1>5, <2>1, StillSeen
<1>6. ASSUME UNCHANGED txs, pc \in Journalled, \A f \in Files \ txs[c].published : disk'[f] = disk[f],
             IF WantsConversation(txs[c].scope)
             THEN Below(ckpt', txs[c].turn) = Below(ckpt, txs[c].turn) ELSE ckpt' = ckpt
      PROVE  Seen
  <2>1. Unsettled(c) /\ Unsettled(c)'
    BY <1>2, <1>6 DEF Unsettled
  <2>2. SameData(txs'[c], txs[c]) /\ txs'[c].published = txs[c].published
    BY <1>6 DEF SameData
  <2> QED
    BY <1>2, <1>6, <2>1, <2>2, HiddenSeen
<1>7. CASE BeginCommit /\ ~UNCHANGED txs
  <2> DEFINE m == [M EXCEPT !.state = "committing"]
  <2>1. SameData(m, txs[c]) /\ m.state = "committing" /\ m.published = txs[c].published
    BY <1>2, StateData
  <2>2. txs' = [txs EXCEPT ![c] = m] /\ pc = "prepared" /\ UNCHANGED <<disk, conv, ckpt>>
    BY <1>7 DEF BeginCommit, Persist, PersistFails, store, session, checkpoints
  <2> HIDE DEF m
  <2>3. txs'[c] = m /\ Unsettled(c)'
    BY <2>1, <2>2 DEF Unsettled
  <2>4. CASE Unsettled(c)
    BY <1>2, <2>1, <2>2, <2>3, <2>4, HiddenSeen
  <2>5. CASE ~Unsettled(c)
    <3>1. NoManifestCommitting /\ txs[c].published = {}
      BY <1>2, <1>3, <2>5 DEF NoManifestCommitting, Unsettled, WellKept
    <3>2. conv = Before(txs[c])
      BY <1>2, <2>2 DEF TInv, AtTheEnd, BothAt, Forward
    <3>3. WantsConversation(txs[c].scope) =>
            Above(ckpt, txs[c].turn) = (IF txs[c].kind = "rewind" THEN txs[c].backup ELSE {})
      BY <1>2, <2>2 DEF KInv, ListedInHand, FromHere, Forward
    <3> QED
      BY <1>2, <1>4, <2>1, <2>2, <2>3, <3>1, <3>2, <3>3, EdgeSeen
  <2> QED
    BY <2>4, <2>5
<1>8. CASE PersistIntent /\ ~UNCHANGED txs
  <2> DEFINE g == Min(Unpublished)
             m == [M EXCEPT !.published = @ \cup {g}]
  <2>1. /\ txs' = [txs EXCEPT ![c] = m] /\ pc = "intent" /\ Unpublished # {}
        /\ UNCHANGED <<disk, conv, ckpt>>
    BY <1>8 DEF PersistIntent, Persist, PersistFails, store, session, checkpoints
  <2>2. g \in M.paths \ M.published
    <3>1. Unpublished \in SUBSET Nat
      BY <1>2, BoundsAssumption DEF Unpublished, Manifest
    <3> QED
      BY <2>1, <3>1, MinFacts DEF Unpublished
  <2>3. SameData(m, txs[c]) /\ m.state = txs[c].state /\ m.published = txs[c].published \cup {g}
    BY <1>2 DEF SameData, Manifest
  <2> HIDE DEF g, m
  <2>4. txs'[c] = m /\ Unsettled(c) /\ Unsettled(c)'
    BY <1>1, <1>2, <2>1, <2>3 DEF Unsettled
  <2>5. disk[g] = txs[c].fwd[g]
    BY <1>1, <1>2, <2>2 DEF JInv, Ahead
  <2> QED
    BY <1>2, <2>1, <2>3, <2>4, <2>5, HiddenSeen
<1>9. CASE BackupTarget \/ PublishTarget
  <2>1. at \in txs[c].published
    BY <1>2, <1>9 DEF BackupTarget, PublishTarget, Progress, Waiting
  <2>2. \A f \in Files : f # at => disk'[f] = disk[f]
    BY <1>4, <1>9 DEF BackupTarget, PublishTarget, Images
  <2>3. UNCHANGED <<txs, ckpt>> /\ pc \in Journalled
    BY <1>1, <1>9 DEF BackupTarget, PublishTarget, session, checkpoints
  <2> QED
    BY <1>6, <2>1, <2>2, <2>3
<1>10. CASE CommitConversation
  <2>1. UNCHANGED <<txs, disk, ckpt>> /\ pc \in Journalled
    BY <1>1, <1>10 DEF CommitConversation, store, checkpoints
  <2> QED
    BY <1>6, <2>1
<1>11. CASE CommitCheckpoints
  <2>1. UNCHANGED <<txs, disk>> /\ pc = "ckpts" /\ pc \in Journalled
    BY <1>1, <1>11 DEF CommitCheckpoints, store
  <2>2. CASE WantsConversation(M.scope)
    <3>1. Below(ckpt', M.turn) = Below(ckpt, M.turn)
      BY <1>11, <2>1, <2>2, BelowKept DEF CommitCheckpoints
    <3> QED
      BY <1>2, <1>6, <2>1, <2>2, <3>1
  <2>3. CASE ~WantsConversation(M.scope)
    <3>1. ckpt' = ckpt
      BY <1>11, <2>3 DEF CommitCheckpoints, Truncating, Restoring, checkpoints
    <3> QED
      BY <1>2, <1>6, <2>1, <2>3, <3>1
  <2> QED
    BY <2>2, <2>3
<1>12. CASE PersistProgress \/ FilesDone \/ Finalize \/ ((BeginCommit \/ PersistIntent) /\ UNCHANGED txs)
  <2>1. UNCHANGED <<txs, disk, conv, ckpt>>
    BY <1>12 DEF PersistProgress, FilesDone, Finalize, BeginCommit, PersistIntent, PersistFails,
       store, session, checkpoints
  <2> QED
    BY <1>5, <2>1
<1> QED
  BY <1>7, <1>8, <1>9, <1>10, <1>11, <1>12 DEF Commit

\* Nor is a compensation.
LEMMA CompensationSeen ==
  ASSUME JInv, OInv, TInv, KInv, orderly, Mapped, Mapped',
         \/ CompensateConversation \/ CompensateCheckpoints \/ CompensateFile \/ CompensationDone
  PROVE  Seen
<1>1. /\ pc \in InFlight /\ pc \in Working /\ UNCHANGED txs
      /\ pc \in {"stateConv", "stateCkpt", "comp", "compMove"}
  BY DEF CompensateConversation, CompensateCheckpoints, CompensateFile, CompensateNothing, CompensateUnread,
     CompensateRename, CompensateForeign, CompensateRemove, CompensateMove, CompensationDone,
     Visiting, Visited, Untouched, InFlight, Working, Forward
<1> PICK c \in DOMAIN txs : c = cur
  BY <1>1, InHandEnds
<1>2. /\ SameData(M, txs[c]) /\ M.published = txs[c].published /\ txs[c] \in Manifest /\ WellKept(c)
      /\ txs[c].state \in {"prepared", "committing"}
      /\ pc \in Journalled => Unsettled(c)
  BY <1>1, InHandFacts, Numbered DEF JInv, CInv, MInv, InStep, Unsettled
<1>3. IInv /\ disk \in Images
  BY DEF JInv, CInv, IInv, StoreOK
<1>4. CASE UNCHANGED <<disk, conv, ckpt>>
  <2>1. \A n : (Unsettled(n)' <=> Unsettled(n)) /\ (Unsettled(n) => txs'[n] = txs[n])
    BY <1>1 DEF Unsettled
  <2> QED
    BY <1>3, <1>4, <2>1, StillSeen
<1>5. ASSUME Unsettled(c), \A f \in Files \ txs[c].published : disk'[f] = disk[f],
             IF WantsConversation(txs[c].scope)
             THEN Below(ckpt', txs[c].turn) = Below(ckpt, txs[c].turn) ELSE ckpt' = ckpt
      PROVE  Seen
  <2>1. Unsettled(c)' /\ SameData(txs'[c], txs[c]) /\ txs'[c].published = txs[c].published
    BY <1>1, <1>5 DEF Unsettled, SameData
  <2> QED
    BY <1>2, <1>5, <2>1, HiddenSeen
<1>6. CASE CompensateConversation
  <2>1. UNCHANGED <<disk, ckpt>> /\ pc \in Journalled
    BY <1>6 DEF CompensateConversation, Journalled, store, checkpoints
  <2> QED
    BY <1>2, <1>5, <2>1
<1>7. CASE CompensateCheckpoints
  <2>1. UNCHANGED disk /\ pc = "stateCkpt" /\ pc \in Journalled
    BY <1>7 DEF CompensateCheckpoints, Journalled, store
  <2>2. CASE WantsConversation(M.scope)
    <3>1. Below(ckpt', M.turn) = Below(ckpt, M.turn)
      BY <1>7, <2>1, <2>2, BelowKept DEF CompensateCheckpoints
    <3> QED
      BY <1>2, <1>5, <2>1, <2>2, <3>1 DEF SameData
  <2>3. CASE ~WantsConversation(M.scope)
    <3>1. ckpt' = ckpt
      BY <1>7, <2>3 DEF CompensateCheckpoints, checkpoints
    <3> QED
      BY <1>2, <1>5, <2>1, <2>3, <3>1 DEF SameData
  <2> QED
    BY <2>2, <2>3
<1>8. ASSUME NEW g \in txs[c].published, UNCHANGED <<conv, ckpt>>,
             UNCHANGED disk \/ \E x : disk' = [disk EXCEPT ![g] = x]
      PROVE  Seen
  <2>1. Unsettled(c)
    BY <1>2, <1>8 DEF WellKept, Unsettled
  <2>2. \A f \in Files \ txs[c].published : disk'[f] = disk[f]
    BY <1>3, <1>8 DEF Images
  <2> QED
    BY <1>5, <1>8, <2>1, <2>2
<1>9. CASE CompensateFile
  <2>1. UNCHANGED <<conv, ckpt>>
    BY <1>9 DEF CompensateFile, CompensateNothing, CompensateUnread, CompensateRename, CompensateForeign,
       CompensateRemove, CompensateMove, Untouched, session, checkpoints
  <2>2. \/ UNCHANGED disk
        \/ \E g \in txs[c].published : \E x : disk' = [disk EXCEPT ![g] = x]
    <3>1. CASE CompensateMove
      <4>1. at \in txs[c].published
        BY <1>2, <3>1 DEF CompensateMove, JInv, Back
      <4> QED
        BY <3>1, <4>1 DEF CompensateMove
    <3>2. CASE \E f \in Files : CompensateNothing(f) \/ CompensateUnread(f) \/ CompensateForeign(f)
      BY <3>2 DEF CompensateNothing, CompensateUnread, CompensateForeign, store
    <3>3. ASSUME NEW f \in Files, CompensateRename(f) \/ CompensateRemove(f)
          PROVE  \/ UNCHANGED disk
                 \/ \E g \in txs[c].published : \E x : disk' = [disk EXCEPT ![g] = x]
      <4>1. f \in txs[c].published /\ (UNCHANGED disk \/ \E x : disk' = [disk EXCEPT ![f] = x])
        BY <1>2, <3>3 DEF CompensateRename, CompensateRemove
      <4> QED
        BY <4>1
    <3> QED
      BY <1>9, <3>1, <3>2, <3>3 DEF CompensateFile
  <2> QED
    BY <1>4, <1>8, <2>1, <2>2
<1>10. CASE CompensationDone
  BY <1>4, <1>10 DEF CompensationDone, store, session, checkpoints
<1> QED
  BY <1>6, <1>7, <1>9, <1>10

\* A verdict falls on a workspace that is back where it was, or changes nothing.
LEMMA VerdictSeen ==
  ASSUME JInv, OInv, TInv, KInv, orderly, Mapped, Mapped', Verdict
  PROVE  Seen
<1>1. pc = "verdict" /\ pc \in InFlight /\ pc \in Working /\ UNCHANGED <<disk, conv, ckpt>>
  BY DEF Verdict, InFlight, Working, Forward, store, session, checkpoints
<1> PICK c \in DOMAIN txs : c = cur
  BY <1>1, InHandEnds
<1>2. /\ SameData(M, txs[c]) /\ M \in Manifest /\ M.published = txs[c].published
      /\ txs[c] \in Manifest /\ WellKept(c) /\ txs[c].state \in {"prepared", "committing"}
      /\ Before(M) = Before(txs[c]) /\ M.kind = txs[c].kind
  BY <1>1, InHandFacts, InHandEnds, Numbered DEF JInv, CInv, MInv, InStep, SameData
<1>3. \A n : Unsettled(n) => n = c
  BY <1>1 DEF OInv, Alone, Unsettled
<1>4. IInv /\ disk \in Images /\ ckpt \subseteq Checkpoint
  BY DEF JInv, CInv, IInv, StoreOK, SessionOK
<1>5. CASE UNCHANGED txs
  <2>1. \A n : (Unsettled(n)' <=> Unsettled(n)) /\ (Unsettled(n) => txs'[n] = txs[n])
    BY <1>5 DEF Unsettled
  <2> QED
    BY <1>1, <1>4, <2>1, StillSeen
<1>6. CASE ~UNCHANGED txs
  <2> DEFINE s == IF stateErr \/ compErr THEN "committing" ELSE "aborted"
             m == [M EXCEPT !.state = s]
  <2>1. txs' = [txs EXCEPT ![c] = m]
    BY <1>6 DEF Verdict
  <2>2. SameData(m, M) /\ m.state = s /\ m.published = M.published
    BY <1>2, StateData
  <2> HIDE DEF m
  <2>3. /\ SameData(txs'[c], txs[c]) /\ txs'[c].published = txs[c].published /\ txs'[c].state = s
        /\ \A n \in DOMAIN txs : n # c => txs'[n] = txs[n]
        /\ DOMAIN txs' = DOMAIN txs
    BY <1>2, <2>1, <2>2 DEF SameData
  <2>4. ASSUME ~(Unsettled(c) /\ (stateErr \/ compErr)), Unsettled(c) \/ stateErr \/ compErr
        PROVE  Seen
    <3>1. \A f \in txs[c].published : disk[f] = txs[c].fwd[f]
      <4>1. CASE Unsettled(c)
        BY <1>1, <1>2, <2>4, <4>1 DEF JInv, Back, SameData
      <4>2. CASE ~Unsettled(c)
        BY <1>2, <4>2 DEF WellKept, Unsettled
      <4> QED
        BY <4>1, <4>2
    <3>2. stateErr => txs[c].state # "committing"
      BY <2>4 DEF Unsettled
    <3>3. conv = Before(txs[c])
      BY <1>1, <1>2, <3>2 DEF TInv, AtTheEnd, BothAt
    <3>4. WantsConversation(txs[c].scope) =>
            Above(ckpt, txs[c].turn) = (IF txs[c].kind = "rewind" THEN txs[c].backup ELSE {})
      BY <1>1, <1>2, <3>2 DEF KInv, ListedInHand, FromHere, SameData
    <3>5. (NoManifestCommitting /\ Unsettled(c)') \/ (Unsettled(c) /\ NoManifestCommitting')
      <4>1. CASE Unsettled(c)
        BY <1>3, <2>3, <2>4, <4>1 DEF NoManifestCommitting, Unsettled
      <4>2. CASE ~Unsettled(c)
        BY <1>3, <2>3, <2>4, <4>2 DEF NoManifestCommitting, Unsettled
      <4> QED
        BY <4>1, <4>2
    <3> QED
      BY <1>1, <1>2, <1>4, <2>3, <3>1, <3>3, <3>4, <3>5, EdgeSeen
  <2>5. CASE Unsettled(c) /\ (stateErr \/ compErr)
    <3>1. Unsettled(c)'
      BY <2>3, <2>5 DEF Unsettled
    <3> QED
      BY <1>1, <1>2, <2>3, <2>5, <3>1, HiddenSeen
  <2>6. CASE ~Unsettled(c) /\ ~stateErr /\ ~compErr
    <3>1. NoManifestCommitting /\ NoManifestCommitting'
      BY <1>3, <2>3, <2>6 DEF NoManifestCommitting, Unsettled
    <3> QED
      BY <1>1, <3>1, QuietSeen
  <2> QED
    BY <2>4, <2>5, <2>6
<1> QED
  BY <1>5, <1>6

\* Nor is what recovery discards, takes up or counts, and the mark of an undo.
LEMMA RecoverySeen ==
  ASSUME JInv, Mapped, Mapped',
         Start \/ RecoverPrepared \/ RecoverCommitting \/ PassDone \/ MarkUndone
  PROVE  Seen
<1>1. IInv /\ UNCHANGED <<disk, conv, ckpt>>
  BY DEF Start, RecoverPrepared, RecoverCommitting, PassDone, MarkUndone, store, session, checkpoints,
     JInv, CInv
<1>2. \/ UNCHANGED txs
      \/ \E n \in DOMAIN txs, s \in {"aborted", "undone"} :
           /\ txs[n].state # "committing" /\ txs' = [txs EXCEPT ![n].state = s]
  <2>1. CASE Start \/ RecoverCommitting \/ PassDone
    BY <2>1 DEF Start, RecoverCommitting, PassDone
  <2>2. CASE RecoverPrepared
    <3>1. Min(Remaining) \in DOMAIN txs /\ txs[Min(Remaining)].state = "prepared"
      BY <1>1, <2>2, NextRemaining, Numbered DEF RecoverPrepared
    <3> PICK n \in DOMAIN txs : n = Min(Remaining)
      BY <3>1
    <3>2. UNCHANGED txs \/ txs' = [txs EXCEPT ![n].state = "aborted"]
      BY <2>2 DEF RecoverPrepared
    <3> QED
      BY <3>1, <3>2
  <2>3. CASE MarkUndone
    <3>1. cur \in DOMAIN txs
      BY <1>1, <2>3, Numbered DEF MarkUndone, IInv, ManifestsOK, ControlOK, Working
    <3>2. M.parent \in DOMAIN txs /\ txs[M.parent].state \in {"committed", "undone"}
      BY <2>3, <3>1 DEF MarkUndone, JInv, MInv, InStep, WellKept
    <3> QED
      BY <2>3, <3>2 DEF MarkUndone
  <2> QED
    BY <2>1, <2>2, <2>3
<1>3. \A n : (Unsettled(n)' <=> Unsettled(n)) /\ (Unsettled(n) => txs'[n] = txs[n])
  <2>1. CASE UNCHANGED txs
    BY <2>1 DEF Unsettled
  <2>2. ASSUME NEW n \in DOMAIN txs, NEW s \in {"aborted", "undone"},
               txs[n].state # "committing", txs' = [txs EXCEPT ![n].state = s]
        PROVE  \A k : (Unsettled(k)' <=> Unsettled(k)) /\ (Unsettled(k) => txs'[k] = txs[k])
    <3>1. txs'[n] = [txs[n] EXCEPT !.state = s] /\ txs[n] \in Manifest
      BY <1>1, <2>2, Numbered
    <3>2. txs'[n].state = s
      BY <3>1, StateData
    <3> QED
      BY <2>2, <3>2 DEF Unsettled
  <2> QED
    BY <1>2, <2>1, <2>2
<1> QED
  BY <1>1, <1>3, StillSeen

\* A request only adds a manifest that is not committing.
LEMMA RequestSeen ==
  ASSUME JInv, LInv, Mapped, Mapped', Request
  PROVE  Seen
<1> PICK m \in Manifest : Adds(m)
  BY NewManifest
<1>1. /\ IInv /\ UNCHANGED <<disk, conv, ckpt>>
      /\ txs' = Append(txs, m) /\ m.state # "committing"
  BY DEF Adds, session, checkpoints, JInv, CInv
<1>2. \A n : (Unsettled(n)' <=> Unsettled(n)) /\ (Unsettled(n) => txs'[n] = txs[n])
  BY <1>1, AppendedLast DEF Unsettled
<1> QED
  BY <1>1, <1>2, StillSeen

\* The checkpoints a restart finds are those before the turn of what is committing,
\* and, when nothing is, all.
LEMMA StopSeen ==
  ASSUME JInv, OInv, TInv, KInv, orderly, orderly', Mapped, Mapped', Crash \/ Shutdown
  PROVE  Seen
<1> PICK files : Stop(files) /\ files \subseteq HalfDone \cup {ckptDisk}
  BY DEF Crash, Shutdown
<1>1. /\ UNCHANGED <<txs, disk>> /\ conv' = convDisk /\ ckpt' = ckptDisk' /\ Resumable
      /\ ckptDisk' \in HalfDone \cup {ckptDisk}
  BY DEF Stop, store
<1>2. /\ ckptDisk \subseteq Checkpoint /\ ckpt \subseteq Checkpoint /\ IInv /\ BackupsSound /\ Listed
  BY DEF JInv, CInv, IInv, SessionOK, KInv
<1>3. /\ ckptDisk \subseteq ckpt \cup BackedUp /\ ckpt \subseteq ckptDisk \cup BackedUp
      /\ pc = "idle" => convDisk = conv
  BY <1>1 DEF Resumable, Leftover, Lost
<1>4. pc \in {"ckpts", "stateCkpt"} =>
        cur \in DOMAIN txs /\ Unsettled(cur) /\ SameData(M, txs[cur]) /\ M \in Manifest /\ Sound(M)
  <2> SUFFICES ASSUME pc \in {"ckpts", "stateCkpt"}
               PROVE  cur \in DOMAIN txs /\ Unsettled(cur) /\ SameData(M, txs[cur]) /\ M \in Manifest /\ Sound(M)
    OBVIOUS
  <2>1. pc \in InFlight /\ pc \in Journalled
    BY DEF InFlight, Working, Journalled, Forward
  <2>2. cur \in DOMAIN txs /\ SameData(M, txs[cur]) /\ M \in Manifest
    BY <2>1, InHandEnds
  <2>3. Unsettled(cur)
    BY <2>1, <2>2 DEF JInv, MInv, InStep, Unsettled
  <2> QED
    BY <1>2, <2>2, <2>3, SameCheckpoints DEF BackupsSound, Unsettled
<1>5. \/ ckpt' = ckptDisk
      \/ /\ pc \in {"ckpts", "stateCkpt"} /\ WantsConversation(M.scope)
         /\ Below(ckpt', M.turn) = Below(ckptDisk, M.turn)
  BY <1>1, <1>2, <1>4, HalfDoneParted
<1>6. CASE NoManifestCommitting
  <2>1. NoManifestCommitting' /\ \A n \in DOMAIN txs : ~Unsettled(n)
    BY <1>1, <1>6 DEF NoManifestCommitting, Unsettled
  <2>2. conv' = conv
    BY <1>1, <1>3, <1>6 DEF TInv, AtAnEnd
  <2>3. BackedUp = {}
    BY <1>6 DEF NoManifestCommitting, BackedUp
  <2>4. ckpt' = ckpt
    BY <1>3, <1>4, <1>5, <2>1, <2>3
  <2> QED
    BY <1>1, <1>6, <2>1, <2>2, <2>4, QuietSeen
<1>7. ASSUME NEW n \in DOMAIN txs, Unsettled(n) PROVE Seen
  <2>1. \A k \in DOMAIN txs : Unsettled(k) => k = n
    BY <1>7 DEF OInv, Alone
  <2>2. txs[n] \in Manifest /\ Sound(txs[n]) /\ Unsettled(n)' /\ SameData(txs'[n], txs[n])
    BY <1>1, <1>2, <1>7, Numbered DEF BackupsSound, Unsettled, SameData
  <2>3. BackedUp \subseteq txs[n].backup
    BY <2>1 DEF BackedUp, Unsettled
  <2>4. CASE WantsConversation(txs[n].scope)
    <3>1. Parted(txs[n]) /\ \A b \in txs[n].backup : b.turn >= txs[n].turn
      BY <1>2, <1>7, <2>2, <2>4 DEF Listed, Active, Sound
    <3>2. txs[n].turn \in Nat /\ txs[n].backup \in SUBSET Checkpoint
      BY <2>2 DEF Manifest
    <3>3. /\ \A c \in ckptDisk : c.turn \in Nat /\ (c \in ckpt \/ c \in txs[n].backup)
          /\ \A c \in ckpt : c.turn \in Nat /\ (c \in ckptDisk \/ c \in txs[n].backup)
      BY <1>2, <1>3, <2>3 DEF Checkpoint
    <3>4. Below(ckptDisk, txs[n].turn) = Below(ckpt, txs[n].turn)
      BY <3>1, <3>2, <3>3 DEF Below
    <3>5. Below(ckpt', txs[n].turn) = Below(ckptDisk, txs[n].turn)
      BY <1>4, <1>5, <2>1 DEF SameData
    <3> QED
      BY <1>1, <1>7, <2>2, <2>4, <3>4, <3>5, HiddenSeen
  <2>5. CASE ~WantsConversation(txs[n].scope)
    <3>1. ckpt = ckptDisk
      BY <1>3, <2>2, <2>3, <2>5 DEF Sound
    <3>2. ckpt' = ckptDisk
      BY <1>4, <1>5, <2>1, <2>5 DEF SameData
    <3> QED
      BY <1>1, <1>7, <2>2, <2>5, <3>1, <3>2, HiddenSeen
  <2> QED
    BY <2>4, <2>5
<1> QED
  BY <1>6, <1>7 DEF NoManifestCommitting, Unsettled

\* No turn is listed twice, and no backup lists one twice.
OnePerTurn(cs) == \A c, d \in cs : c.turn = d.turn => c = d
EachOnce ==
  /\ OnePerTurn(AbsCheckpoints)
  /\ \A n \in DOMAIN txs : txs[n].state # "aborted" => OnePerTurn(txs[n].backup)

\* An undo is its parent the other way round.
Mirrors(n) ==
  LET p == txs[n].parent
  IN /\ txs[n].paths = txs[p].paths /\ txs[n].turn = txs[p].turn /\ txs[n].backup = txs[p].backup
     /\ txs[n].restore = txs[p].fwd /\ txs[n].fwd = txs[p].restore
Mirrored == \A n \in DOMAIN txs : txs[n].kind = "undo" => Mirrors(n)

\* The image is what f held before the first of the turns in cs that touched it.
OldestPre(f, image, cs) ==
  \E c \in cs : /\ f \in c.touched /\ c.pre[f] = image
                /\ \A d \in cs : f \in d.touched => c.turn <= d.turn

\* A rewind still fits what is seen: it was prepared for this very state.
Fits(m) ==
  /\ m.fwd = AbsFiles /\ m.forward = AbsTalk
  /\ \A f \in m.paths : OldestPre(f, m.restore[f], Above(AbsCheckpoints, m.turn))
  /\ m.scope = "file" => m.turn = 1 /\ \E f \in Files : m.paths = {f}
  /\ m.scope # "file" =>
       /\ \E c \in AbsCheckpoints : c.turn = m.turn /\ c.boundary = m.boundary
       /\ WantsConversation(m.scope) => m.backup = Above(AbsCheckpoints, m.turn)
       /\ WantsFiles(m.scope) =>
            \A f \in Files \ m.paths : \A c \in Above(AbsCheckpoints, m.turn) : f \notin c.touched
       /\ ~WantsFiles(m.scope) => m.paths = {}
Fitting == pc \in Forward /\ M.kind = "rewind" => Fits(M)

\* Unless turns came since, the files are as the newest standing rewind left them,
\* and so it was, of the one before, when that one was prepared.
Produced(m) == [f \in Files |-> IF f \in m.paths THEN m.restore[f] ELSE m.fwd[f]]
LeftBy(m, when, files) == m.when = when => files = Produced(m)
FilesFollow ==
  /\ \A i \in DOMAIN txs : Top(i) => LeftBy(txs[i], turns, AbsFiles)
  /\ \A i, j \in UndoCandidates :
       i < j /\ (\A k \in UndoCandidates : k <= i \/ j <= k) => LeftBy(txs[i], txs[j].when, txs[j].fwd)

Steady == orderly /\ edits = 0
RInv == Mirrored /\ (Steady => EachOnce /\ Fitting /\ FilesFollow)

\* Only a request adds a manifest.
LEMMA OnlyRequestsAdd ==
  ASSUME JInv, [Next]_vars, Kept
  PROVE  Request \/ DOMAIN txs' = DOMAIN txs
  BY DEF Next, Environment, Commit, Recover, Turn, BlockedTurn, BrokenTurn, ExternalEdit, Crash,
     Shutdown, Stop, vars, BeginCommit, PersistIntent, BackupTarget, PublishTarget, PersistProgress,
     FilesDone, CommitConversation, CommitCheckpoints, Finalize, MarkUndone, CompensateConversation,
     CompensateCheckpoints, CompensateFile, CompensateNothing, CompensateUnread, CompensateRename,
     CompensateForeign, CompensateRemove, CompensateMove, CompensationDone, Verdict, Start,
     RecoverPrepared, RecoverCommitting, PassDone, Untouched, Persist, PersistFails

\* An undo stays its parent the other way round.
LEMMA NextMirrored == JInv /\ LInv /\ Mirrored /\ [Next]_vars => Mirrored'
<1> SUFFICES ASSUME JInv, LInv, Mirrored, [Next]_vars, NEW n \in DOMAIN txs', txs'[n].kind = "undo"
             PROVE  Mirrors(n)'
  BY DEF Mirrored
<1>1. Kept
  BY NextKept DEF JInv
<1>2. CASE n \in DOMAIN txs
  <2>1. SameData(txs'[n], txs[n]) /\ txs[n].kind = "undo" /\ Mirrors(n) /\ WellKept(n)
    BY <1>1, <1>2 DEF Kept, Evolves, SameData, Mirrored, JInv, MInv
  <2>2. SameData(txs'[txs[n].parent], txs[txs[n].parent])
    BY <1>1, <2>1 DEF WellKept, Kept, Evolves
  <2> QED
    BY <2>1, <2>2 DEF Mirrors, SameData
<1>3. CASE n \notin DOMAIN txs
  <2>1. Request
    BY <1>1, <1>3, OnlyRequestsAdd
  <2> PICK m \in Manifest : txs' = Append(txs, m) /\ Asked(m)
    BY <2>1, NewManifest
  <2>2. txs'[n] = m /\ \A i \in DOMAIN txs : txs'[i] = txs[i]
    BY <1>3, AppendedLast DEF JInv, CInv
  <2>3. /\ m.kind = "undo" /\ m.parent = lastUndo /\ lastUndo \in DOMAIN txs
        /\ m.paths = txs[lastUndo].paths /\ m.turn = txs[lastUndo].turn
        /\ m.backup = txs[lastUndo].backup
        /\ m.restore = txs[lastUndo].fwd /\ m.fwd = txs[lastUndo].restore
    BY <2>2, AskedFacts DEF JInv, CInv
  <2> QED
    BY <2>2, <2>3 DEF Mirrors
<1> QED
  BY <1>2, <1>3

\* The first preimage of a path is found where EarliestPre looks for it.
LEMMA EarliestOldest ==
  ASSUME ckpt \subseteq Checkpoint, OnePerTurn(ckpt), NEW t \in Nat, NEW f \in TouchedFrom(t)
  PROVE  OldestPre(f, EarliestPre(t, f), Above(ckpt, t))
<1> DEFINE S == Touching(t, f)
           i == Min(S)
           c == CheckpointOf(i)
<1>1. S \in SUBSET Nat /\ S # {}
  BY DEF TouchedFrom, Touching, Checkpoint
<1>2. i \in S /\ \A y \in S : i <= y
  BY <1>1, MinFacts
<1>3. S = {d.turn : d \in {e \in ckpt : e.turn >= t /\ f \in e.touched}}
  BY DEF Touching
<1>4. EarliestPre(t, f) = c.pre[f]
  BY DEF EarliestPre
<1> HIDE DEF S, i
<1> PICK d \in ckpt : d.turn >= t /\ f \in d.touched /\ d.turn = i
  BY <1>2, <1>3
<1>5. c \in ckpt /\ c.turn = i
  BY DEF CheckpointOf
<1>6. c = d
  BY <1>5 DEF OnePerTurn
<1> HIDE DEF c
<1>7. \A e \in Above(ckpt, t) : f \in e.touched => c.turn <= e.turn
  BY <1>2, <1>3, <1>5 DEF Above
<1> QED
  BY <1>4, <1>5, <1>6, <1>7 DEF OldestPre, Above

\* What PrepareRewind prepares fits what is there.
LEMMA RewindFits ==
  ASSUME IInv, Mapped, NoManifestCommitting, OnePerTurn(ckpt),
         NEW t \in TurnsOf(ckpt), NEW scope \in Scopes \ {"file"}
  PROVE  Fits(RewindManifest(t, scope))
<1> DEFINE m == RewindManifest(t, scope)
<1>1. AbsFiles = disk /\ AbsTalk = conv /\ AbsCheckpoints = ckpt
  BY DEF Mapped
<1>2. ckpt \subseteq Checkpoint /\ t \in Nat
  BY DEF IInv, SessionOK, TurnsOf, Checkpoint
<1>3. /\ m.scope = scope /\ m.turn = t /\ m.forward = conv /\ m.fwd = disk
      /\ m.boundary = CheckpointOf(t).boundary
      /\ m.backup = (IF WantsConversation(scope) THEN CheckpointsFrom(t) ELSE {})
      /\ m.paths = (IF WantsFiles(scope) THEN TouchedFrom(t) ELSE {})
      /\ m.restore = [f \in Files |-> IF f \in TouchedFrom(t) THEN EarliestPre(t, f) ELSE disk[f]]
  BY DEF RewindManifest
<1> HIDE DEF m
<1>4. \A f \in TouchedFrom(t) : f \in Files
  BY DEF TouchedFrom
<1>5. \A f \in TouchedFrom(t) : OldestPre(f, EarliestPre(t, f), Above(ckpt, t))
  BY <1>2, EarliestOldest
<1>6. \A f \in m.paths : OldestPre(f, m.restore[f], Above(AbsCheckpoints, m.turn))
  BY <1>1, <1>3, <1>4, <1>5
<1>7. CheckpointOf(t) \in ckpt /\ CheckpointOf(t).turn = t
  BY DEF CheckpointOf, TurnsOf
<1>8. \A f \in Files \ TouchedFrom(t) : \A c \in Above(ckpt, t) : f \notin c.touched
  BY DEF TouchedFrom, Touching, Above
<1>9. m.scope # "file" /\ CheckpointsFrom(t) = Above(ckpt, t)
  BY <1>3 DEF CheckpointsFrom, Above
<1>10. Fits(m)
  BY <1>1, <1>3, <1>6, <1>7, <1>8, <1>9 DEF Fits
<1> QED
  BY <1>10 DEF m

\* ... and so does the reversal of one file.
LEMMA FileRevertFits ==
  ASSUME IInv, Mapped, NoManifestCommitting, OnePerTurn(ckpt), NEW g \in TouchedFrom(1)
  PROVE  Fits(FileRevertManifest(g))
<1> DEFINE m == FileRevertManifest(g)
<1>1. AbsFiles = disk /\ AbsTalk = conv /\ AbsCheckpoints = ckpt
  BY DEF Mapped
<1>2. ckpt \subseteq Checkpoint /\ disk \in Images /\ g \in Files
  BY DEF IInv, SessionOK, StoreOK, TouchedFrom
<1>3. /\ m.scope = "file" /\ m.turn = 1 /\ m.forward = conv /\ m.fwd = disk /\ m.paths = {g}
      /\ m.restore = [disk EXCEPT ![g] = EarliestPre(1, g)]
  BY DEF FileRevertManifest
<1> HIDE DEF m
<1>4. OldestPre(g, EarliestPre(1, g), Above(ckpt, 1))
  BY <1>2, EarliestOldest
<1>5. m.restore[g] = EarliestPre(1, g)
  BY <1>2, <1>3 DEF Images
<1>6. Fits(m)
  BY <1>1, <1>2, <1>3, <1>4, <1>5 DEF Fits
<1> QED
  BY <1>6 DEF m

\* Whatever is prepared fits, once it is asked for while nothing is committing.
LEMMA AskedFits ==
  ASSUME IInv, Mapped, NoManifestCommitting, OnePerTurn(ckpt),
         NEW m \in Manifest, Asked(m), m.kind = "rewind"
  PROVE  OnePerTurn(m.backup) /\ Fits(m)
<1>1. ASSUME NEW o \in Manifest, SameButState(m, o), Fits(o), o.backup \subseteq ckpt
      PROVE  OnePerTurn(m.backup) /\ Fits(m)
  <2>1. /\ m.scope = o.scope /\ m.turn = o.turn /\ m.boundary = o.boundary /\ m.forward = o.forward
        /\ m.backup = o.backup /\ m.paths = o.paths /\ m.restore = o.restore /\ m.fwd = o.fwd
    BY <1>1, ButState
  <2>2. Fits(m)
    BY <1>1, <2>1 DEF Fits
  <2> QED
    BY <1>1, <2>1, <2>2 DEF OnePerTurn
<1>2. ASSUME NEW t, NEW scope, Rewinds(m, t, scope)
      PROVE  OnePerTurn(m.backup) /\ Fits(m)
  <2> DEFINE o == RewindManifest(t, scope)
  <2>1. t \in TurnsOf(ckpt) /\ scope \in Scopes \ {"file"} /\ SameButState(m, o)
    BY <1>2 DEF Rewinds
  <2>2. o \in Manifest /\ Fits(o)
    BY <2>1, RewindManifestFacts, RewindFits
  <2>3. o.backup \subseteq ckpt
    <3>1. o.backup = IF WantsConversation(scope) THEN CheckpointsFrom(t) ELSE {}
      BY DEF RewindManifest
    <3> QED
      BY <3>1 DEF CheckpointsFrom
  <2> HIDE DEF o
  <2> QED
    BY <1>1, <2>1, <2>2, <2>3
<1>3. ASSUME NEW f, Reverts(m, f)
      PROVE  OnePerTurn(m.backup) /\ Fits(m)
  <2> DEFINE o == FileRevertManifest(f)
  <2>1. f \in Files /\ f \in TouchedFrom(1) /\ "file" \in Scopes /\ SameButState(m, o)
    BY <1>3 DEF Reverts
  <2>2. o \in Manifest /\ Fits(o) /\ o.backup = {}
    BY <2>1, FileRevertManifestFacts, FileRevertFits DEF FileRevertManifest
  <2> HIDE DEF o
  <2> QED
    BY <1>1, <2>1, <2>2
<1>4. ~Undoes(m)
  <2> SUFFICES ASSUME Undoes(m) PROVE FALSE
    OBVIOUS
  <2>1. UndoManifest(lastUndo) \in Manifest /\ lastUndo \in DOMAIN txs /\ txs[lastUndo] \in Manifest
    BY UndoManifestFacts, Numbered DEF Undoes, UndoAllowed, IInv, ManifestsOK
  <2>2. UndoManifest(lastUndo).kind = "undo"
    BY <2>1 DEF UndoManifest, Manifest
  <2> QED
    BY <2>1, <2>2, ButState DEF Undoes
<1> QED
  BY <1>2, <1>3, <1>4 DEF Asked

\* A commit that goes on has the manifest it had.
LEMMA SameInHand ==
  ASSUME JInv, JInv', Kept, Next, pc' \in Forward, ~Request
  PROVE  pc \in Forward /\ SameData(M', M)
<1>1. pc \in Forward /\ cur' = cur
  BY DEF Next, Environment, Turn, BlockedTurn, BrokenTurn, ExternalEdit, Crash, Shutdown, Stop, Commit,
     BeginCommit, PersistIntent, BackupTarget, PublishTarget, PersistProgress, FilesDone,
     CommitConversation, CommitCheckpoints, Finalize, MarkUndone, Recover, CompensateConversation,
     CompensateCheckpoints, CompensateFile, CompensateNothing, CompensateUnread, CompensateRename,
     CompensateForeign, CompensateRemove, CompensateMove, CompensationDone, Verdict, Start,
     RecoverPrepared, RecoverCommitting, PassDone,
     Visiting, Visited, Untouched, Compensate, CompensateState, control, Forward
<1>2. M = txs[cur] /\ M' = txs'[cur'] /\ cur \in DOMAIN txs
  <2>1. M = txs[cur] /\ M' = txs'[cur']
    BY <1>1 DEF JInv, CInv, Underway
  <2>2. cur \in DOMAIN txs
    BY <1>1, InHandFacts DEF JInv, InFlight, Working, Forward
  <2> QED
    BY <2>1, <2>2
<1>3. SameData(txs'[cur], txs[cur])
  BY <1>2 DEF Kept, Evolves
<1> QED
  BY <1>1, <1>2, <1>3

\* A step that is not seen leaves everything prepared, standing and backed up in place.
LEMMA SeenKept ==
  ASSUME JInv, LInv, JInv', Kept, RInv, Mapped, orderly', Steady, Next, Seen,
         UndoCandidates' = UndoCandidates, turns' = turns
  PROVE  EachOnce' /\ Fitting' /\ FilesFollow'
<1>1. EachOnce /\ Fitting /\ FilesFollow
  BY DEF RInv
<1>2. /\ AbsFiles' = AbsFiles /\ AbsTalk' = AbsTalk /\ AbsCheckpoints' = AbsCheckpoints
      /\ [Next]_vars /\ IInv
  BY DEF Seen, JInv, CInv
<1>3. ASSUME NEW m \in Manifest, Adds(m), Asked(m), m.state # "aborted"
      PROVE  OnePerTurn(m.backup) /\ (m.kind = "rewind" /\ orderly' => Fits(m))
  <2>1. CASE m.kind = "rewind"
    <3>1. NoManifestCommitting
      BY <1>3, <2>1 DEF Adds
    <3>2. OnePerTurn(ckpt)
      BY <1>1, <3>1 DEF EachOnce, Mapped
    <3> QED
      BY <1>2, <1>3, <2>1, <3>1, <3>2, AskedFits
  <2>2. CASE m.kind = "undo"
    <3> PICK p \in DOMAIN txs : m.backup = txs[p].backup /\ txs[p].state = "committed"
      BY <1>2, <1>3, <2>2, AskedFacts
    <3> QED
      BY <1>1, <2>2 DEF EachOnce
  <2> QED
    BY <2>1, <2>2 DEF Manifest
<1>4. EachOnce'
  <2> SUFFICES ASSUME NEW n \in DOMAIN txs', txs'[n].state # "aborted" PROVE OnePerTurn(txs'[n].backup)
    BY <1>1, <1>2 DEF EachOnce, OnePerTurn
  <2>1. CASE n \in DOMAIN txs
    <3>1. txs'[n].backup = txs[n].backup /\ txs[n].state # "aborted"
      BY <2>1 DEF Kept, Evolves, SameData, StateMove
    <3> QED
      BY <1>1, <2>1, <3>1 DEF EachOnce
  <2>2. CASE n \notin DOMAIN txs
    <3>1. Request
      BY <1>2, <2>2, OnlyRequestsAdd
    <3> PICK m \in Manifest : txs' = Append(txs, m) /\ Adds(m) /\ Asked(m)
      BY <3>1, NewManifest
    <3>2. txs'[n] = m
      BY <1>2, <2>2, AppendedLast
    <3> QED
      BY <1>3, <3>2
  <2> QED
    BY <2>1, <2>2
<1>5. Fitting'
  <2> SUFFICES ASSUME pc' \in Forward, M'.kind = "rewind" PROVE Fits(M)'
    BY DEF Fitting
  <2>1. CASE ~Request
    <3>1. pc \in Forward /\ SameData(M', M)
      BY <2>1, SameInHand
    <3>2. Fits(M)
      BY <1>1, <3>1 DEF Fitting, SameData
    <3> QED
      BY <1>2, <3>1, <3>2 DEF Fits, SameData
  <2>2. CASE Request
    <3> PICK m \in Manifest : Adds(m) /\ Asked(m)
      BY <2>2, NewManifest
    <3>1. mem' = <<m>> /\ m.state = "prepared"
      BY DEF Adds, Forward
    <3>2. M' = m
      BY <3>1 DEF M
    <3>3. Fits(m)
      BY <1>3, <3>1, <3>2
    <3> QED
      BY <1>2, <3>2, <3>3 DEF Fits
  <2> QED
    BY <2>1, <2>2
<1>6. FilesFollow'
  <2>1. \A i \in UndoCandidates : i \in DOMAIN txs /\ i \in DOMAIN txs' /\ SameData(txs'[i], txs[i])
    BY DEF UndoCandidates, Kept, Evolves
  <2>2. ASSUME NEW i \in UndoCandidates, NEW when, NEW files, LeftBy(txs[i], when, files)
        PROVE  LeftBy(txs'[i], when, files)
    <3>1. SameData(txs'[i], txs[i])
      BY <2>1
    <3>2. Produced(txs'[i]) = Produced(txs[i])
      BY <3>1 DEF Produced, SameData
    <3> QED
      BY <2>2, <3>1, <3>2 DEF LeftBy, SameData
  <2>3. \A i \in DOMAIN txs' : Top(i)' => Top(i) /\ i \in UndoCandidates /\ i \in DOMAIN txs
    BY <2>1 DEF Top
  <2>4. \A i \in DOMAIN txs' : Top(i)' => LeftBy(txs'[i], turns', AbsFiles')
    BY <1>1, <1>2, <2>2, <2>3 DEF FilesFollow
  <2>5. ASSUME NEW i \in UndoCandidates', NEW j \in UndoCandidates', i < j,
               \A k \in UndoCandidates' : k <= i \/ j <= k
        PROVE  LeftBy(txs'[i], txs'[j].when, txs'[j].fwd)
    <3>1. txs'[j].when = txs[j].when /\ txs'[j].fwd = txs[j].fwd
      BY <2>1 DEF SameData
    <3>2. LeftBy(txs[i], txs[j].when, txs[j].fwd)
      BY <1>1, <2>5 DEF FilesFollow
    <3> QED
      BY <2>2, <3>1, <3>2
  <2> QED
    BY <2>4, <2>5 DEF FilesFollow, LeftBy, Produced
<1> QED
  BY <1>4, <1>5, <1>6

\* What a turn does, seen through the mapping, however it ends.
LEMMA TurnSeen ==
  ASSUME JInv, LInv, KInv, orderly, orderly', Mapped, Mapped', AnyTurn
  PROVE  \E c \in Checkpoint :
           /\ AbsFiles' \in [Files -> Image] /\ \A f \in Files \ c.touched : AbsFiles'[f] = AbsFiles[f]
           /\ AbsTalk' \in {AbsTalk, Append(AbsTalk, turns + 1)}
           /\ AbsCheckpoints' = AbsCheckpoints \cup {c}
           /\ c.pre = AbsFiles /\ c.boundary = Len(AbsTalk)
           /\ \A d \in AbsCheckpoints : d.turn < c.turn
           /\ c.turn \in 1..MaxTurns /\ turns + 1 \in 1..MaxTurns
           /\ turns' = turns + 1 /\ UNCHANGED txs /\ pc' \in {"idle", "down"}
<1> PICK c \in Checkpoint :
      /\ Opens(c) /\ ckpt' = ckpt \cup {c} /\ c.turn = NextTurn
      /\ c.boundary = Len(conv) /\ c.pre = disk
      /\ conv' \in {conv, Append(conv, turns + 1)} /\ pc' \in {"idle", "down"}
      /\ NoManifestCommitting /\ turns' = turns + 1 /\ UNCHANGED txs
      /\ \A d \in ckpt : d.turn < c.turn
  BY OrderlyTurn DEF JInv, CInv, LInv
<1>1. NoManifestCommitting'
  BY DEF NoManifestCommitting
<1>2. /\ AbsFiles = disk /\ AbsTalk = conv /\ AbsCheckpoints = ckpt
      /\ AbsFiles' = disk' /\ AbsTalk' = conv' /\ AbsCheckpoints' = ckpt'
  BY <1>1 DEF Mapped
<1>3. turns \in Nat /\ MaxTurns \in Nat /\ turns < MaxTurns
  BY BoundsAssumption DEF JInv, CInv, IInv, CountersOK, Opens
<1>4. c.turn \in 1..MaxTurns /\ turns + 1 \in 1..MaxTurns
  BY <1>3, NextTurnFacts DEF JInv, CInv
<1>5. disk' \in [Files -> Image] /\ \A f \in Files \ c.touched : disk'[f] = disk[f]
  BY DEF Opens, Images
<1> QED
  BY <1>2, <1>4, <1>5

\* A turn opens a checkpoint of its own, and is later than every rewind.
LEMMA TurnKept ==
  ASSUME JInv, LInv, KInv, Kept, RInv, Mapped, Mapped', orderly', Steady, AnyTurn
  PROVE  EachOnce' /\ Fitting' /\ FilesFollow'
<1> PICK c \in Checkpoint :
      /\ AbsCheckpoints' = AbsCheckpoints \cup {c}
      /\ \A d \in AbsCheckpoints : d.turn < c.turn
      /\ turns' = turns + 1 /\ UNCHANGED txs /\ pc' \in {"idle", "down"}
  BY TurnSeen DEF Steady
<1>1. EachOnce /\ FilesFollow /\ c.turn \in Nat
  BY DEF RInv, Checkpoint
<1>2. EachOnce'
  <2>1. OnePerTurn(AbsCheckpoints')
    BY <1>1 DEF EachOnce, OnePerTurn
  <2> QED
    BY <1>1, <2>1 DEF EachOnce, OnePerTurn
<1>3. \A n \in DOMAIN txs : txs[n].when # turns'
  <2>1. turns \in Nat
    BY BoundsAssumption DEF JInv, CInv, IInv, CountersOK
  <2>2. \A n \in DOMAIN txs : txs[n].when \in Nat /\ txs[n].when <= turns
    BY Numbered DEF JInv, CInv, LInv, Heard, Manifest
  <2> QED
    BY <2>1, <2>2
<1>4. FilesFollow'
  <2>1. \A i \in DOMAIN txs' : LeftBy(txs'[i], turns', AbsFiles')
    BY <1>3 DEF LeftBy
  <2>2. UndoCandidates' = UndoCandidates
    BY DEF UndoCandidates
  <2> QED
    BY <1>1, <2>1, <2>2 DEF FilesFollow, LeftBy, Produced
<1> QED
  BY <1>2, <1>4 DEF Fitting, Forward

\* The commit point, seen through the mapping: what was hidden appears at once.
LEMMA CommitPoint ==
  ASSUME JInv, LInv, OInv, TInv, KInv, Kept, orderly, Mapped, Mapped', Finalize, Calm
  PROVE  /\ M \in Manifest /\ M.kind \in {"rewind", "undo"} /\ cur \in DOMAIN txs /\ M = txs[cur] /\ pc \in Forward
         /\ \A i \in UndoCandidates : i < cur
         /\ \A f \in Files : disk[f] = IF f \in M.paths THEN M.restore[f] ELSE AbsFiles[f]
         /\ AbsFiles' = disk
         /\ AbsTalk = Before(M) /\ AbsTalk' = After(M)
         /\ Sound(M) /\ AbsCheckpoints \subseteq Checkpoint
         /\ (M.scope = "file" => \A d \in AbsCheckpoints : d.turn >= 1)
         /\ M.kind = "rewind" => /\ AbsCheckpoints' = AbsCheckpoints \ M.backup
                                 /\ UndoCandidates' = UndoCandidates \cup {cur}
         /\ M.kind = "undo" => /\ AbsCheckpoints' = AbsCheckpoints \cup M.backup
                               /\ \A d \in AbsCheckpoints, b \in M.backup : d.turn # b.turn
                               /\ UndoCandidates' = UndoCandidates \ {M.parent}
                               /\ Top(M.parent)
<1> DEFINE m == [M EXCEPT !.state = "committed"]
<1>1. /\ pc = "finalize" /\ pc \in InFlight /\ pc \in Forward /\ pc \in Journalled /\ pc \in Working
      /\ UNCHANGED <<disk, conv, ckpt>>
  BY DEF Finalize, InFlight, Working, Forward, Journalled, session, store, checkpoints
<1> PICK c \in DOMAIN txs : c = cur
  BY <1>1, InHandEnds
<1>2. /\ BothAt(After(M)) /\ Alone /\ M = txs[c] /\ M \in Manifest
      /\ Unsettled(c) /\ M.kind \in {"rewind", "undo"} /\ WellKept(c) /\ Progress(M)
      /\ c = Len(txs) /\ (M.kind = "undo" => Top(M.parent))
  BY <1>1, InHandFacts, InHandEnds
     DEF TInv, OInv, AtTheEnd, JInv, MInv, CInv, InStep, LInv, Newest, Unsettled, Underway
<1>3. SameData(m, M) /\ m.state = "committed" /\ m.kind = M.kind /\ m.parent = M.parent
  BY <1>2, StateData DEF SameData
<1>4. txs' = [txs EXCEPT ![c] = m]
  <2>1. disturbed' # disturbed + 1
    BY DEF Calm, JInv, CInv, IInv, CountersOK
  <2> QED
    BY <2>1 DEF Finalize, Fault
<1> HIDE DEF m
<1>5. /\ DOMAIN txs' = DOMAIN txs /\ txs'[c] = m
      /\ \A n \in DOMAIN txs : n # c => txs'[n] = txs[n]
      /\ \A n \in DOMAIN txs : SameData(txs'[n], txs[n])
      /\ DOMAIN txs = 1..Len(txs) /\ Len(txs) \in Nat
  BY <1>4, Numbered DEF Kept, Evolves, JInv, CInv
<1>6. NoManifestCommitting'
  BY <1>2, <1>3, <1>5 DEF Alone, Unsettled, NoManifestCommitting
<1>6a. /\ \A i \in UndoCandidates : i < c
       /\ M.kind = "rewind" => UndoCandidates' = UndoCandidates \cup {c}
       /\ M.kind = "undo" => UndoCandidates' = UndoCandidates \ {M.parent}
  BY <1>1, <1>2, <1>3, <1>4, CandidatesAtCommit
<1>7. AbsFiles' = disk /\ AbsTalk' = After(M) /\ AbsCheckpoints' = ckpt
  BY <1>1, <1>2, <1>6 DEF Mapped, BothAt
<1>8. /\ AbsFiles = [f \in Files |-> IF f \in M.published THEN M.fwd[f] ELSE disk[f]]
      /\ AbsTalk = Before(M)
      /\ AbsCheckpoints =
           IF WantsConversation(M.scope)
           THEN Below(ckpt, M.turn) \cup (IF M.kind = "rewind" THEN M.backup ELSE {})
           ELSE ckpt
  BY <1>2 DEF Mapped
<1>9. M.published = M.paths
  BY <1>1, <1>2 DEF WellKept, Progress, NoneLeft
<1>10. \A f \in Files : disk[f] = IF f \in M.paths THEN M.restore[f] ELSE AbsFiles[f]
  <2>1. \A f \in M.paths : disk[f] = M.restore[f]
    BY <1>1, <1>2, <1>9 DEF Progress, InPlace, InHand
  <2> QED
    BY <1>8, <1>9, <2>1
<1>12. /\ Sound(M) /\ (WantsConversation(M.scope) => FromHere(M, M.kind = "undo"))
       /\ ckpt \subseteq Checkpoint /\ M.turn \in Nat /\ M.backup \in SUBSET Checkpoint
  BY <1>1, <1>2 DEF KInv, BackupsSound, Unsettled, ListedInHand, JInv, CInv, IInv, SessionOK, Manifest
<1>13. ckpt = Below(ckpt, M.turn) \cup Above(ckpt, M.turn)
  BY <1>12 DEF Below, Above, Checkpoint
<1>14. WantsConversation(M.scope) => \A b \in M.backup : ~(b.turn < M.turn) /\ b \notin Below(ckpt, M.turn)
  BY <1>12 DEF Sound, Checkpoint, Below
<1>15. M.scope = "file" => \A d \in AbsCheckpoints : d.turn >= 1
  <2> SUFFICES ASSUME M.scope = "file" PROVE \A d \in AbsCheckpoints : d.turn >= 1
    OBVIOUS
  <2>1. ~WantsConversation(M.scope)
    BY DEF WantsConversation
  <2>2. \A d \in ckpt : d.turn \in Nat /\ 1 <= d.turn
    BY <1>12 DEF Checkpoint, JInv, CInv, IInv, SessionOK, Bounded
  <2> QED
    BY <1>8, <2>1, <2>2
<1>16. AbsCheckpoints \subseteq Checkpoint
  BY <1>2, <1>8, <1>12 DEF Below, Manifest
<1>17. CASE M.kind = "rewind"
  <2>1. AbsCheckpoints' = AbsCheckpoints \ M.backup
    <3>1. CASE WantsConversation(M.scope)
      <4>1. ckpt = Below(ckpt, M.turn)
        BY <1>12, <1>13, <1>17, <3>1 DEF FromHere
      <4> QED
        BY <1>7, <1>8, <1>14, <1>17, <3>1, <4>1
    <3>2. CASE ~WantsConversation(M.scope)
      BY <1>7, <1>8, <1>12, <3>2 DEF Sound
    <3> QED
      BY <3>1, <3>2
  <2> QED
    BY <1>1, <1>2, <1>6a, <1>7, <1>8, <1>10, <1>12, <1>15, <1>16, <1>17, <2>1
<1>18. CASE M.kind = "undo"
  <2>1. /\ AbsCheckpoints' = AbsCheckpoints \cup M.backup
        /\ \A d \in AbsCheckpoints, b \in M.backup : d.turn # b.turn
    <3>1. CASE WantsConversation(M.scope)
      <4>1. ckpt = Below(ckpt, M.turn) \cup M.backup /\ AbsCheckpoints = Below(ckpt, M.turn)
        BY <1>8, <1>12, <1>13, <1>18, <3>1 DEF FromHere
      <4>2. \A d \in AbsCheckpoints : d.turn < M.turn
        BY <4>1 DEF Below
      <4> QED
        BY <1>7, <1>14, <3>1, <4>1, <4>2
    <3>2. CASE ~WantsConversation(M.scope)
      BY <1>7, <1>8, <1>12, <3>2 DEF Sound
    <3> QED
      BY <3>1, <3>2
  <2> QED
    BY <1>1, <1>2, <1>6a, <1>7, <1>8, <1>10, <1>12, <1>15, <1>16, <1>18, <2>1
<1> QED
  BY <1>2, <1>17, <1>18

\* A rewind that commits replaces just what it was prepared for.
LEMMA RewindCommits ==
  ASSUME JInv, LInv, OInv, TInv, KInv, Kept, RInv, Steady, Mapped, Mapped',
         Finalize, Calm, M.kind = "rewind"
  PROVE  Fits(M) /\ AbsFiles' = Produced(M) /\ AbsFiles = M.fwd /\ AbsTalk = M.forward
<1>1. orderly /\ Fitting
  BY DEF Steady, RInv
<1>2. /\ pc \in Forward /\ AbsFiles' = disk
      /\ \A f \in Files : disk[f] = IF f \in M.paths THEN M.restore[f] ELSE AbsFiles[f]
  BY <1>1, CommitPoint
<1>3. Fits(M)
  BY <1>1, <1>2 DEF Fitting
<1>4. disk = Produced(M)
  <2>1. disk = [f \in Files |-> disk[f]]
    BY DEF JInv, CInv, IInv, StoreOK, Images
  <2>2. \A f \in Files : disk[f] = IF f \in M.paths THEN M.restore[f] ELSE M.fwd[f]
    BY <1>2, <1>3 DEF Fits
  <2> QED
    BY <2>1, <2>2 DEF Produced
<1> QED
  BY <1>2, <1>3, <1>4 DEF Fits

\* An undo that commits brings back just what its rewind replaced.
LEMMA UndoCommits ==
  ASSUME JInv, LInv, OInv, TInv, KInv, Kept, RInv, Steady, Mapped, Mapped',
         Finalize, Calm, M.kind = "undo"
  PROVE  /\ Top(M.parent) /\ M.parent \in DOMAIN txs /\ txs[M.parent] \in Manifest
         /\ AbsFiles' = txs[M.parent].fwd /\ AbsTalk' = txs[M.parent].forward
         /\ M.backup = txs[M.parent].backup
<1>1. orderly /\ Mirrored /\ FilesFollow
  BY DEF Steady, RInv
<1>2. /\ M \in Manifest /\ cur \in DOMAIN txs /\ M = txs[cur] /\ Top(M.parent)
      /\ AbsFiles' = disk /\ AbsTalk = Before(M) /\ AbsTalk' = After(M)
      /\ \A f \in Files : disk[f] = IF f \in M.paths THEN M.restore[f] ELSE AbsFiles[f]
  BY <1>1, CommitPoint
<1> PICK p \in DOMAIN txs : p = M.parent
  BY <1>2 DEF Top, UndoCandidates
<1>3. /\ M.paths = txs[p].paths /\ M.backup = txs[p].backup /\ M.forward = txs[p].forward
      /\ M.restore = txs[p].fwd /\ M.fwd = txs[p].restore /\ M.when = txs[p].when
      /\ txs[p] \in Manifest
  BY <1>1, <1>2, Numbered DEF Mirrored, Mirrors, LInv, Inherited, Inherits, JInv, CInv
<1>4. txs[p].when = turns
  <2>1. pc \in InFlight
    BY DEF Finalize, InFlight, Working, Forward
  <2> QED
    BY <1>1, <1>3, <2>1 DEF TInv, AtTheEnd
<1>5. AbsFiles = Produced(txs[p])
  BY <1>1, <1>2, <1>3, <1>4 DEF FilesFollow, LeftBy
<1>6. disk = txs[p].fwd
  <2>1. disk = [f \in Files |-> disk[f]] /\ txs[p].fwd = [f \in Files |-> txs[p].fwd[f]]
    BY <1>3 DEF JInv, CInv, IInv, StoreOK, Images, Manifest
  <2>2. \A f \in Files : disk[f] = txs[p].fwd[f]
    BY <1>2, <1>3, <1>5 DEF Produced
  <2> QED
    BY <2>1, <2>2
<1> QED
  BY <1>2, <1>3, <1>6 DEF After

\* The commit point: the newest standing rewind is the one committed, or the one
\* before the undone.
LEMMA FinalizeKept ==
  ASSUME JInv, LInv, OInv, TInv, KInv, Kept, RInv, Steady, Mapped, Mapped', Finalize, Calm
  PROVE  EachOnce' /\ Fitting' /\ FilesFollow'
<1>1. orderly /\ EachOnce /\ FilesFollow
  BY DEF Steady, RInv
<1>2. /\ M \in Manifest /\ M.kind \in {"rewind", "undo"} /\ cur \in DOMAIN txs /\ M = txs[cur]
      /\ \A i \in UndoCandidates : i < cur
      /\ M.kind = "rewind" => /\ AbsCheckpoints' = AbsCheckpoints \ M.backup
                              /\ UndoCandidates' = UndoCandidates \cup {cur}
      /\ M.kind = "undo" => /\ AbsCheckpoints' = AbsCheckpoints \cup M.backup
                            /\ \A d \in AbsCheckpoints, b \in M.backup : d.turn # b.turn
                            /\ UndoCandidates' = UndoCandidates \ {M.parent}
  BY <1>1, CommitPoint
<1>3. /\ DOMAIN txs' = DOMAIN txs /\ \A n \in DOMAIN txs : SameData(txs'[n], txs[n]) /\ n \in Nat
      /\ \A n \in DOMAIN txs : txs'[n].state # "aborted" => txs[n].state # "aborted"
  BY Numbered DEF Finalize, PersistFails, Kept, Evolves, StateMove, JInv, CInv
<1>3a. turns' = turns /\ M.when = turns
  <2>1. pc \in InFlight
    BY DEF Finalize, InFlight, Working, Forward
  <2> QED
    BY <1>1, <2>1 DEF TInv, AtTheEnd, Finalize, counters
<1>4. EachOnce'
  <2>1. \A n \in DOMAIN txs' : txs'[n].state # "aborted" => OnePerTurn(txs'[n].backup)
    BY <1>1, <1>3 DEF EachOnce, SameData
  <2>2. OnePerTurn(AbsCheckpoints')
    <3>1. M.kind = "undo" => OnePerTurn(M.backup)
      <4>1. txs[cur].state # "aborted"
        <5>1. pc = "finalize" /\ pc \in Journalled
          BY DEF Finalize, Journalled, Forward
        <5> QED
          BY <5>1 DEF JInv, MInv, InStep
      <4> QED
        BY <1>1, <1>2, <4>1 DEF EachOnce
    <3> QED
      BY <1>1, <1>2, <3>1 DEF EachOnce, OnePerTurn
  <2> QED
    BY <2>1, <2>2 DEF EachOnce, OnePerTurn
<1>5. Fitting'
  <2>1. pc' \notin Forward
    BY DEF Finalize, Fault, CompensateState, Forward
  <2> QED
    BY <2>1 DEF Fitting
<1>6. ASSUME NEW i \in DOMAIN txs, NEW when, NEW files, LeftBy(txs[i], when, files)
      PROVE  LeftBy(txs'[i], when, files)
  <2>1. SameData(txs'[i], txs[i])
    BY <1>3
  <2>2. Produced(txs'[i]) = Produced(txs[i])
    BY <2>1 DEF Produced, SameData
  <2> QED
    BY <1>6, <2>1, <2>2 DEF LeftBy, SameData
<1>7. SUFFICES /\ \A i \in UndoCandidates' : (\A k \in UndoCandidates' : k <= i) => LeftBy(txs[i], turns, AbsFiles')
               /\ \A i, j \in UndoCandidates' :
                    i < j /\ (\A k \in UndoCandidates' : k <= i \/ j <= k)
                    => LeftBy(txs[i], txs[j].when, txs[j].fwd)
  <2>1. \A i \in UndoCandidates' : i \in DOMAIN txs
    BY <1>3 DEF UndoCandidates
  <2>2. \A j \in DOMAIN txs : txs'[j].when = txs[j].when /\ txs'[j].fwd = txs[j].fwd
    BY <1>3 DEF SameData
  <2>3. \A i \in DOMAIN txs' : Top(i)' => LeftBy(txs'[i], turns', AbsFiles')
    BY <1>3, <1>3a, <1>6, <1>7, <2>1 DEF Top
  <2>4. \A i, j \in UndoCandidates' :
          i < j /\ (\A k \in UndoCandidates' : k <= i \/ j <= k)
          => LeftBy(txs'[i], txs'[j].when, txs'[j].fwd)
    BY <1>6, <1>7, <2>1, <2>2
  <2>5. FilesFollow'
    BY <2>3, <2>4 DEF FilesFollow, LeftBy, Produced
  <2> QED
    BY <1>4, <1>5, <2>5
<1>8. \A i, j \in UndoCandidates :
        i < j /\ (\A k \in UndoCandidates : k <= i \/ j <= k) => LeftBy(txs[i], txs[j].when, txs[j].fwd)
  BY <1>1 DEF FilesFollow
<1>9. \A i \in UndoCandidates : i \in DOMAIN txs /\ i \in Nat /\ cur \in Nat
  BY <1>2, <1>3 DEF UndoCandidates
<1>10. CASE M.kind = "rewind"
  <2>1. AbsFiles' = Produced(M) /\ AbsFiles = M.fwd /\ AbsTalk = M.forward
    BY <1>10, RewindCommits
  <2>2. ASSUME NEW i \in UndoCandidates', \A k \in UndoCandidates' : k <= i
        PROVE  LeftBy(txs[i], turns, AbsFiles')
    <3>1. i = cur
      BY <1>2, <1>9, <1>10, <2>2
    <3> QED
      BY <1>2, <2>1, <3>1 DEF LeftBy
  <2>3. ASSUME NEW i \in UndoCandidates', NEW j \in UndoCandidates', i < j,
               \A k \in UndoCandidates' : k <= i \/ j <= k
        PROVE  LeftBy(txs[i], txs[j].when, txs[j].fwd)
    <3>1. i \in UndoCandidates
      <4>1. i \in UndoCandidates \/ i = cur
        BY <1>2, <1>10, <2>3
      <4>2. (j \in UndoCandidates \/ j = cur) /\ i < j /\ cur \in Nat
        BY <1>2, <1>3, <1>10, <2>3
      <4>3. i # cur
        BY <1>2, <1>9, <4>2
      <4> QED
        BY <4>1, <4>3
    <3>2. CASE j = cur
      <4>1. Top(i)
        BY <1>2, <1>9, <1>10, <2>3, <3>1, <3>2 DEF Top
      <4> QED
        BY <1>1, <1>2, <1>3a, <1>9, <2>1, <3>1, <3>2, <4>1 DEF FilesFollow
    <3>3. CASE j # cur
      BY <1>2, <1>8, <1>10, <2>3, <3>1, <3>3
    <3> QED
      BY <3>2, <3>3
  <2> QED
    BY <2>2, <2>3
<1>11. CASE M.kind = "undo"
  <2> PICK p \in UndoCandidates : p = M.parent
    BY <1>11, UndoCommits DEF Top
  <2>1. /\ \A k \in UndoCandidates : k <= p
        /\ AbsFiles' = txs[p].fwd /\ txs[p].when = turns
    <3>1. txs[p].when = M.when
      BY <1>2, <1>11 DEF LInv, Inherited, Inherits
    <3> QED
      BY <1>3a, <1>11, <3>1, UndoCommits DEF Top
  <2>2. ASSUME NEW i \in UndoCandidates', \A k \in UndoCandidates' : k <= i
        PROVE  LeftBy(txs[i], turns, AbsFiles')
    <3>1. i \in UndoCandidates /\ i # p
      BY <1>2, <1>11
    <3>2. i < p /\ \A k \in UndoCandidates : k <= i \/ p <= k
      BY <1>2, <1>9, <1>11, <2>1, <2>2, <3>1
    <3> QED
      BY <1>8, <2>1, <3>1, <3>2
  <2>3. ASSUME NEW i \in UndoCandidates', NEW j \in UndoCandidates', i < j,
               \A k \in UndoCandidates' : k <= i \/ j <= k
        PROVE  LeftBy(txs[i], txs[j].when, txs[j].fwd)
    <3>1. i \in UndoCandidates /\ j \in UndoCandidates
      BY <1>2, <1>11
    <3>2. \A k \in UndoCandidates : k <= i \/ j <= k
      BY <1>2, <1>9, <1>11, <2>1, <2>3, <3>1
    <3> QED
      BY <1>8, <2>3, <3>1, <3>2
  <2> QED
    BY <2>2, <2>3
<1> QED
  BY <1>2, <1>10, <1>11

\* A step of an orderly history is a turn, a commit point, or not seen.
LEMMA StepSeen ==
  ASSUME JInv, LInv, OInv, TInv, KInv, orderly, orderly', Mapped, Mapped', edits = 0, edits' = 0, Next
  PROVE  \/ Seen /\ UndoCandidates' = UndoCandidates /\ turns' = turns
         \/ AnyTurn
         \/ Finalize /\ Calm
<1>1. CASE Request
  <2>1. ~Finalize /\ turns' = turns
    <3> PICK m \in Manifest : Adds(m)
      BY <1>1, NewManifest
    <3> QED
      BY DEF Adds, Finalize
  <2> QED
    BY <1>1, <2>1, RequestSeen, CandidatesKept
<1>2. CASE Commit /\ ~Finalize
  <2>1. turns' = turns
    BY <1>2 DEF Commit, BeginCommit, PersistIntent, BackupTarget, PublishTarget, PersistProgress,
       FilesDone, CommitConversation, CommitCheckpoints, MarkUndone, counters
  <2> QED
    BY <1>2, <2>1, CommitSeen, RecoverySeen, CandidatesKept
<1>3. CASE Finalize /\ ~Calm
  <2>1. UNCHANGED <<txs, turns>> /\ pc = "finalize"
    BY <1>3 DEF Finalize, PersistFails, counters
  <2>2. Seen
    BY <1>3, <2>1, CommitSeen DEF Commit, MarkUndone
  <2> QED
    BY <2>1, <2>2 DEF UndoCandidates
<1>4. CASE Recover
  <2>1. Seen
    BY <1>4, CompensationSeen, VerdictSeen, RecoverySeen DEF Recover
  <2>2. ~Finalize /\ turns' = turns
    BY <1>4 DEF Recover, CompensateConversation, CompensateCheckpoints, CompensateFile,
       CompensateNothing, CompensateUnread, CompensateRename, CompensateForeign, CompensateRemove,
       CompensateMove, CompensationDone, Verdict, Start, RecoverPrepared, RecoverCommitting, PassDone,
       Visiting, Untouched, counters, Finalize
  <2> QED
    BY <2>1, <2>2, CandidatesKept
<1>5. CASE Crash \/ Shutdown
  <2>1. Seen /\ UNCHANGED <<txs, turns>>
    BY <1>5, StopSeen DEF Crash, Shutdown, Stop
  <2> QED
    BY <2>1 DEF UndoCandidates
<1>6. ~ \E f \in Files : \E image \in {Absent, EditImage(edits + 1)} : ExternalEdit(f, image)
  BY DEF ExternalEdit
<1> QED
  BY <1>1, <1>2, <1>3, <1>4, <1>5, <1>6 DEF Next, Environment, AnyTurn

\* A history is steady only if it was so far.
LEMMA SteadyBefore == JInv /\ [Next]_vars /\ Steady' => Steady /\ edits' = 0
<1> SUFFICES ASSUME JInv, [Next]_vars, Steady' PROVE edits = 0 /\ edits' = 0 /\ orderly
  BY DEF Steady
<1>1. orderly /\ edits' = 0
  BY OrderlyBefore DEF Steady
<1>2. edits \in Nat
  BY BoundsAssumption DEF JInv, CInv, IInv, CountersOK
<1>3. CASE Environment
  <2>1. CASE Crash \/ Shutdown
    BY <1>1, <2>1 DEF Crash, Shutdown, Stop
  <2>2. CASE AnyTurn
    BY <1>1, <2>2 DEF AnyTurn, Turn, BlockedTurn, BrokenTurn
  <2>3. ASSUME NEW f, NEW image, ExternalEdit(f, image) PROVE FALSE
    BY <1>1, <1>2, <2>3 DEF ExternalEdit
  <2> QED
    BY <1>1, <1>3, <2>1, <2>2, <2>3 DEF Environment, AnyTurn
<1>4. CASE Request
  <2>1. edits' = edits
    BY <1>4 DEF Request, PrepareTransaction, FileRevert, UndoRewind, StageAs, Begin, Abandon
  <2> QED
    BY <1>1, <2>1
<1>5. CASE Commit
  BY <1>1, <1>5 DEF Commit, BeginCommit, PersistIntent, BackupTarget, PublishTarget,
     PersistProgress, FilesDone, CommitConversation, CommitCheckpoints, Finalize,
     MarkUndone, counters
<1>6. CASE Recover
  BY <1>1, <1>6 DEF Recover, CompensateConversation, CompensateCheckpoints, CompensateFile,
     CompensateNothing, CompensateUnread, CompensateRename, CompensateForeign, CompensateRemove,
     CompensateMove, CompensationDone, Verdict, Start, RecoverPrepared, RecoverCommitting,
     PassDone, Untouched, counters
<1>7. CASE UNCHANGED vars
  BY <1>1, <1>7 DEF vars, counters
<1> QED
  BY <1>1, <1>3, <1>4, <1>5, <1>6, <1>7 DEF Next

\* Every step leaves each rewind fitting what is seen, and what it is to undo to.
LEMMA NextFits ==
  ASSUME JInv, LInv, OInv, TInv, KInv, RInv, MapInv, [Next]_vars, JInv', MapInv'
  PROVE  RInv'
<1>1. Mirrored'
  BY NextMirrored DEF RInv
<1> SUFFICES ASSUME Steady' PROVE EachOnce' /\ Fitting' /\ FilesFollow'
  BY <1>1 DEF RInv
<1>2. orderly' /\ Kept
  BY NextKept DEF Steady, JInv
<1>3. Steady /\ orderly /\ edits = 0 /\ edits' = 0 /\ Mapped /\ Mapped'
  <2>1. Steady /\ edits' = 0
    BY SteadyBefore
  <2> QED
    BY <1>2, <2>1 DEF Steady, MapInv
<1>4. CASE Next
  BY <1>2, <1>3, <1>4, StepSeen, SeenKept, TurnKept, FinalizeKept
<1>5. CASE UNCHANGED vars
  <2>1. UNCHANGED <<disk, conv, ckpt, txs, pc, mem, turns>>
    BY <1>5 DEF vars, store, session, checkpoints, control, counters
  <2>2. UndoCandidates' = UndoCandidates /\ \A n : Unsettled(n)' <=> Unsettled(n)
    BY <2>1 DEF UndoCandidates, Unsettled
  <2>3. UNCHANGED <<AbsFiles, AbsTalk, AbsCheckpoints>>
    BY <1>3, <2>1, <2>2, StillSeen DEF Seen, JInv, CInv
  <2> QED
    BY <1>3, <2>1, <2>2, <2>3
    DEF RInv, EachOnce, OnePerTurn, Fitting, Fits, OldestPre, FilesFollow, Top, LeftBy, Produced, M
<1> QED
  BY <1>4, <1>5

\* In every orderly history nobody edits from outside, what is being rewound is what
\* its preview found, and the files are as the newest standing rewind left them.
THEOREM RewindsFit == Spec => [](JInv /\ LInv /\ OInv /\ TInv /\ KInv /\ MapInv /\ RInv)
<1>1. Init /\ MapInv => RInv
  <2> SUFFICES ASSUME Init, MapInv PROVE RInv
    OBVIOUS
  <2>1. DOMAIN txs = {} /\ ckpt = {} /\ pc = "idle" /\ orderly
    BY DEF Init
  <2>2. AbsCheckpoints = {}
    BY <2>1 DEF MapInv, Mapped, NoManifestCommitting
  <2> QED
    BY <2>1, <2>2 DEF RInv, Mirrored, EachOnce, OnePerTurn, Fitting, FilesFollow, Forward, UndoCandidates
<1>2. JInv /\ OInv /\ TInv /\ KInv => MapInv
  BY MapHolds
<1>3. JInv /\ LInv /\ OInv /\ TInv /\ KInv /\ RInv /\ MapInv /\ [Next]_vars /\ JInv' /\ MapInv' => RInv'
  BY NextFits
<1> QED
  BY <1>1, <1>2, <1>3, OrderlyCheckpoints, PTL DEF Spec

\* What a checkpoint looks like from above, and what a standing rewind.
Mark(c) == [turn |-> c.turn, files |-> c.pre, changed |-> c.touched, length |-> c.boundary]
Standing(n) ==
  [id |-> n, files |-> txs[n].fwd, talk |-> txs[n].forward, dropped |-> Marks(txs[n].backup)]

\* Two lists of checkpoints, seen from above.
LEMMA MarkFacts == \A cs, ds : Marks(cs \cup ds) = Marks(cs) \cup Marks(ds)
  BY DEF Marks

\* A mark shows what a checkpoint recorded, and no more.
LEMMA MarkOf ==
  ASSUME NEW cs PROVE Marks(cs) = {Mark(c) : c \in cs}
  BY DEF Marks, Mark

\* The same standing rewinds look the same.
LEMMA UndoableIs == AbsUndoable = {Standing(n) : n \in UndoCandidates}
  BY DEF AbsUndoable, Standing

\* ... whatever state their manifests are in.
LEMMA StandingSame ==
  ASSUME NEW n \in DOMAIN txs, SameData(txs'[n], txs[n]) PROVE Standing(n)' = Standing(n)
<1>1. txs'[n].fwd = txs[n].fwd /\ txs'[n].forward = txs[n].forward /\ txs'[n].backup = txs[n].backup
  BY DEF SameData
<1> QED
  BY <1>1 DEF Standing, Marks

\* As long as the same rewinds stand, the same can be undone.
LEMMA UndoableKept ==
  ASSUME Kept, UndoCandidates' = UndoCandidates
  PROVE  AbsUndoable' = AbsUndoable
<1>1. AbsUndoable = {Standing(n) : n \in UndoCandidates}
  BY UndoableIs
<1>2. AbsUndoable' = {Standing(n)' : n \in UndoCandidates}
  BY DEF AbsUndoable, Standing
<1>3. \A n \in UndoCandidates : Standing(n)' = Standing(n)
  BY StandingSame DEF Kept, Evolves, UndoCandidates
<1> QED
  BY <1>1, <1>2, <1>3

\* A turn is a turn.
LEMMA AbstractTurn ==
  ASSUME JInv, LInv, KInv, orderly, orderly', Mapped, Mapped', AnyTurn
  PROVE  Atomic!Turn
<1> PICK c \in Checkpoint :
      /\ AbsFiles' \in [Files -> Image] /\ \A f \in Files \ c.touched : AbsFiles'[f] = AbsFiles[f]
      /\ AbsTalk' \in {AbsTalk, Append(AbsTalk, turns + 1)}
      /\ AbsCheckpoints' = AbsCheckpoints \cup {c}
      /\ c.pre = AbsFiles /\ c.boundary = Len(AbsTalk)
      /\ \A d \in AbsCheckpoints : d.turn < c.turn
      /\ c.turn \in 1..MaxTurns /\ turns + 1 \in 1..MaxTurns
      /\ UNCHANGED txs
  BY TurnSeen
<1>1. Mark(c) = [turn |-> c.turn, files |-> AbsFiles, changed |-> c.touched, length |-> Len(AbsTalk)]
  BY DEF Mark
<1>2. Marks(AbsCheckpoints)' = Marks(AbsCheckpoints) \cup {Mark(c)}
  BY DEF Marks, Mark
<1>3. \A k \in Marks(AbsCheckpoints) : k.turn < c.turn
  BY DEF Marks
<1>4. AbsUndoable' = AbsUndoable
  BY DEF AbsUndoable, UndoCandidates, Marks
<1>5. c.touched \in SUBSET Files
  BY DEF Checkpoint
<1> QED
  BY <1>1, <1>2, <1>3, <1>4, <1>5 DEF Atomic!Turn

\* What the first of the checkpoints found that have the path, if any has.
LEMMA BeforeIs ==
  ASSUME NEW cs \in SUBSET Checkpoint, OnePerTurn(cs), NEW f \in Files, NEW image
  PROVE  /\ OldestPre(f, image, cs) => Atomic!Before(f, Marks(cs)) = image
         /\ (\A c \in cs : f \notin c.touched) => Atomic!Before(f, Marks(cs)) = AbsFiles[f]
<1> DEFINE changers == {m \in Marks(cs) : f \in m.changed}
           first == CHOOSE m \in changers : \A n \in changers : m.turn <= n.turn
<1>1. Atomic!Before(f, Marks(cs)) = IF changers = {} THEN AbsFiles[f] ELSE first.files[f]
  BY DEF Atomic!Before
<1>2. changers = {Mark(c) : c \in {d \in cs : f \in d.touched}}
  BY DEF Marks, Mark
<1> HIDE DEF changers
<1>3. ASSUME OldestPre(f, image, cs) PROVE Atomic!Before(f, Marks(cs)) = image
  <2> PICK c \in cs : /\ f \in c.touched /\ c.pre[f] = image
                      /\ \A d \in cs : f \in d.touched => c.turn <= d.turn
    BY <1>3 DEF OldestPre
  <2>1. Mark(c) \in changers /\ \A n \in changers : Mark(c).turn <= n.turn
    BY <1>2 DEF Mark
  <2>2. first \in changers /\ first.turn <= Mark(c).turn
    BY <2>1
  <2> HIDE DEF first
  <2> PICK d \in cs : f \in d.touched /\ first = Mark(d)
    BY <1>2, <2>2
  <2>3. d.turn <= c.turn /\ c.turn <= d.turn
    BY <2>2 DEF Mark
  <2>4. d = c
    BY <2>3 DEF OnePerTurn, Checkpoint
  <2>5. first.files = c.pre
    BY <2>4 DEF Mark
  <2> QED
    BY <1>1, <2>1, <2>5
<1>4. ASSUME \A c \in cs : f \notin c.touched PROVE Atomic!Before(f, Marks(cs)) = AbsFiles[f]
  BY <1>1, <1>2, <1>4
<1> QED
  BY <1>3, <1>4

\* Checkpoints from a turn on, seen from above.
LEMMA MarksAbove ==
  ASSUME NEW cs, NEW t
  PROVE  {m \in Marks(cs) : m.turn >= t} = Marks(Above(cs, t))
  BY DEF Marks, Above

\* A rewind that commits adds one standing rewind, under a name of its own.
LEMMA RewindStands ==
  ASSUME JInv, LInv, OInv, TInv, KInv, Kept, RInv, Steady, Mapped, Mapped',
         Finalize, Calm, M.kind = "rewind"
  PROVE  /\ cur \in TxIds /\ \A u \in AbsUndoable : u.id # cur
         /\ AbsUndoable' = AbsUndoable \cup {[id |-> cur, files |-> AbsFiles, talk |-> AbsTalk,
                                              dropped |-> Marks(M.backup)]}
<1>1. /\ cur \in DOMAIN txs /\ M = txs[cur] /\ \A i \in UndoCandidates : i < cur
      /\ UndoCandidates' = UndoCandidates \cup {cur}
  BY CommitPoint DEF Steady
<1>2. AbsFiles = M.fwd /\ AbsTalk = M.forward
  BY RewindCommits
<1>3. cur \in TxIds /\ \A i \in UndoCandidates : i \in Nat /\ i # cur
  BY <1>1, Numbered DEF UndoCandidates, JInv, CInv, IInv, ManifestsOK, TxIds
<1>4. AbsUndoable = {Standing(n) : n \in UndoCandidates}
  BY UndoableIs
<1>5. AbsUndoable' = {Standing(n)' : n \in UndoCandidates \cup {cur}}
  BY <1>1 DEF AbsUndoable, Standing
<1>6. \A n \in UndoCandidates \cup {cur} : Standing(n)' = Standing(n)
  BY <1>1, StandingSame DEF Kept, Evolves, UndoCandidates
<1>7. AbsUndoable' = AbsUndoable \cup {Standing(cur)}
  BY <1>4, <1>5, <1>6
<1>8. Standing(cur) = [id |-> cur, files |-> AbsFiles, talk |-> AbsTalk, dropped |-> Marks(M.backup)]
  BY <1>1, <1>2 DEF Standing
<1>9. \A u \in AbsUndoable : u.id # cur
  BY <1>3, <1>4 DEF Standing
<1> QED
  BY <1>3, <1>7, <1>8, <1>9

\* The commit point of a rewind is the rewind.
LEMMA AbstractRewind ==
  ASSUME JInv, LInv, OInv, TInv, KInv, Kept, RInv, Steady, Mapped, Mapped',
         Finalize, Calm, M.kind = "rewind", M.scope # "file"
  PROVE  \E k \in Marks(AbsCheckpoints), scope \in Scopes \ {"file"} : Atomic!Rewind(k, scope)
<1>1. /\ Fits(M) /\ AbsFiles' = Produced(M) /\ AbsFiles = M.fwd /\ AbsTalk = M.forward
      /\ OnePerTurn(AbsCheckpoints)
  BY RewindCommits DEF RInv, EachOnce
<1>2. /\ M \in Manifest /\ Sound(M) /\ AbsTalk' = After(M)
      /\ AbsCheckpoints' = AbsCheckpoints \ M.backup /\ AbsCheckpoints \subseteq Checkpoint
  BY CommitPoint DEF Steady
<1> DEFINE scope == M.scope
           later == Above(AbsCheckpoints, M.turn)
           dropped == IF scope # "code" THEN Marks(later) ELSE {}
<1>3. scope \in {"code", "conversation", "both"} /\ scope \in Scopes \ {"file"}
  BY <1>2, BoundsAssumption DEF Manifest
<1> PICK c \in AbsCheckpoints : c.turn = M.turn /\ c.boundary = M.boundary
  BY <1>1 DEF Fits
<1> DEFINE k == Mark(c)
<1>4. k \in Marks(AbsCheckpoints) /\ k.turn = M.turn /\ k.length = M.boundary
  BY MarkOf DEF Mark
<1>5. {m \in Marks(AbsCheckpoints) : m.turn >= k.turn} = Marks(later)
  BY <1>4, MarksAbove
<1>6. later \in SUBSET Checkpoint /\ OnePerTurn(later)
  BY <1>1, <1>2 DEF Above, OnePerTurn
<1>7. M.backup = (IF scope # "code" THEN later ELSE {}) /\ dropped = Marks(M.backup)
  <2>1. CASE scope = "code"
    BY <1>2, <2>1 DEF Sound, WantsConversation, Marks
  <2>2. CASE scope # "code"
    BY <1>1, <1>3, <2>2 DEF Fits, WantsConversation
  <2> QED
    BY <2>1, <2>2
<1>8. AbsFiles' = IF scope = "conversation" THEN AbsFiles
                  ELSE [f \in Files |-> Atomic!Before(f, Marks(later))]
  <2>1. CASE scope = "conversation"
    <3>1. M.paths = {} /\ M.fwd = [f \in Files |-> M.fwd[f]]
      BY <1>1, <1>2, <2>1 DEF Fits, WantsFiles, Manifest, Images
    <3> QED
      BY <1>1, <2>1, <3>1 DEF Produced
  <2>2. CASE scope # "conversation"
    <3>1. ASSUME NEW f \in Files
          PROVE  Produced(M)[f] = Atomic!Before(f, Marks(later))
      <4>1. CASE f \in M.paths
        <5>1. OldestPre(f, M.restore[f], later)
          BY <1>1, <4>1 DEF Fits
        <5> QED
          BY <1>6, <4>1, <5>1, BeforeIs DEF Produced
      <4>2. CASE f \notin M.paths
        <5>1. \A d \in later : f \notin d.touched
          BY <1>1, <1>3, <2>2, <4>2 DEF Fits, WantsFiles
        <5> QED
          BY <1>1, <1>6, <4>2, <5>1, BeforeIs DEF Produced
      <4> QED
        BY <4>1, <4>2
    <3> QED
      BY <1>1, <2>2, <3>1 DEF Produced
  <2> QED
    BY <2>1, <2>2
<1>9. AbsTalk' = IF scope = "code" THEN AbsTalk ELSE SubSeq(AbsTalk, 1, k.length)
  BY <1>1, <1>2, <1>3, <1>4 DEF After, Rewound, Upto, WantsConversation
<1>10. Marks(AbsCheckpoints)' = Marks(AbsCheckpoints) \ dropped
  <2>1. Marks(AbsCheckpoints)' = Marks(AbsCheckpoints \ M.backup)
    BY <1>2 DEF Marks
  <2>2. CASE scope = "code"
    BY <1>7, <2>1, <2>2
  <2>3. CASE scope # "code"
    <3>1. Marks(AbsCheckpoints) = Marks(AbsCheckpoints \ later) \cup Marks(later)
      <4>1. AbsCheckpoints = (AbsCheckpoints \ later) \cup later
        BY DEF Above
      <4> QED
        BY <4>1, MarkFacts
    <3>2. \A x \in Marks(AbsCheckpoints \ later) : x \notin Marks(later)
      <4>1. \A x \in Marks(AbsCheckpoints \ later) : ~(x.turn >= M.turn)
        BY DEF Marks, Above
      <4>2. \A x \in Marks(later) : x.turn >= M.turn
        BY DEF Marks, Above
      <4> QED
        BY <4>1, <4>2
    <3> QED
      BY <1>7, <2>1, <2>3, <3>1, <3>2
  <2> QED
    BY <2>2, <2>3
<1>11. \E id \in TxIds :
         /\ \A u \in AbsUndoable : u.id # id
         /\ AbsUndoable' = AbsUndoable \cup {[id |-> id, files |-> AbsFiles, talk |-> AbsTalk,
                                              dropped |-> dropped]}
  BY <1>7, RewindStands
<1> HIDE DEF k, scope
<1>12. Atomic!Rewind(k, scope)
  BY <1>5, <1>8, <1>9, <1>10, <1>11 DEF Atomic!Rewind
<1> QED
  BY <1>3, <1>4, <1>12

\* The commit point of one file's reversal is the reversal.
LEMMA AbstractRevert ==
  ASSUME JInv, LInv, OInv, TInv, KInv, Kept, RInv, Steady, Mapped, Mapped',
         Finalize, Calm, M.kind = "rewind", M.scope = "file"
  PROVE  \E f \in Files : Atomic!Revert(f)
<1>1. /\ Fits(M) /\ AbsFiles' = Produced(M) /\ AbsFiles = M.fwd /\ AbsTalk = M.forward
      /\ OnePerTurn(AbsCheckpoints)
  BY RewindCommits DEF RInv, EachOnce
<1>2. /\ M \in Manifest /\ Sound(M) /\ AbsTalk' = After(M)
      /\ AbsCheckpoints' = AbsCheckpoints \ M.backup /\ AbsCheckpoints \subseteq Checkpoint
      /\ \A d \in AbsCheckpoints : d.turn >= 1
  BY CommitPoint DEF Steady
<1>3. M.backup = {} /\ AbsTalk' = AbsTalk /\ Marks(M.backup) = {}
  BY <1>1, <1>2 DEF Sound, WantsConversation, After, Rewound, Marks
<1> PICK f \in Files : M.paths = {f} /\ M.turn = 1
  BY <1>1 DEF Fits
<1>4. Above(AbsCheckpoints, 1) = AbsCheckpoints
  BY <1>2 DEF Above
<1>5. Atomic!Before(f, Marks(AbsCheckpoints)) = M.restore[f]
  <2>1. OldestPre(f, M.restore[f], AbsCheckpoints)
    BY <1>1, <1>4 DEF Fits
  <2> QED
    BY <1>1, <1>2, <2>1, BeforeIs
<1>6. AbsFiles' = [AbsFiles EXCEPT ![f] = Atomic!Before(f, Marks(AbsCheckpoints))]
  <2>1. AbsFiles = [g \in Files |-> M.fwd[g]]
    BY <1>1, <1>2 DEF Manifest, Images
  <2> QED
    BY <1>1, <1>5, <2>1 DEF Produced
<1>7. Marks(AbsCheckpoints)' = Marks(AbsCheckpoints)
  BY <1>2, <1>3 DEF Marks
<1>8. \E id \in TxIds :
        /\ \A u \in AbsUndoable : u.id # id
        /\ AbsUndoable' = AbsUndoable \cup {[id |-> id, files |-> AbsFiles, talk |-> AbsTalk,
                                             dropped |-> {}]}
  BY <1>3, RewindStands
<1>9. Atomic!Revert(f)
  BY <1>3, <1>6, <1>7, <1>8 DEF Atomic!Revert
<1> QED
  BY <1>9

\* The commit point of an undo is the undo.
LEMMA AbstractUndo ==
  ASSUME JInv, LInv, OInv, TInv, KInv, Kept, RInv, Steady, Mapped, Mapped',
         Finalize, Calm, M.kind = "undo"
  PROVE  \E u \in AbsUndoable : Atomic!Undo(u)
<1>1. /\ Top(M.parent) /\ AbsFiles' = txs[M.parent].fwd /\ AbsTalk' = txs[M.parent].forward
      /\ M.backup = txs[M.parent].backup
  BY UndoCommits
<1>2. /\ AbsCheckpoints' = AbsCheckpoints \cup M.backup
      /\ UndoCandidates' = UndoCandidates \ {M.parent}
  BY CommitPoint DEF Steady
<1> PICK p \in UndoCandidates : p = M.parent
  BY <1>1 DEF Top
<1> DEFINE u == Standing(p)
<1>3. u.files = txs[p].fwd /\ u.talk = txs[p].forward /\ u.dropped = Marks(txs[p].backup)
  BY DEF Standing
<1>4. AbsUndoable = {Standing(n) : n \in UndoCandidates}
  BY UndoableIs
<1>5. AbsUndoable' = {Standing(n)' : n \in UndoCandidates \ {p}}
  BY <1>2 DEF AbsUndoable, Standing
<1>6. \A n \in UndoCandidates : Standing(n)' = Standing(n)
  BY StandingSame DEF Kept, Evolves, UndoCandidates
<1>7. \A n \in UndoCandidates : Standing(n) = u => n = p
  BY DEF Standing
<1>8. Marks(AbsCheckpoints)' = Marks(AbsCheckpoints) \cup u.dropped
  <2>1. Marks(AbsCheckpoints)' = Marks(AbsCheckpoints \cup M.backup)
    BY <1>2 DEF Marks
  <2> QED
    BY <1>1, <1>3, <2>1, MarkFacts
<1> HIDE DEF u
<1>9. u \in AbsUndoable /\ AbsUndoable' = AbsUndoable \ {u}
  <2>1. u \in AbsUndoable
    BY <1>4 DEF u
  <2>2. AbsUndoable' = {Standing(n) : n \in UndoCandidates \ {p}}
    BY <1>5, <1>6
  <2> QED
    BY <1>4, <1>7, <2>1, <2>2 DEF u
<1>10. Atomic!Undo(u)
  BY <1>1, <1>3, <1>8, <1>9 DEF Atomic!Undo
<1> QED
  BY <1>9, <1>10

\* Every step of an orderly history is a step of the atomic rewind or not seen.
LEMMA AbstractStep ==
  ASSUME JInv, LInv, OInv, TInv, KInv, RInv, MapInv, [Next]_vars, JInv', MapInv',
         (orderly /\ edits = 0)'
  PROVE  Atomic!Next \/ UNCHANGED <<AbsFiles, AbsTalk, Marks(AbsCheckpoints), AbsUndoable>>
<1>1. orderly' /\ Steady' /\ Kept
  BY NextKept DEF Steady, JInv
<1>2. Steady /\ orderly /\ edits = 0 /\ edits' = 0 /\ Mapped /\ Mapped'
  <2>1. Steady /\ edits' = 0
    BY <1>1, SteadyBefore
  <2> QED
    BY <1>1, <2>1 DEF Steady, MapInv
<1>3. CASE Seen /\ UndoCandidates' = UndoCandidates
  <2>1. AbsUndoable' = AbsUndoable
    BY <1>1, <1>3, UndoableKept
  <2> QED
    BY <1>3, <2>1 DEF Seen, Marks
<1>4. CASE AnyTurn
  BY <1>1, <1>2, <1>4, AbstractTurn DEF Atomic!Next
<1>5. CASE Finalize /\ Calm
  <2>1. M.kind \in {"rewind", "undo"}
    BY <1>1, <1>2, <1>5, CommitPoint
  <2> QED
    BY <1>1, <1>2, <1>5, <2>1, AbstractRewind, AbstractRevert, AbstractUndo DEF Atomic!Next
<1>6. CASE UNCHANGED vars
  <2>1. UNCHANGED <<disk, conv, ckpt, txs>>
    BY <1>6 DEF vars, store, session, checkpoints
  <2>2. UndoCandidates' = UndoCandidates /\ \A n : Unsettled(n)' <=> Unsettled(n)
    BY <2>1 DEF UndoCandidates, Unsettled
  <2>3. Seen
    BY <1>2, <2>1, <2>2, StillSeen DEF JInv, CInv
  <2> QED
    BY <1>3, <2>2, <2>3
<1> QED
  BY <1>2, <1>3, <1>4, <1>5, <1>6, StepSeen

\* The property of the runs, for every number of files, turns, transactions, edits
\* and disturbances: the journalled transaction is an atomic rewind.
THEOREM RewindsAtomically == Spec => ImplementsAtomicRewind
<1>1. Init /\ MapInv => Atomic!Init
  <2> SUFFICES ASSUME Init, MapInv PROVE Atomic!Init
    OBVIOUS
  <2>1. /\ disk \in [Files -> {Absent, Base}] /\ conv = <<>> /\ ckpt = {} /\ DOMAIN txs = {}
        /\ orderly = TRUE /\ edits = 0
    BY DEF Init
  <2>2. AbsFiles = disk /\ AbsTalk = <<>> /\ AbsCheckpoints = {}
    BY <2>1 DEF MapInv, Mapped, NoManifestCommitting
  <2>3. AbsFiles \in [Files -> Image]
    BY <2>1, <2>2, InitIInv DEF IInv, StoreOK, Images
  <2>4. Marks(AbsCheckpoints) = {} /\ AbsUndoable = {}
    BY <2>1, <2>2 DEF Marks, AbsUndoable, UndoCandidates
  <2> QED
    BY <2>1, <2>2, <2>3, <2>4 DEF Atomic!Init
<1>2. JInv /\ LInv /\ OInv /\ TInv /\ KInv /\ MapInv /\ RInv /\ [Next]_vars /\ JInv' /\ MapInv'
      => [(orderly /\ edits = 0)' =>
            Atomic!Next \/ UNCHANGED <<AbsFiles, AbsTalk, Marks(AbsCheckpoints), AbsUndoable>>]_(Atomic!avars)
  BY AbstractStep
<1> QED
  BY <1>1, <1>2, RewindsFit, PTL DEF Spec, ImplementsAtomicRewind, Atomic!Spec
=============================================================================
