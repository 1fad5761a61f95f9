---------------------------- MODULE AtomicRewind ----------------------------
(***************************************************************************)
(* What a rewind promises, with no crash, no manifest and no rename in     *)
(* sight: files, conversation and checkpoints move to an earlier turn in   *)
(* one step, and an undo moves them back in one step.  The promise holds   *)
(* for as long as the environment keeps the history orderly.               *)
(***************************************************************************)
EXTENDS Naturals, Sequences

CONSTANTS Files, Images, Messages, Scopes, Ids

VARIABLES
  files,     \* path -> image
  talk,      \* the conversation
  marks,     \* the turns one can rewind to: what they found and what they changed
  undoable,  \* what committed rewinds replaced
  orderly    \* environment: nothing is begun over an unsettled rewind, and
             \* nobody else edits the files

avars == <<files, talk, marks, undoable, orderly>>

Init ==
  /\ files \in [Files -> Images]
  /\ talk = <<>> /\ marks = {} /\ undoable = {} /\ orderly = TRUE

\* A turn changes files as it likes, says something unless it was blocked or cut
\* short, and can be rewound to.
Turn ==
  /\ talk' = talk \/ \E m \in Messages : talk' = Append(talk, m)
  /\ \E t \in Messages, changed \in SUBSET Files :
       /\ files' \in [Files -> Images]
       /\ \A f \in Files \ changed : files'[f] = files[f]
       /\ \A k \in marks : k.turn < t
       /\ marks' = marks \cup {[turn |-> t, files |-> files, changed |-> changed,
                               length |-> Len(talk)]}
  /\ UNCHANGED undoable

\* What f held when the first of the turns that changed it began.
Before(f, ms) ==
  LET changers == {m \in ms : f \in m.changed}
  IN IF changers = {} THEN files[f]
     ELSE (CHOOSE m \in changers : \A n \in changers : m.turn <= n.turn).files[f]

Rewind(k, scope) ==
  LET later == {m \in marks : m.turn >= k.turn}
      dropped == IF scope # "code" THEN later ELSE {}
  IN /\ files' = IF scope = "conversation" THEN files
                 ELSE [f \in Files |-> Before(f, later)]
     /\ talk' = IF scope = "code" THEN talk ELSE SubSeq(talk, 1, k.length)
     /\ marks' = marks \ dropped
     /\ \E id \in Ids :
          /\ \A u \in undoable : u.id # id
          /\ undoable' = undoable \cup {[id |-> id, files |-> files, talk |-> talk,
                                        dropped |-> dropped]}

\* One file back to what it was before anybody here touched it.
Revert(f) ==
  /\ files' = [files EXCEPT ![f] = Before(f, marks)]
  /\ \E id \in Ids :
       /\ \A u \in undoable : u.id # id
       /\ undoable' = undoable \cup {[id |-> id, files |-> files, talk |-> talk,
                                     dropped |-> {}]}
  /\ UNCHANGED <<talk, marks>>

Undo(u) ==
  /\ files' = u.files /\ talk' = u.talk /\ marks' = marks \cup u.dropped
  /\ undoable' = undoable \ {u}

Next ==
  \/ Turn
  \/ \E k \in marks, scope \in Scopes \ {"file"} : Rewind(k, scope)
  \/ \E f \in Files : Revert(f)
  \/ \E u \in undoable : Undo(u)

\* A step that the mapping does not see changes none of the four.
Spec == Init /\ [][orderly' => Next \/ UNCHANGED <<files, talk, marks, undoable>>]_avars
=============================================================================
