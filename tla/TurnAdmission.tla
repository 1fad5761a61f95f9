---------------------------- MODULE TurnAdmission ----------------------------
(***************************************************************************)
(* Turn admission of internal/control: an input becomes a turn, waits, or  *)
(* is dropped.  A controller runs one turn at a time; between the end of   *)
(* a turn and the end of its TurnDone delivery ("finishing") inputs are    *)
(* parked, and the delivery itself starts the oldest of them.  A rotation  *)
(* (new session, compaction, rewind) and a turn exclude one another, and   *)
(* close seals admission for good.                                         *)
(*                                                                         *)
(* Controllers of one lineage share the directory of SessionTemp, and some *)
(* the gate that names the published generation; HotReload replaces one by *)
(* the next.  Every action is one critical section of Controller.mu, with  *)
(* the Manager's where it calls it.  Not modelled: the cancellation flags, *)
(* Steer (no frontend calls it) and Run, which keeps no books.             *)
(***************************************************************************)
EXTENDS SessionTemp, Sequences

CONSTANTS
  Controllers,  \* the controllers a lineage may ever have
  Inputs        \* what the user may submit, once each

ASSUME AdmissionAssumption ==
  IsFiniteSet(Controllers) /\ IsFiniteSet(Inputs) /\ None \notin Controllers

VARIABLES
  life,       \* controller -> "none", "open", "closing" (closed is set), "gone"
  running, finishing,  \* the flags of admission
  rotating,   \* ... and the flag of a session being replaced
  parked,     \* controller -> parkedTurns
  stage,      \* input -> "idle", "parked", "body" (spawned), "blocking" (RunTurn),
              \* "telling" (TurnDone on its way), "over" (finished or dropped)
  on,         \* input -> the controller that has it
  published   \* the controllers whose generation is the one their gate admits work for

turnVars == <<life, running, finishing, rotating, parked, stage, on, published>>

TurnInit ==
  /\ life = [c \in Controllers |-> "none"]
  /\ running = [c \in Controllers |-> FALSE] /\ finishing = [c \in Controllers |-> FALSE]
  /\ rotating = [c \in Controllers |-> FALSE]
  /\ parked = [c \in Controllers |-> <<>>]
  /\ stage = [i \in Inputs |-> "idle"] /\ on = [i \in Inputs |-> None]
  /\ published = {}

Closed(c) == life[c] \in {"closing", "gone"}
Admits(c) == c \in published                        \* AdmitNewWork
Busy(c) == running[c] \/ finishing[c]              \* Running()

Moves(i, s) == stage' = [stage EXCEPT ![i] = s]
Leaves(i) == Moves(i, "over") /\ on' = [on EXCEPT ![i] = None]
Enters(i, s, c) == Moves(i, s) /\ on' = [on EXCEPT ![i] = c]

\* admitGuardedTurn, in the order of its tests.
Submit(i, c) ==
  /\ stage[i] = "idle" /\ life[c] # "none"
  /\ \/ /\ Closed(c) \/ ~Admits(c) \/ rotating[c] \/ running[c]
        /\ Leaves(i) /\ UNCHANGED <<running, parked>>
     \/ /\ ~Closed(c) /\ Admits(c) /\ ~rotating[c] /\ ~running[c]
        /\ IF finishing[c]
           THEN /\ parked' = [parked EXCEPT ![c] = Append(@, i)]
                /\ Enters(i, "parked", c) /\ UNCHANGED running
           ELSE /\ running' = [running EXCEPT ![c] = TRUE]
                /\ Enters(i, "body", c) /\ UNCHANGED parked
  /\ UNCHANGED <<life, finishing, rotating, published, tempVars>>

\* Wrong on purpose: does not look at finishing.
RunTurnEarly(i, c) ==
  /\ stage[i] = "idle" /\ life[c] # "none"
  /\ ~(running[c] \/ rotating[c] \/ Closed(c)) /\ Admits(c)
  /\ running' = [running EXCEPT ![c] = TRUE]
  /\ Enters(i, "blocking", c)
  /\ UNCHANGED <<life, finishing, rotating, parked, published, tempVars>>

\* RunTurn: the caller waits for the turn, or is refused and may try again.
RunTurn(i, c) ==
  /\ stage[i] = "idle" /\ life[c] # "none"
  /\ ~(running[c] \/ finishing[c] \/ rotating[c] \/ Closed(c)) /\ Admits(c)
  /\ running' = [running EXCEPT ![c] = TRUE]
  /\ Enters(i, "blocking", c)
  /\ UNCHANGED <<life, finishing, rotating, parked, published, tempVars>>

RunTurnReturns(i) ==
  /\ stage[i] = "blocking" /\ Leaves(i)
  /\ running' = [running EXCEPT ![on[i]] = FALSE]
  /\ UNCHANGED <<life, finishing, rotating, parked, published, tempVars>>

\* finishGuardedTurn before TurnDone; a body that panics comes here as well.
BodyEnds(i) ==
  LET c == on[i] IN
  /\ stage[i] = "body" /\ Moves(i, "telling")
  /\ running' = [running EXCEPT ![c] = FALSE]
  /\ finishing' = [finishing EXCEPT ![c] = ~Closed(c)]
  /\ UNCHANGED <<life, rotating, parked, on, published, tempVars>>

\* Wrong on purpose: opens the gate and leaves the parked input to the next
\* delivery.
DeliveredLazily(i) ==
  LET c == on[i] IN
  /\ stage[i] = "telling" /\ Leaves(i)
  /\ finishing' = [finishing EXCEPT ![c] = FALSE]
  /\ UNCHANGED <<life, running, rotating, parked, published, tempVars>>

\* ... and after: the gate opens and the oldest parked input starts, in one
\* critical section, whether or not its generation is still published.
Delivered(i) ==
  LET c == on[i] IN
  /\ stage[i] = "telling"
  /\ finishing' = [finishing EXCEPT ![c] = FALSE]
  /\ IF Closed(c) \/ parked[c] = <<>>
     THEN Leaves(i) /\ UNCHANGED <<running, parked>>
     ELSE /\ stage' = [stage EXCEPT ![i] = "over", ![Head(parked[c])] = "body"]
          /\ on' = [on EXCEPT ![i] = None]
          /\ parked' = [parked EXCEPT ![c] = Tail(@)]
          /\ running' = [running EXCEPT ![c] = TRUE]
  /\ UNCHANGED <<life, rotating, published, tempVars>>

\* beginRotation, which does not ask whether the controller is closed.
BeginRotation(c) ==
  /\ life[c] # "none" /\ ~Busy(c) /\ ~rotating[c]
  /\ rotating' = [rotating EXCEPT ![c] = TRUE]
  /\ UNCHANGED <<life, running, finishing, parked, stage, on, published, tempVars>>

\* NewSession, ClearSession: the temporary directory is rotated with the session
\* and the gate opens again; nothing that asks for admission gets in between.
SwapSession(c) ==
  /\ rotating[c] /\ rotating' = [rotating EXCEPT ![c] = FALSE]
  /\ Rotate
  /\ UNCHANGED <<life, running, finishing, parked, stage, on, published>>

\* endRotation without a swap: compaction, rewind, a failure before it.
EndRotation(c) ==
  /\ rotating[c] /\ rotating' = [rotating EXCEPT ![c] = FALSE]
  /\ UNCHANGED <<life, running, finishing, parked, stage, on, published, tempVars>>

\* A turn launches a command in the directory; it may outlive the turn.
Launch(i, k) ==
  /\ stage[i] \in {"body", "blocking"} /\ Acquire(k)
  /\ UNCHANGED turnVars

Exits(k) == LeaseRelease(k) /\ UNCHANGED turnVars

\* control.New retains the directory before anybody can see the controller.
Open(c) ==
  /\ life[c] = "none" /\ life' = [life EXCEPT ![c] = "open"]
  /\ Retain
  /\ UNCHANGED <<running, finishing, rotating, parked, stage, on>>

\* close, first critical section: no input starts from here on.
CloseBegins(c) ==
  /\ life[c] = "open" /\ life' = [life EXCEPT ![c] = "closing"]
  /\ finishing' = [finishing EXCEPT ![c] = FALSE]
  /\ parked' = [parked EXCEPT ![c] = <<>>]
  /\ LET waiting == {i \in Inputs : stage[i] = "parked" /\ on[i] = c} IN
       /\ stage' = [i \in Inputs |-> IF i \in waiting THEN "over" ELSE stage[i]]
       /\ on' = [i \in Inputs |-> IF i \in waiting THEN None ELSE on[i]]
  /\ UNCHANGED <<running, rotating, published, tempVars>>

\* ... and after hooks, jobs and cleanup, the directory last.
CloseEnds(c) ==
  /\ life[c] = "closing" /\ life' = [life EXCEPT ![c] = "gone"]
  /\ Release
  /\ UNCHANGED <<running, finishing, rotating, parked, stage, on, published>>

\* What callers ask of the controllers they can reach.
Admission(reachable) ==
  \/ \E i \in Inputs, c \in reachable : Submit(i, c) \/ RunTurn(i, c)
  \/ \E c \in reachable : BeginRotation(c)
  \/ \E i \in Inputs, k \in Commands : Launch(i, k)

Progress ==
  \/ \E i \in Inputs : RunTurnReturns(i) \/ BodyEnds(i) \/ Delivered(i)
  \/ \E c \in Controllers : SwapSession(c) \/ EndRotation(c) \/ CloseEnds(c)
  \/ \E k \in Commands : Exits(k)

TurnTypeOK ==
  /\ life \in [Controllers -> {"none", "open", "closing", "gone"}]
  /\ running \in [Controllers -> BOOLEAN] /\ finishing \in [Controllers -> BOOLEAN]
  /\ rotating \in [Controllers -> BOOLEAN]
  /\ parked \in [Controllers -> Seq(Inputs)]
  /\ stage \in [Inputs -> {"idle", "parked", "body", "blocking", "telling", "over"}]
  /\ on \in [Inputs -> Controllers \cup {None}]
  /\ published \subseteq Controllers

InBody(c) == {i \in Inputs : on[i] = c /\ stage[i] \in {"body", "blocking"}}
Telling(c) == {i \in Inputs : on[i] = c /\ stage[i] = "telling"}

\* A controller works on one turn at a time.  Until it closes, no turn begins
\* while the previous one is still being reported, no session is exchanged
\* under a turn or its report, and an input waits only while somebody will come
\* back for it.  Once it is closed only what was running goes on.
OneTurnAtATime ==
  \A c \in Controllers :
    /\ Cardinality(InBody(c)) <= 1 /\ (InBody(c) # {} <=> running[c])
    /\ rotating[c] => InBody(c) = {}
    /\ Closed(c) => parked[c] = <<>>
    /\ ~Closed(c) => /\ Cardinality(InBody(c) \cup Telling(c)) <= 1
                     /\ Telling(c) # {} <=> finishing[c]
                     /\ rotating[c] => Telling(c) = {}
                     /\ parked[c] # <<>> => Busy(c)
    /\ {i \in Inputs : on[i] = c /\ stage[i] = "parked"} =
         {parked[c][n] : n \in 1..Len(parked[c])}

\* No input slips in ahead of one that was parked before it: not through the gap
\* between a turn's end and its TurnDone, which admission itself opens.
NoSlippingIn ==
  [][\A i \in Inputs :
       stage[i] = "idle" /\ stage'[i] \in {"body", "blocking"} => parked[on'[i]] = <<>>]_turnVars
=============================================================================
