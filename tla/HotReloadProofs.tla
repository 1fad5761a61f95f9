--------------------------- MODULE HotReloadProofs ---------------------------
(***************************************************************************)
(* Theorems about HotReload, for any number of controllers, inputs,        *)
(* commands and directories.  Two invariants that do not meet: one of the  *)
(* directories (TempInv) and one of admission (TurnInv), which says of     *)
(* every controller who is in its turn, who reports and who waits.         *)
(***************************************************************************)
EXTENDS HotReload, FiniteSetTheorems, SequenceTheorems, TLAPS

-----------------------------------------------------------------------------
(* The inductive invariant *)

\* An input belongs to a controller from its admission to its end.
Placed == \A i \in Inputs : on[i] = None <=> stage[i] \in {"idle", "over"}

\* One input is in the body of a turn, and running says so; ...
Bodies(c) ==
  /\ \A i, j \in InBody(c) : i = j
  /\ running[c] <=> \E i \in Inputs : i \in InBody(c)
  /\ rotating[c] => \A i \in Inputs : i \notin InBody(c)

\* ... until the controller closes, nobody else reports meanwhile, and finishing
\* says whether somebody does; ...
Reports(c) ==
  ~Closed(c) =>
    /\ \A i, j \in InBody(c) \cup Telling(c) : i = j
    /\ finishing[c] <=> \E i \in Inputs : i \in Telling(c)
    /\ rotating[c] => \A i \in Inputs : i \notin Telling(c)

\* ... and the queue has each parked input once, while somebody will look at it: not
\* a turn its caller waits for, which is not followed by a delivery.
Queued(c) ==
  /\ Closed(c) => parked[c] = <<>>
  /\ ~Closed(c) /\ parked[c] # <<>> => Busy(c)
  /\ \A i \in Inputs : on[i] = c /\ stage[i] = "parked" <=>
                         \E n \in 1..Len(parked[c]) : parked[c][n] = i
  /\ \A m, n \in 1..Len(parked[c]) : parked[c][m] = parked[c][n] => m = n
  /\ \A i \in Inputs : on[i] = c /\ stage[i] = "blocking" => parked[c] = <<>>

TurnInv == Placed /\ \A c \in Controllers : Bodies(c) /\ Reports(c) /\ Queued(c)

\* A sweep has nothing in hand that is in use.
TempInv == DirectoryShared /\ sweeping \notin locked

\* A reload has a controller to replace, and a replacement once it is built.
ReloadInv ==
  /\ reload # "no" => serving \in Controllers
  /\ reload \in {"built", "published", "swapped"} => other \in Controllers

IInv == TypeOK /\ TurnInv /\ TempInv /\ ReloadInv

-----------------------------------------------------------------------------
(* Admission: what each step does to the turns *)

TurnTypes == TurnTypeOK /\ TurnInv

\* What admission keeps of the types, one input at a time.
LEMMA MovesTypes ==
  ASSUME TurnTypeOK, NEW i \in Inputs,
         NEW s \in {"idle", "parked", "body", "blocking", "telling", "over"},
         NEW c \in Controllers \cup {None}, Moves(i, s), on' = [on EXCEPT ![i] = c]
  PROVE  /\ stage' \in [Inputs -> {"idle", "parked", "body", "blocking", "telling", "over"}]
         /\ on' \in [Inputs -> Controllers \cup {None}]
  BY DEF TurnTypeOK, Moves

\* Submit: the input starts a turn, is parked, or is refused.
LEMMA SubmitTurn ==
  ASSUME TurnTypes, NEW i \in Inputs, NEW c \in Controllers, Submit(i, c)
  PROVE  TurnTypes'
<1> USE AdmissionAssumption DEF TurnTypes
<1>1. CASE Leaves(i) /\ UNCHANGED <<running, parked>>
  <2>1. TurnTypeOK'
    BY <1>1, MovesTypes DEF TurnTypeOK, Submit, Leaves
  <2>2. Placed'
    BY <1>1 DEF TurnTypeOK, TurnInv, Placed, Submit, Leaves, Moves
  <2>3. \A d \in Controllers : InBody(d)' = InBody(d) /\ Telling(d)' = Telling(d)
    BY <1>1 DEF TurnTypeOK, TurnInv, Placed, Submit, Leaves, Moves, InBody, Telling
  <2>4. ASSUME NEW d \in Controllers PROVE Queued(d)'
    BY <1>1, <2>1 DEF TurnTypeOK, TurnInv, Placed, Queued, Submit, Leaves, Moves, Closed, Busy
  <2>5. ASSUME NEW d \in Controllers PROVE Bodies(d)' /\ Reports(d)'
    BY <1>1, <2>1, <2>3 DEF TurnTypeOK, TurnInv, Bodies, Reports, Submit, Closed
  <2> QED
    BY <2>1, <2>2, <2>4, <2>5 DEF TurnInv
<1>2. CASE /\ ~Closed(c) /\ finishing[c] /\ parked' = [parked EXCEPT ![c] = Append(@, i)]
           /\ Enters(i, "parked", c) /\ UNCHANGED running
  <2>1. TurnTypeOK'
    <3>1. Append(parked[c], i) \in Seq(Inputs)
      BY AppendProperties DEF TurnTypeOK
    <3>2. parked' \in [Controllers -> Seq(Inputs)]
      BY <1>2, <3>1 DEF TurnTypeOK
    <3> QED
      BY <1>2, <3>2, MovesTypes DEF TurnTypeOK, Submit, Enters
  <2>2. Placed'
    BY <1>2 DEF TurnTypeOK, TurnInv, Placed, Submit, Enters, Moves
  <2>3. \A d \in Controllers : InBody(d)' = InBody(d) /\ Telling(d)' = Telling(d)
    BY <1>2 DEF TurnTypeOK, TurnInv, Placed, Submit, Enters, Moves, InBody, Telling
  <2>4. ASSUME NEW d \in Controllers PROVE Queued(d)'
    <3>1. Queued(d) /\ parked[c] \in Seq(Inputs)
      BY DEF TurnTypeOK, TurnInv
    <3>2. CASE d # c
      BY <1>2, <2>1, <3>1, <3>2 DEF TurnTypeOK, TurnInv, Placed, Queued, Submit, Enters, Moves, Closed, Busy
    <3>3. CASE d = c
      <4>1. /\ parked[c]' = Append(parked[c], i) /\ Len(parked[c]') = Len(parked[c]) + 1
            /\ Len(parked[c]) \in Nat
            /\ \A n \in 1..Len(parked[c]) : parked[c]'[n] = parked[c][n]
            /\ parked[c]'[Len(parked[c]) + 1] = i
        BY <1>2, <3>1, AppendProperties, LenProperties DEF TurnTypeOK
      <4>2. \A n \in 1..Len(parked[c]) : parked[c][n] # i
        BY <3>1, <3>3 DEF Submit, Queued
      <4>3. \A m, n \in 1..Len(parked[c]') : parked[c]'[m] = parked[c]'[n] => m = n
        BY <3>1, <3>3, <4>1, <4>2 DEF Queued
      <4>4. \A j \in Inputs : on'[j] = c /\ stage'[j] = "parked" <=>
                                j = i \/ (on[j] = c /\ stage[j] = "parked")
        BY <1>2 DEF TurnTypeOK, Enters, Moves
      <4>5. \A j \in Inputs : (\E n \in 1..Len(parked[c]') : parked[c]'[n] = j) <=>
                                j = i \/ \E n \in 1..Len(parked[c]) : parked[c][n] = j
        BY <4>1
      <4>6. \A j \in Inputs : on'[j] = c /\ stage'[j] = "parked" <=>
                                \E n \in 1..Len(parked[c]') : parked[c]'[n] = j
        BY <3>1, <3>3, <4>4, <4>5 DEF Queued
      <4>7. ~Closed(c)' /\ Busy(c)'
        BY <1>2 DEF Submit, Closed, Busy
      <4>8. \A j \in Inputs : on'[j] = c => stage'[j] # "blocking"
        BY <1>2, <3>1, <3>3 DEF TurnTypeOK, TurnInv, Reports, InBody, Telling, Enters, Moves
      <4> QED
        BY <3>3, <4>3, <4>6, <4>7, <4>8 DEF Queued
    <3> QED
      BY <3>2, <3>3
  <2>5. ASSUME NEW d \in Controllers PROVE Bodies(d)' /\ Reports(d)'
    BY <1>2, <2>1, <2>3 DEF TurnTypeOK, TurnInv, Bodies, Reports, Submit, Closed
  <2> QED
    BY <2>1, <2>2, <2>4, <2>5 DEF TurnInv
<1>3. CASE /\ ~Closed(c) /\ ~rotating[c] /\ ~running[c] /\ ~finishing[c]
           /\ running' = [running EXCEPT ![c] = TRUE]
           /\ Enters(i, "body", c) /\ UNCHANGED parked
  <2>1. TurnTypeOK'
    BY <1>3, MovesTypes DEF TurnTypeOK, Submit, Enters
  <2> QED
    BY <1>3, <2>1 DEF TurnTypeOK, TurnInv, Placed, Bodies, Reports, Queued, Submit, Enters, Moves, InBody, Telling, Closed, Busy
<1> QED
  BY <1>1, <1>2, <1>3 DEF Submit

\* A blocking input starts its turn at once or not at all.
LEMMA RunTurnTurn ==
  ASSUME TurnTypes, NEW i \in Inputs, NEW c \in Controllers, RunTurn(i, c)
  PROVE  TurnTypes'
<1> USE AdmissionAssumption DEF TurnTypes
<1>1. TurnTypeOK'
  BY MovesTypes DEF TurnTypeOK, RunTurn, Enters
<1> QED
  BY <1>1 DEF TurnTypeOK, TurnInv, Placed, Bodies, Reports, Queued, RunTurn, Enters, Moves,
              InBody, Telling, Closed, Busy

\* The goroutine of a blocking input returns after its turn.
LEMMA RunTurnReturnsTurn ==
  ASSUME TurnTypes, NEW i \in Inputs, RunTurnReturns(i)
  PROVE  TurnTypes'
<1> USE AdmissionAssumption DEF TurnTypes
<1>1. on[i] \in Controllers
  BY DEF TurnTypeOK, TurnInv, Placed, RunTurnReturns
<1>2. TurnTypeOK'
  BY <1>1, MovesTypes DEF TurnTypeOK, RunTurnReturns, Leaves
<1>3. Placed'
  BY DEF TurnTypeOK, TurnInv, Placed, RunTurnReturns, Leaves, Moves
<1>4. ASSUME NEW d \in Controllers PROVE Bodies(d)' /\ Reports(d)'
  BY <1>1, <1>2 DEF TurnTypeOK, TurnInv, Placed, Bodies, Reports, RunTurnReturns, Leaves, Moves,
                    InBody, Telling, Closed
<1>5. ASSUME NEW d \in Controllers PROVE Queued(d)'
  BY <1>1, <1>2 DEF TurnTypeOK, TurnInv, Placed, Queued, RunTurnReturns, Leaves, Moves, Closed, Busy
<1> QED
  BY <1>2, <1>3, <1>4, <1>5 DEF TurnInv

\* The body of a turn is over; the turn is not.
LEMMA BodyEndsTurn ==
  ASSUME TurnTypes, NEW i \in Inputs, BodyEnds(i)
  PROVE  TurnTypes'
<1> USE AdmissionAssumption DEF TurnTypes
<1>1. on[i] \in Controllers
  BY DEF TurnTypeOK, TurnInv, Placed, BodyEnds
<1>2. TurnTypeOK'
  BY <1>1 DEF TurnTypeOK, BodyEnds, Moves, Closed
<1>3. Placed'
  BY DEF TurnTypeOK, TurnInv, Placed, BodyEnds, Moves
<1>4. ASSUME NEW d \in Controllers PROVE Bodies(d)' /\ Reports(d)'
  BY <1>1, <1>2 DEF TurnTypeOK, TurnInv, Placed, Bodies, Reports, BodyEnds, Moves,
                    InBody, Telling, Closed
<1>5. ASSUME NEW d \in Controllers PROVE Queued(d)'
  BY <1>1, <1>2 DEF TurnTypeOK, TurnInv, Placed, Queued, BodyEnds, Moves, Closed, Busy
<1> QED
  BY <1>2, <1>3, <1>4, <1>5 DEF TurnInv

\* The turn is reported: the gate opens and the oldest parked input starts, if any.
LEMMA DeliveredTurn ==
  ASSUME TurnTypes, NEW i \in Inputs, Delivered(i)
  PROVE  TurnTypes'
<1> USE AdmissionAssumption DEF TurnTypes
<1>1. PICK c \in Controllers : c = on[i]
  BY DEF TurnTypeOK, TurnInv, Placed, Delivered
<1> DEFINE q == parked[c]
<1>a. /\ stage[i] = "telling" /\ on[i] = c
      /\ finishing' = [finishing EXCEPT ![c] = FALSE]
      /\ UNCHANGED <<life, rotating, published>>
  BY <1>1 DEF Delivered
<1>2. CASE Closed(c) \/ q = <<>>
  <2>a. Leaves(i) /\ UNCHANGED <<running, parked>>
    BY <1>1, <1>2 DEF Delivered
  <2>1. TurnTypeOK'
    BY <1>1, <1>a, <2>a, MovesTypes DEF TurnTypeOK, Leaves
  <2>2. Placed'
    BY <1>a, <2>a DEF TurnTypeOK, TurnInv, Placed, Leaves, Moves
  <2>3. ASSUME NEW d \in Controllers PROVE Bodies(d)' /\ Reports(d)'
    BY <1>1, <1>a, <2>a, <2>1 DEF TurnTypeOK, TurnInv, Placed, Bodies, Reports, Leaves, Moves,
                                  InBody, Telling, Closed
  <2>4. ASSUME NEW d \in Controllers PROVE Queued(d)'
    BY <1>1, <1>2, <1>a, <2>a, <2>1 DEF TurnTypeOK, TurnInv, Placed, Queued, Leaves, Moves, Closed, Busy
  <2> QED
    BY <2>1, <2>2, <2>3, <2>4 DEF TurnInv
<1>3. CASE ~Closed(c) /\ q # <<>>
  <2> DEFINE h == Head(q)
  <2>a. /\ stage' = [stage EXCEPT ![i] = "over", ![h] = "body"]
        /\ on' = [on EXCEPT ![i] = None]
        /\ parked' = [parked EXCEPT ![c] = Tail(q)]
        /\ running' = [running EXCEPT ![c] = TRUE]
    BY <1>1, <1>3 DEF Delivered
  <2>b. /\ q \in Seq(Inputs) /\ Len(q) \in Nat /\ Len(q) > 0
        /\ h = q[1] /\ h \in Inputs
        /\ Tail(q) \in Seq(Inputs) /\ Len(Tail(q)) = Len(q) - 1
        /\ \A n \in 1..Len(Tail(q)) : Tail(q)[n] = q[n + 1]
    BY <1>1, <1>3, EmptySeq, HeadTailProperties, LenProperties DEF TurnTypeOK
  <2>c. on[h] = c /\ stage[h] = "parked" /\ h # i
    BY <1>1, <1>a, <2>b DEF TurnInv, Queued
  <2> HIDE DEF h
  <2>1. TurnTypeOK'
    BY <1>1, <1>a, <2>a, <2>b DEF TurnTypeOK
  <2>2. Placed'
    BY <1>a, <2>a, <2>b, <2>c DEF TurnTypeOK, TurnInv, Placed
  <2>d. \A j \in InBody(c) \cup Telling(c) : j = i
    BY <1>1, <1>3, <1>a DEF TurnInv, Reports, InBody, Telling
  <2>e. InBody(c)' = {h} /\ Telling(c)' = {} /\ ~rotating[c]
    BY <1>1, <1>3, <1>a, <2>a, <2>b, <2>c, <2>d DEF TurnTypeOK, TurnInv, Reports, InBody, Telling, Closed
  <2>3. ASSUME NEW d \in Controllers PROVE Bodies(d)' /\ Reports(d)'
    <3>1. CASE d = c
      BY <3>1, <1>1, <1>a, <2>a, <2>b, <2>e DEF TurnTypeOK, Bodies, Reports
    <3>2. CASE d # c
      BY <3>2, <1>1, <1>a, <2>a, <2>b, <2>c, <2>1 DEF TurnTypeOK, TurnInv, Placed, Bodies, Reports,
                                  InBody, Telling, Closed
    <3> QED
      BY <3>1, <3>2
  <2>4. ASSUME NEW d \in Controllers PROVE Queued(d)'
    <3>1. CASE d # c
      BY <3>1, <1>1, <1>a, <2>a, <2>b, <2>c, <2>1 DEF TurnTypeOK, TurnInv, Placed, Queued, Closed, Busy
    <3>2. CASE d = c
      <4>0. parked'[c] = Tail(q) /\ running'[c] /\ life' = life
        BY <1>1, <1>a, <2>a DEF TurnTypeOK
      <4>1. \A m, n \in 1..Len(q) : q[m] = q[n] => m = n
        BY <1>1 DEF TurnInv, Queued
      <4>2. \A m, n \in 1..Len(Tail(q)) : Tail(q)[m] = Tail(q)[n] => m = n
        <5> TAKE m, n \in 1..Len(Tail(q))
        <5>1. /\ m + 1 \in 1..Len(q) /\ n + 1 \in 1..Len(q)
              /\ Tail(q)[m] = q[m + 1] /\ Tail(q)[n] = q[n + 1]
              /\ m \in Int /\ n \in Int
          BY <2>b
        <5>2. q[m + 1] = q[n + 1] => m + 1 = n + 1
          BY <4>1, <5>1
        <5> QED
          BY <5>1, <5>2
      <4>3. \A j \in Inputs : (\E n \in 1..Len(Tail(q)) : Tail(q)[n] = j) <=>
                              j # h /\ \E n \in 1..Len(q) : q[n] = j
        <5>1. ASSUME NEW j \in Inputs, NEW n \in 1..Len(Tail(q)), Tail(q)[n] = j
              PROVE  j # h /\ \E m \in 1..Len(q) : q[m] = j
          <6>1. n + 1 \in 1..Len(q) /\ q[n + 1] = j /\ 1 \in 1..Len(q) /\ n + 1 # 1
            BY <5>1, <2>b
          <6> QED
            BY <6>1, <4>1, <2>b
        <5>2. ASSUME NEW j \in Inputs, j # h, NEW n \in 1..Len(q), q[n] = j
              PROVE  \E m \in 1..Len(Tail(q)) : Tail(q)[m] = j
          <6>1. n - 1 \in 1..Len(Tail(q)) /\ Tail(q)[n - 1] = q[n - 1 + 1] /\ n - 1 + 1 = n
            BY <5>2, <2>b
          <6> QED
            BY <6>1, <5>2
        <5> QED
          BY <5>1, <5>2
      <4>4. \A j \in Inputs : on'[j] = c /\ stage'[j] = "parked" <=>
                              j # h /\ on[j] = c /\ stage[j] = "parked"
        BY <1>a, <2>a, <2>b, <2>c DEF TurnTypeOK
      <4>5. \A j \in Inputs : on[j] = c /\ stage[j] = "parked" <=>
                              \E n \in 1..Len(q) : q[n] = j
        BY <1>1 DEF TurnInv, Queued
      <4>6. \A j \in Inputs : on'[j] = c /\ stage'[j] = "parked" <=>
                              \E n \in 1..Len(Tail(q)) : Tail(q)[n] = j
        BY <4>3, <4>4, <4>5
      <4>7. ~Closed(c)' /\ Busy(c)'
        BY <1>3, <4>0 DEF Closed, Busy
      <4>8. \A j \in Inputs : on'[j] = c => stage'[j] # "blocking"
        BY <1>1, <1>a, <2>a, <2>b, <2>c, <2>e, <2>1 DEF TurnTypeOK, InBody
      <4>9. Queued(c)'
        <5> DEFINE r == Tail(q)
        <5>1. /\ \A m, n \in 1..Len(r) : r[m] = r[n] => m = n
              /\ \A j \in Inputs : on'[j] = c /\ stage'[j] = "parked" <=>
                                     \E n \in 1..Len(r) : r[n] = j
              /\ parked'[c] = r
          BY <4>0, <4>2, <4>6
        <5> HIDE DEF r
        <5> QED
          BY <4>7, <4>8, <5>1 DEF Queued
      <4> QED
        BY <3>2, <4>9
    <3> QED
      BY <3>1, <3>2
  <2> QED
    BY <2>1, <2>2, <2>3, <2>4 DEF TurnInv
<1> QED
  BY <1>2, <1>3

\* A rotation closes the gate only when no turn is running.
LEMMA BeginRotationTurn ==
  ASSUME TurnTypes, NEW c \in Controllers, BeginRotation(c)
  PROVE  TurnTypes'
<1> USE DEF TurnTypes
<1>1. TurnTypeOK'
  BY DEF TurnTypeOK, BeginRotation
<1>2. ASSUME NEW d \in Controllers PROVE Bodies(d)' /\ Reports(d)' /\ Queued(d)'
  BY DEF TurnTypeOK, TurnInv, Bodies, Reports, Queued, BeginRotation, InBody, Telling, Closed, Busy
<1> QED
  BY <1>1, <1>2 DEF TurnInv, Placed, BeginRotation

\* A rotation is over, however it went.
LEMMA RotatedTurn ==
  ASSUME TurnTypes, NEW c \in Controllers, rotating' = [rotating EXCEPT ![c] = FALSE],
         UNCHANGED <<life, running, finishing, parked, stage, on, published>>
  PROVE  TurnTypes'
<1> USE DEF TurnTypes
<1>1. TurnTypeOK'
  BY DEF TurnTypeOK
<1>2. ASSUME NEW d \in Controllers PROVE Bodies(d)' /\ Reports(d)' /\ Queued(d)'
  BY DEF TurnTypeOK, TurnInv, Bodies, Reports, Queued, InBody, Telling, Closed, Busy
<1> QED
  BY <1>1, <1>2 DEF TurnInv, Placed

\* A generation is published, a controller opens or has finished closing: whether
\* it is closed to admission stays as it is.
LEMMA LifeTurn ==
  ASSUME TurnTypes, life' \in [Controllers -> {"none", "open", "closing", "gone"}],
         \A d \in Controllers : Closed(d)' = Closed(d), published' \subseteq Controllers,
         UNCHANGED <<running, finishing, rotating, parked, stage, on>>
  PROVE  TurnTypes'
<1> USE DEF TurnTypes
<1>1. TurnTypeOK'
  BY DEF TurnTypeOK
<1>2. ASSUME NEW d \in Controllers PROVE Bodies(d)' /\ Reports(d)' /\ Queued(d)'
  BY DEF TurnInv, Bodies, Reports, Queued, InBody, Telling, Busy
<1> QED
  BY <1>1, <1>2 DEF TurnInv, Placed

\* A controller that begins to close drops what was parked.
LEMMA CloseBeginsTurn ==
  ASSUME TurnTypes, NEW c \in Controllers, CloseBegins(c)
  PROVE  TurnTypes'
<1> USE AdmissionAssumption DEF TurnTypes
<1> DEFINE W == {i \in Inputs : stage[i] = "parked" /\ on[i] = c}
<1>a. /\ life' = [life EXCEPT ![c] = "closing"] /\ finishing' = [finishing EXCEPT ![c] = FALSE]
      /\ parked' = [parked EXCEPT ![c] = <<>>]
      /\ stage' = [i \in Inputs |-> IF i \in W THEN "over" ELSE stage[i]]
      /\ on' = [i \in Inputs |-> IF i \in W THEN None ELSE on[i]]
      /\ UNCHANGED <<running, rotating, published>>
  BY DEF CloseBegins
<1>1. TurnTypeOK'
  <2>1. <<>> \in Seq(Inputs)
    OBVIOUS
  <2> QED
    BY <1>a, <2>1 DEF TurnTypeOK
<1>2. Placed'
  BY <1>a DEF TurnTypeOK, TurnInv, Placed
<1>3. \A d \in Controllers : InBody(d)' = InBody(d) /\ Telling(d)' = Telling(d)
  BY <1>a DEF TurnTypeOK, TurnInv, Placed, InBody, Telling
<1>4. ASSUME NEW d \in Controllers PROVE Bodies(d)' /\ Reports(d)'
  BY <1>1, <1>3, <1>a DEF TurnTypeOK, TurnInv, Bodies, Reports, Closed
<1>5. ASSUME NEW d \in Controllers PROVE Queued(d)'
  <2>1. CASE d = c
    <3>1. parked'[c] = <<>> /\ Len(parked'[c]) = 0 /\ life'[c] = "closing"
      BY <1>a DEF TurnTypeOK
    <3>2. \A i \in Inputs : ~(on'[i] = c /\ stage'[i] = "parked")
      BY <1>a
    <3> QED
      BY <2>1, <3>1, <3>2 DEF Queued, Closed
  <2>2. CASE d # c
    BY <1>a, <2>2 DEF TurnTypeOK, TurnInv, Placed, Queued, Closed, Busy
  <2> QED
    BY <2>1, <2>2
<1> QED
  BY <1>1, <1>2, <1>4, <1>5 DEF TurnInv

\* A process dies with its turns.
LEMMA CrashTurn ==
  ASSUME TurnTypes, Crash
  PROVE  TurnTypes'
<1> USE AdmissionAssumption DEF TurnTypes
<1>1. TurnTypeOK'
  <2>1. <<>> \in Seq(Inputs)
    OBVIOUS
  <2> QED
    BY <2>1 DEF TurnTypeOK, Crash
<1>2. Placed'
  BY DEF TurnTypeOK, Placed, Crash
<1>3. ASSUME NEW d \in Controllers PROVE Bodies(d)' /\ Reports(d)' /\ Queued(d)'
  <2>1. /\ parked'[d] = <<>> /\ Len(parked'[d]) = 0 /\ ~running'[d] /\ ~finishing'[d]
        /\ ~rotating'[d] /\ \A i \in Inputs : on'[i] # d
    BY DEF Crash
  <2> QED
    BY <2>1 DEF Bodies, Reports, Queued, InBody, Telling
<1> QED
  BY <1>1, <1>2, <1>3 DEF TurnInv

\* Nothing of the turns changes.
LEMMA TurnUnchanged ==
  ASSUME TurnTypes, UNCHANGED turnVars
  PROVE  TurnTypes'
<1>1. \A d \in Controllers : Closed(d)' = Closed(d)
  BY DEF turnVars, Closed
<1> QED
  BY <1>1, LifeTurn DEF turnVars, TurnTypes, TurnTypeOK

\* A controller opens; its turns begin later.
LEMMA OpenTurn ==
  ASSUME TurnTypes, NEW c \in Controllers, Open(c), published' \subseteq Controllers
  PROVE  TurnTypes'
<1>1. \A d \in Controllers : Closed(d)' = Closed(d)
  BY DEF Open, Closed, TurnTypes, TurnTypeOK
<1> QED
  BY <1>1, LifeTurn DEF Open, TurnTypes, TurnTypeOK

\* A closing controller is gone; what was running goes on.
LEMMA CloseEndsTurn ==
  ASSUME TurnTypes, NEW c \in Controllers, CloseEnds(c)
  PROVE  TurnTypes'
<1>1. \A d \in Controllers : Closed(d)' = Closed(d)
  BY DEF CloseEnds, Closed, TurnTypes, TurnTypeOK
<1> QED
  BY <1>1, LifeTurn DEF CloseEnds, TurnTypes, TurnTypeOK

-----------------------------------------------------------------------------
(* The directory: what each operation of the Manager does to it *)

Kept == TempTypeOK /\ DirectoriesInUse /\ sweeping \notin locked

\* Retiring the current directory deletes it unless a command still holds it.
LEMMA RetireKeeps ==
  ASSUME Kept, Retire, UNCHANGED <<lease, sweeping>>, owners' \in Nat, sealed' \in BOOLEAN
  PROVE  Kept'
<1> USE TempAssumption DEF Kept
<1>1. TempTypeOK'
  BY DEF TempTypeOK, Retire, DeleteGeneration, KeepDirectories
<1>2. locked' = ({gen'} \cup {lease'[k] : k \in Commands}) \ {None}
  BY DEF TempTypeOK, DirectoriesInUse, Retire, DeleteGeneration, KeepDirectories, Holders
<1>3. locked' \subseteq dirs' /\ sweeping' \notin locked'
  BY DEF TempTypeOK, DirectoriesInUse, Retire, DeleteGeneration, KeepDirectories
<1> QED
  BY <1>1, <1>2, <1>3 DEF DirectoriesInUse

\* A command leases the current directory, or a new one.
LEMMA AcquireKeeps ==
  ASSUME Kept, NEW k \in Commands, Acquire(k)
  PROVE  Kept'
<1> USE TempAssumption DEF Kept
<1>1. PICK d \in IF gen # None THEN {gen} ELSE Dirs \ (dirs \cup {sweeping}) :
        /\ gen' = d /\ lease' = [lease EXCEPT ![k] = d]
        /\ dirs' = dirs \cup {d} /\ locked' = locked \cup {d}
  BY DEF Acquire
<1>2. /\ lease[k] = None /\ d \in Dirs /\ d # sweeping /\ (gen # None => d = gen)
      /\ UNCHANGED <<owners, sealed, sweeping>>
  BY <1>1 DEF Acquire, TempTypeOK, DirectoriesInUse
<1>3. TempTypeOK'
  BY <1>1, <1>2 DEF TempTypeOK
<1>4. locked' = ({gen'} \cup {lease'[j] : j \in Commands}) \ {None}
  BY <1>1, <1>2 DEF TempTypeOK, DirectoriesInUse
<1> QED
  BY <1>1, <1>2, <1>3, <1>4 DEF DirectoriesInUse

\* The last lease of a retired directory deletes it.
LEMMA LeaseReleaseKeeps ==
  ASSUME Kept, NEW k \in Commands, LeaseRelease(k)
  PROVE  Kept'
<1> USE TempAssumption DEF Kept
<1>1. TempTypeOK'
  BY DEF TempTypeOK, LeaseRelease, DeleteGeneration, KeepDirectories
<1>2. locked' = ({gen'} \cup {lease'[j] : j \in Commands}) \ {None}
  BY DEF TempTypeOK, DirectoriesInUse, LeaseRelease, DeleteGeneration, KeepDirectories, Holders
<1>3. locked' \subseteq dirs' /\ sweeping' \notin locked'
  BY DEF TempTypeOK, DirectoriesInUse, LeaseRelease, DeleteGeneration, KeepDirectories
<1> QED
  BY <1>1, <1>2, <1>3 DEF DirectoriesInUse

\* The sweep removes only what nobody has locked.
LEMMA SweepKeeps ==
  ASSUME Kept, NEW d \in Dirs, SweepFinds(d) \/ SweepRemoves(d)
  PROVE  Kept'
  BY TempAssumption DEF Kept, TempTypeOK, DirectoriesInUse, SweepFinds, SweepRemoves

\* A process that dies frees its locks; its directories stay.
LEMMA TempCrashKeeps ==
  ASSUME Kept, TempCrash
  PROVE  Kept'
  BY TempAssumption DEF Kept, TempTypeOK, DirectoriesInUse, TempCrash

\* Nothing of the directories changes.
LEMMA KeptUnchanged ==
  ASSUME Kept, UNCHANGED <<gen, lease, dirs, locked, sweeping>>,
         owners' \in Nat, sealed' \in BOOLEAN
  PROVE  Kept'
  BY DEF Kept, TempTypeOK, DirectoriesInUse

\* An owner leaves; the last one retires the directory.
LEMMA ReleaseKeeps ==
  ASSUME Kept, Release
  PROVE  Kept'
<1>1. owners' \in Nat /\ UNCHANGED <<lease, sweeping>>
  BY DEF Kept, TempTypeOK, Release
<1>2. CASE owners <= 1
  BY <1>1, <1>2, RetireKeeps DEF Release
<1>3. CASE ~(owners <= 1)
  BY <1>1, <1>3, KeptUnchanged DEF Release, Kept, TempTypeOK
<1> QED
  BY <1>2, <1>3

\* A rotation retires the current directory.
LEMMA RotateKeeps ==
  ASSUME Kept, Rotate
  PROVE  Kept'
<1>1. owners' \in Nat /\ sealed' \in BOOLEAN /\ UNCHANGED <<lease, sweeping>>
  BY DEF Kept, TempTypeOK, Rotate
<1> QED
  BY <1>1, RetireKeeps, KeptUnchanged DEF Rotate, KeepDirectories

-----------------------------------------------------------------------------
(* The owners: the controllers that have not finished closing *)

Owning == {c \in Controllers : life[c] \in {"open", "closing"}}

\* The controllers that own a directory are finitely many.
LEMMA OwningFinite == IsFiniteSet(Owning) /\ Cardinality(Owning) \in Nat
<1>1. Owning \subseteq Controllers /\ IsFiniteSet(Controllers)
  BY AdmissionAssumption DEF Owning
<1> QED
  BY <1>1, FS_Subset, FS_CardinalityType

\* Nobody becomes or ceases to be an owner.
LEMMA OwnersUnchanged ==
  ASSUME OwnersCounted, Owning' = Owning, UNCHANGED <<owners, sealed>>, sealed => gen' = gen
  PROVE  OwnersCounted'
  BY DEF OwnersCounted, Owning

\* A controller that opens is counted as an owner.
LEMMA OpenCounts ==
  ASSUME Kept, life \in [Controllers -> {"none", "open", "closing", "gone"}],
         OwnersCounted, NEW c \in Controllers, Open(c)
  PROVE  OwnersCounted'
<1>1. Owning' = Owning \cup {c} /\ c \notin Owning
  BY DEF Open, Owning
<1>2. Cardinality(Owning') = Cardinality(Owning) + 1
  BY <1>1, OwningFinite, FS_AddElement
<1> QED
  BY <1>2 DEF Open, Retain, OwnersCounted, Owning

\* One that is closed is not counted any more.
LEMMA CloseEndsCounts ==
  ASSUME Kept, life \in [Controllers -> {"none", "open", "closing", "gone"}],
         OwnersCounted, NEW c \in Controllers, CloseEnds(c)
  PROVE  OwnersCounted'
<1>1. Owning' = Owning \ {c} /\ c \in Owning
  BY DEF CloseEnds, Owning
<1>2. Cardinality(Owning') = Cardinality(Owning) - 1
  BY <1>1, OwningFinite, FS_RemoveElement
<1>3. owners \in Nat /\ Cardinality(Owning) \in Nat
  BY OwningFinite DEF Kept, TempTypeOK
<1> QED
  BY <1>2, <1>3 DEF CloseEnds, Release, Retire, OwnersCounted, Owning

\* The owners of a dead process are not counted any more.
LEMMA CrashCounts ==
  ASSUME Crash
  PROVE  OwnersCounted'
<1>1. Owning' = {}
  BY DEF Crash, Owning
<1> QED
  BY <1>1, FS_EmptySet DEF Crash, TempCrash, OwnersCounted, Owning

-----------------------------------------------------------------------------
(* The two together: one step *)

\* What the reload keeps in mind.
Minded ==
  /\ serving \in Controllers \cup {None} /\ other \in Controllers \cup {None}
  /\ reload \in {"no", "checked", "built", "published", "swapped"}
  /\ crashes \in 0..MaxCrashes
  /\ ReloadInv

\* The invariant is that of the turns, of the directories, of their counts and of the reload.
LEMMA Parts == IInv <=> TurnTypes /\ Kept /\ OwnersCounted /\ Minded
  BY DEF IInv, TypeOK, TurnTypes, Kept, Minded, TempInv, DirectoryShared

\* The admission of turns and the life of commands ...
LEMMA AdmissionStep ==
  ASSUME TurnTypes, Kept, OwnersCounted, Admission(Reachable)
  PROVE  TurnTypes' /\ Kept' /\ OwnersCounted'
<1>0. Reachable \subseteq Controllers
  BY DEF Reachable
<1>1. ASSUME NEW i \in Inputs, NEW c \in Reachable, Submit(i, c) \/ RunTurn(i, c)
      PROVE  TurnTypes' /\ Kept' /\ OwnersCounted'
  <2>1. TurnTypes'
    BY <1>0, <1>1, SubmitTurn, RunTurnTurn
  <2>2. UNCHANGED tempVars /\ UNCHANGED life
    BY <1>1 DEF Submit, RunTurn
  <2> QED
    BY <2>1, <2>2, KeptUnchanged, OwnersUnchanged DEF tempVars, Owning, Kept, TempTypeOK
<1>2. ASSUME NEW c \in Reachable, BeginRotation(c)
      PROVE  TurnTypes' /\ Kept' /\ OwnersCounted'
  <2>1. UNCHANGED tempVars /\ UNCHANGED life
    BY <1>2 DEF BeginRotation
  <2> QED
    BY <1>0, <1>2, <2>1, BeginRotationTurn, KeptUnchanged, OwnersUnchanged
       DEF tempVars, Owning, Kept, TempTypeOK
<1>3. ASSUME NEW i \in Inputs, NEW k \in Commands, Launch(i, k)
      PROVE  TurnTypes' /\ Kept' /\ OwnersCounted'
  <2>1. UNCHANGED turnVars /\ UNCHANGED <<life, owners, sealed>> /\ ~sealed
    BY <1>3 DEF Launch, Acquire, turnVars
  <2> QED
    BY <1>3, <2>1, TurnUnchanged, AcquireKeeps, OwnersUnchanged DEF Launch, Owning
<1> QED
  BY <1>1, <1>2, <1>3 DEF Admission

\* The steps of turns, with the directories where they are.
LEMMA ProgressStep ==
  ASSUME TurnTypes, Kept, OwnersCounted, Progress
  PROVE  TurnTypes' /\ Kept' /\ OwnersCounted'
<1>1. ASSUME NEW i \in Inputs, RunTurnReturns(i) \/ BodyEnds(i) \/ Delivered(i)
      PROVE  TurnTypes' /\ Kept' /\ OwnersCounted'
  <2>1. TurnTypes'
    BY <1>1, RunTurnReturnsTurn, BodyEndsTurn, DeliveredTurn
  <2>2. UNCHANGED tempVars /\ UNCHANGED life
    BY <1>1 DEF RunTurnReturns, BodyEnds, Delivered
  <2> QED
    BY <2>1, <2>2, KeptUnchanged, OwnersUnchanged DEF tempVars, Owning, Kept, TempTypeOK
<1>2. ASSUME NEW c \in Controllers, EndRotation(c)
      PROVE  TurnTypes' /\ Kept' /\ OwnersCounted'
  <2>1. UNCHANGED tempVars /\ UNCHANGED life /\ TurnTypes'
    BY <1>2, RotatedTurn DEF EndRotation
  <2> QED
    BY <2>1, KeptUnchanged, OwnersUnchanged DEF tempVars, Owning, Kept, TempTypeOK
<1>3. ASSUME NEW c \in Controllers, SwapSession(c)
      PROVE  TurnTypes' /\ Kept' /\ OwnersCounted'
  <2>1. UNCHANGED <<life, owners, sealed>> /\ (sealed => gen' = gen) /\ TurnTypes'
    BY <1>3, RotatedTurn DEF SwapSession, Rotate
  <2> QED
    BY <1>3, <2>1, RotateKeeps, OwnersUnchanged DEF SwapSession, Owning
<1>4. ASSUME NEW c \in Controllers, CloseEnds(c)
      PROVE  TurnTypes' /\ Kept' /\ OwnersCounted'
  BY <1>4, CloseEndsTurn, ReleaseKeeps, CloseEndsCounts DEF CloseEnds, TurnTypes, TurnTypeOK
<1>5. ASSUME NEW k \in Commands, Exits(k)
      PROVE  TurnTypes' /\ Kept' /\ OwnersCounted'
  <2>1. UNCHANGED turnVars /\ UNCHANGED <<life, owners, sealed, gen>>
    BY <1>5 DEF Exits, LeaseRelease, turnVars
  <2> QED
    BY <1>5, <2>1, TurnUnchanged, LeaseReleaseKeeps, OwnersUnchanged DEF Exits, Owning
<1> QED
  BY <1>1, <1>2, <1>3, <1>4, <1>5 DEF Progress

\* A controller opens.
LEMMA OpenStep ==
  ASSUME TurnTypes, Kept, OwnersCounted, NEW c \in Controllers, Open(c),
         published' \subseteq Controllers
  PROVE  TurnTypes' /\ Kept' /\ OwnersCounted'
<1>1. /\ owners' \in Nat /\ sealed' \in BOOLEAN
      /\ UNCHANGED <<gen, lease, dirs, locked, sweeping>>
  BY DEF Open, Retain, Kept, TempTypeOK
<1> QED
  BY <1>1, OpenTurn, OpenCounts, KeptUnchanged DEF TurnTypes, TurnTypeOK

\* A controller begins to close.
LEMMA CloseBeginsStep ==
  ASSUME TurnTypes, Kept, OwnersCounted, NEW c \in Controllers, CloseBegins(c)
  PROVE  TurnTypes' /\ Kept' /\ OwnersCounted'
<1>1. UNCHANGED tempVars
  BY DEF CloseBegins
<1>2. Owning' = Owning
  BY DEF CloseBegins, Owning, TurnTypes, TurnTypeOK
<1> QED
  BY <1>1, <1>2, CloseBeginsTurn, KeptUnchanged, OwnersUnchanged DEF tempVars, Kept, TempTypeOK

\* A step that changes none of the turns and the directories.
LEMMA NothingStep ==
  ASSUME TurnTypes, Kept, OwnersCounted, UNCHANGED <<tempVars, turnVars>>
  PROVE  TurnTypes' /\ Kept' /\ OwnersCounted'
<1>1. UNCHANGED tempVars /\ UNCHANGED turnVars /\ UNCHANGED life
  BY DEF turnVars
<1> QED
  BY <1>1, TurnUnchanged, KeptUnchanged, OwnersUnchanged DEF tempVars, Owning, Kept, TempTypeOK

\* ... reloads and switches of the model ...
LEMMA ReloadingStep ==
  ASSUME TurnTypes, Kept, OwnersCounted, Minded, Reloading
  PROVE  TurnTypes' /\ Kept' /\ OwnersCounted' /\ Minded'
<1>0. /\ None \notin Controllers /\ published \subseteq Controllers
      /\ serving \in Controllers \cup {None} /\ other \in Controllers \cup {None}
  BY AdmissionAssumption DEF TurnTypes, TurnTypeOK, Minded
<1>1. ASSUME NEW c \in Controllers, ReloadBuilds(c) \/ SwitchBuilds(c)
      PROVE  TurnTypes' /\ Kept' /\ OwnersCounted' /\ Minded'
  <2>1. Open(c) /\ published' \subseteq Controllers
    BY <1>0, <1>1 DEF ReloadBuilds, SwitchBuilds
  <2>2. Minded'
    BY <1>1 DEF ReloadBuilds, SwitchBuilds, Minded, ReloadInv
  <2> QED
    BY <2>1, <2>2, OpenStep
<1>2. ASSUME ReloadPublishes PROVE TurnTypes' /\ Kept' /\ OwnersCounted' /\ Minded'
  <2>1. /\ \A d \in Controllers : Closed(d)' = Closed(d)
        /\ published' \subseteq Controllers
        /\ UNCHANGED tempVars /\ UNCHANGED life
    BY <1>0, <1>2 DEF ReloadPublishes, Closed, Minded, ReloadInv
  <2>2. TurnTypes'
    BY <1>2, <2>1, LifeTurn DEF ReloadPublishes, TurnTypes, TurnTypeOK
  <2>3. Minded'
    BY <1>2 DEF ReloadPublishes, Minded, ReloadInv
  <2> QED
    BY <2>1, <2>2, <2>3, KeptUnchanged, OwnersUnchanged DEF tempVars, Owning, Kept, TempTypeOK
<1>3. ASSUME ReloadFails PROVE TurnTypes' /\ Kept' /\ OwnersCounted' /\ Minded'
  <2>1. Minded'
    BY <1>3 DEF ReloadFails, Minded, ReloadInv
  <2>2. UNCHANGED <<tempVars, turnVars>> \/ (other \in Controllers /\ CloseBegins(other))
    BY <1>0, <1>3 DEF ReloadFails
  <2> QED
    BY <2>1, <2>2, NothingStep, CloseBeginsStep
<1>4. ASSUME ReloadSwaps PROVE TurnTypes' /\ Kept' /\ OwnersCounted' /\ Minded'
  <2>1. Minded'
    BY <1>4 DEF ReloadSwaps, Minded, ReloadInv
  <2> QED
    BY <1>4, <2>1, NothingStep DEF ReloadSwaps
<1>5. ASSUME ReloadEnds PROVE TurnTypes' /\ Kept' /\ OwnersCounted' /\ Minded'
  <2>1. Minded'
    BY <1>5 DEF ReloadEnds, Minded, ReloadInv
  <2>2. UNCHANGED <<tempVars, turnVars>> \/ (other \in Controllers /\ CloseBegins(other))
    BY <1>5 DEF ReloadEnds, Minded, ReloadInv
  <2> QED
    BY <2>1, <2>2, NothingStep, CloseBeginsStep
<1> QED
  BY <1>1, <1>2, <1>3, <1>4, <1>5 DEF Reloading

\* ... and the process.
LEMMA FrontendStep ==
  ASSUME TurnTypes, Kept, OwnersCounted, Minded, Frontend
  PROVE  TurnTypes' /\ Kept' /\ OwnersCounted' /\ Minded'
<1>0. None \notin Controllers /\ serving \in Controllers \cup {None}
  BY AdmissionAssumption DEF Minded
<1>1. ASSUME NEW c \in Controllers, Boot(c)
      PROVE  TurnTypes' /\ Kept' /\ OwnersCounted' /\ Minded'
  <2>1. Open(c) /\ published' \subseteq Controllers
    BY <1>1 DEF Boot
  <2>2. Minded'
    BY <1>1 DEF Boot, Minded, ReloadInv
  <2> QED
    BY <2>1, <2>2, OpenStep
<1>2. ASSUME ReloadBegins PROVE TurnTypes' /\ Kept' /\ OwnersCounted' /\ Minded'
  <2>1. Minded'
    BY <1>0, <1>2 DEF ReloadBegins, Minded, ReloadInv
  <2> QED
    BY <1>2, <2>1, NothingStep DEF ReloadBegins
<1>3. ASSUME Shutdown PROVE TurnTypes' /\ Kept' /\ OwnersCounted' /\ Minded'
  <2>1. Minded'
    BY <1>3 DEF Shutdown, reloadVars, Minded, ReloadInv
  <2> QED
    BY <1>0, <1>3, <2>1, CloseBeginsStep DEF Shutdown
<1>4. ASSUME Crash PROVE TurnTypes' /\ Kept' /\ OwnersCounted' /\ Minded'
  <2>1. Minded'
    BY <1>4, ReloadAssumption DEF Crash, Minded, ReloadInv
  <2> QED
    BY <1>4, <2>1, CrashTurn, TempCrashKeeps, CrashCounts DEF Crash
<1>5. ASSUME NEW d \in Dirs, SweepFinds(d) \/ SweepRemoves(d), UNCHANGED <<turnVars, reloadVars>>
      PROVE  TurnTypes' /\ Kept' /\ OwnersCounted' /\ Minded'
  <2>1. UNCHANGED turnVars /\ UNCHANGED reloadVars /\ UNCHANGED <<life, owners, sealed, gen>>
    BY <1>5 DEF turnVars, SweepFinds, SweepRemoves
  <2>2. Minded'
    BY <2>1 DEF reloadVars, Minded, ReloadInv
  <2> QED
    BY <1>5, <2>1, <2>2, TurnUnchanged, SweepKeeps, OwnersUnchanged DEF Owning
<1> QED
  BY <1>1, <1>2, <1>3, <1>4, <1>5 DEF Frontend

\* At the start one controller is live.
LEMMA InitInv == Init => IInv
<1> SUFFICES ASSUME Init PROVE IInv
  OBVIOUS
<1> USE AdmissionAssumption, TempAssumption DEF Init
<1>1. TurnTypeOK
  <2>1. <<>> \in Seq(Inputs)
    OBVIOUS
  <2> QED
    BY <2>1 DEF TurnInit, TurnTypeOK
<1>2. TurnInv
  <2>1. ASSUME NEW c \in Controllers PROVE Bodies(c) /\ Reports(c) /\ Queued(c)
    <3>1. /\ parked[c] = <<>> /\ Len(parked[c]) = 0 /\ ~running[c] /\ ~finishing[c]
          /\ ~rotating[c] /\ \A i \in Inputs : on[i] # c
      BY DEF TurnInit
    <3> QED
      BY <3>1 DEF Bodies, Reports, Queued, InBody, Telling
  <2> QED
    BY <2>1 DEF TurnInv, Placed, TurnInit
<1>3. Kept
  BY DEF TempInit, Kept, TempTypeOK, DirectoriesInUse
<1>4. OwnersCounted
  <2>1. {c \in Controllers : life[c] \in {"open", "closing"}} = {}
    BY DEF TurnInit
  <2> QED
    BY <2>1, FS_EmptySet DEF OwnersCounted, TempInit
<1>5. Minded
  BY ReloadAssumption DEF Minded, ReloadInv
<1> QED
  BY <1>1, <1>2, <1>3, <1>4, <1>5, Parts DEF TurnTypes

\* Every step keeps the invariant.
LEMMA NextInv == IInv /\ [Next]_vars => IInv'
<1> SUFFICES ASSUME TurnTypes, Kept, OwnersCounted, Minded, [Next]_vars
             PROVE  TurnTypes' /\ Kept' /\ OwnersCounted' /\ Minded'
  BY Parts DEF IInv, TypeOK, TurnTypes, Kept, Minded, TempInv, DirectoryShared
<1>1. ASSUME Admission(Reachable) \/ Progress, UNCHANGED reloadVars
      PROVE  TurnTypes' /\ Kept' /\ OwnersCounted' /\ Minded'
  BY <1>1, AdmissionStep, ProgressStep DEF reloadVars, Minded, ReloadInv
<1>2. ASSUME UNCHANGED vars
      PROVE  TurnTypes' /\ Kept' /\ OwnersCounted' /\ Minded'
  BY <1>2, NothingStep DEF vars, reloadVars, Minded, ReloadInv
<1> QED
  BY <1>1, <1>2, ReloadingStep, FrontendStep DEF Next

-----------------------------------------------------------------------------
(* Theorems *)

\* One input at most is a set of one at most.
LEMMA AtMostOne ==
  ASSUME NEW S, \A i, j \in S : i = j
  PROVE  Cardinality(S) <= 1
<1>1. CASE S = {}
  BY <1>1, FS_EmptySet
<1>2. CASE S # {}
  <2>1. PICK i \in S : S = {i}
    BY <1>2
  <2>2. Cardinality({i}) = 1
    BY FS_Singleton
  <2> QED
    BY <2>1, <2>2
<1> QED
  BY <1>1, <1>2

\* The invariant has at most one turn per controller.
LEMMA OneTurn == IInv => OneTurnAtATime
<1> SUFFICES ASSUME IInv, NEW c \in Controllers
             PROVE  /\ Cardinality(InBody(c)) <= 1 /\ (InBody(c) # {} <=> running[c])
                    /\ rotating[c] => InBody(c) = {}
                    /\ Closed(c) => parked[c] = <<>>
                    /\ ~Closed(c) => /\ Cardinality(InBody(c) \cup Telling(c)) <= 1
                                     /\ Telling(c) # {} <=> finishing[c]
                                     /\ rotating[c] => Telling(c) = {}
                                     /\ parked[c] # <<>> => Busy(c)
                    /\ {i \in Inputs : on[i] = c /\ stage[i] = "parked"} =
                         {parked[c][n] : n \in 1..Len(parked[c])}
  BY DEF OneTurnAtATime
<1>0. Bodies(c) /\ Reports(c) /\ Queued(c) /\ TurnTypeOK
  BY DEF IInv, TypeOK, TurnInv
<1>1. Cardinality(InBody(c)) <= 1
  BY <1>0, AtMostOne DEF Bodies
<1>2. ~Closed(c) => Cardinality(InBody(c) \cup Telling(c)) <= 1
  BY <1>0, AtMostOne DEF Reports
<1>3. /\ InBody(c) # {} <=> running[c]
      /\ rotating[c] => InBody(c) = {}
  BY <1>0 DEF Bodies, InBody
<1>4. ~Closed(c) => /\ Telling(c) # {} <=> finishing[c]
                    /\ rotating[c] => Telling(c) = {}
  BY <1>0 DEF Reports, Telling
<1>5. /\ Closed(c) => parked[c] = <<>>
      /\ ~Closed(c) /\ parked[c] # <<>> => Busy(c)
  BY <1>0 DEF Queued
<1>6. {i \in Inputs : on[i] = c /\ stage[i] = "parked"} =
        {parked[c][n] : n \in 1..Len(parked[c])}
  <2>1. parked[c] \in Seq(Inputs) /\ \A n \in 1..Len(parked[c]) : parked[c][n] \in Inputs
    BY <1>0, ElementOfSeq DEF TurnTypeOK
  <2> QED
    BY <1>0, <2>1 DEF Queued
<1> QED
  BY <1>1, <1>2, <1>3, <1>4, <1>5, <1>6

\* The invariant holds throughout.
LEMMA InvOfReload == Spec => []IInv
  BY InitInv, NextInv, PTL DEF Spec

\* Type correctness of hot reload, of admission and of the session's directory.
THEOREM TypeCorrect == Spec => []TypeOK
<1>1. IInv => TypeOK
  BY DEF IInv
<1> QED
  BY <1>1, InvOfReload, PTL

\* A controller works on one turn at a time: its flags say who, its queue holds
\* each waiting input once, and somebody will come back for them.
THEOREM TurnsOneByOne == Spec => []OneTurnAtATime
  BY OneTurn, InvOfReload, PTL

\* The session's directory is there for whoever uses it, and nobody's otherwise,
\* and it goes with the last controller.
THEOREM DirectorySafe == Spec => []DirectoryShared
<1>1. IInv => DirectoryShared
  BY DEF IInv, TempInv
<1> QED
  BY <1>1, InvOfReload, PTL

\* A turn that begins by admission finds nothing parked: whoever was parked keeps the
\* controller busy.
LEMMA Fresh ==
  ASSUME TurnTypes, NEW c \in Controllers, ~Closed(c), ~Busy(c)
  PROVE  parked[c] = <<>>
  BY DEF TurnTypes, TurnInv, Queued

\* An input that starts without having been parked finds nothing parked before it.
LEMMA SlippingStep ==
  ASSUME IInv, [Next]_vars, NEW i \in Inputs, stage[i] = "idle", stage'[i] \in {"body", "blocking"}
  PROVE  parked[on'[i]] = <<>>
<1> USE DEF TurnTypes
<1>0. TurnTypes /\ \A c \in Reachable : c \in Controllers
  BY Parts DEF Reachable
<1>1. ASSUME NEW j \in Inputs, NEW c \in Reachable, Submit(j, c) \/ RunTurn(j, c)
      PROVE  parked[on'[i]] = <<>>
  <2>1. i = j
    BY <1>0, <1>1 DEF Submit, RunTurn, Leaves, Enters, Moves, TurnTypeOK
  <2>2. on'[i] = c /\ ~Closed(c) /\ ~Busy(c)
    BY <1>0, <1>1, <2>1 DEF Submit, RunTurn, Leaves, Enters, Moves, Busy, TurnTypeOK
  <2> QED
    BY <1>0, <2>2, Fresh
<1>2. ASSUME NEW j \in Inputs, RunTurnReturns(j) \/ BodyEnds(j) PROVE FALSE
  BY <1>0, <1>2 DEF RunTurnReturns, BodyEnds, Leaves, Moves, TurnTypeOK
<1>3. ASSUME NEW j \in Inputs, Delivered(j) PROVE FALSE
  <2>1. PICK c \in Controllers : c = on[j]
    BY <1>0, <1>3 DEF Delivered, TurnInv, Placed, TurnTypeOK
  <2>2. CASE Closed(c) \/ parked[c] = <<>>
    BY <1>0, <1>3, <2>1, <2>2 DEF Delivered, Leaves, Moves, TurnTypeOK
  <2>3. CASE ~(Closed(c) \/ parked[c] = <<>>)
    <3>1. stage[Head(parked[c])] = "parked"
      <4>1. parked[c] \in Seq(Inputs) /\ Queued(c)
        BY <1>0 DEF TurnInv, TurnTypeOK
      <4>2. Head(parked[c]) = parked[c][1] /\ 1 \in 1..Len(parked[c]) /\ parked[c][1] \in Inputs
        BY <2>3, <4>1, HeadTailProperties, EmptySeq, LenProperties
      <4> QED
        BY <4>1, <4>2 DEF Queued
    <3>2. stage' = [stage EXCEPT ![j] = "over", ![Head(parked[c])] = "body"]
      BY <1>3, <2>1, <2>3 DEF Delivered
    <3> QED
      BY <1>0, <3>1, <3>2 DEF TurnTypeOK
  <2> QED
    BY <2>2, <2>3
<1>4. ASSUME NEW c \in Controllers, CloseBegins(c) PROVE FALSE
  BY <1>4 DEF CloseBegins
<1>5. ASSUME Crash PROVE FALSE
  BY <1>5 DEF Crash
<1>6. ASSUME UNCHANGED stage PROVE FALSE
  BY <1>6
<1>7. ASSUME NEW c \in Controllers, BeginRotation(c) \/ SwapSession(c) \/ EndRotation(c) \/ CloseEnds(c)
                                     \/ Open(c)
      PROVE  FALSE
  BY <1>6, <1>7 DEF BeginRotation, SwapSession, EndRotation, CloseEnds, Open
<1>8. ASSUME UNCHANGED turnVars PROVE FALSE
  BY <1>6, <1>8 DEF turnVars
<1>9. CASE Admission(Reachable)
  BY <1>0, <1>1, <1>7, <1>8, <1>9 DEF Admission, Launch
<1>10. CASE Progress
  BY <1>2, <1>3, <1>7, <1>8, <1>10 DEF Progress, Exits
<1>11. CASE Reloading
  <2>1. other \in Controllers \/ (other = None /\ reload # "swapped")
    BY Parts DEF Minded, ReloadInv
  <2>2. ~(ReloadPublishes \/ ReloadSwaps)
    BY <1>6, <1>8 DEF ReloadPublishes, ReloadSwaps
  <2>3. ~(ReloadFails \/ ReloadEnds)
    BY <1>4, <1>8, <2>1 DEF ReloadFails, ReloadEnds
  <2> QED
    BY <1>7, <1>11, <2>2, <2>3 DEF Reloading, ReloadBuilds, SwitchBuilds
<1>12. CASE Frontend
  <2>1. serving \in Controllers \cup {None}
    BY Parts DEF Minded
  <2> QED
    BY <1>4, <1>5, <1>7, <1>8, <1>12, <2>1 DEF Frontend, Boot, ReloadBegins, Shutdown
<1>13. CASE UNCHANGED vars
  BY <1>8, <1>13 DEF vars
<1> QED
  BY <1>9, <1>10, <1>11, <1>12, <1>13 DEF Next

\* No input slips in ahead of one that was parked before it.
THEOREM NobodySlipsIn == Spec => NoSlippingIn
<1>1. IInv /\ [Next]_vars =>
        [\A i \in Inputs :
           stage[i] = "idle" /\ stage'[i] \in {"body", "blocking"} => parked[on'[i]] = <<>>]_turnVars
  BY SlippingStep
<1> QED
  BY <1>1, InvOfReload, PTL DEF Spec, NoSlippingIn
=============================================================================
