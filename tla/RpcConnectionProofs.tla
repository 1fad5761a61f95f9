------------------------- MODULE RpcConnectionProofs -------------------------
(***************************************************************************)
(* Theorems about RpcConnection for any number of callers and any limits.  *)
(* Two books carry the argument: a slot is given out for every frame in    *)
(* the queue and every caller on its way there, so that the bound of the   *)
(* slots bounds the queue; and a request that has begun is registered or   *)
(* has something in its channel until it returns (Served).                 *)
(***************************************************************************)
EXTENDS RpcConnection, FiniteSetTheorems, TLAPS

Reserved == {w \in Writers : pc[w] = "reserved"}

\* What is reported was seen to happen: the writer's job is one of the queue, a
\* result "ok" and an answer of the peer follow the frame.
Reported ==
  /\ wpc \in {"taken", "writing"} => writing \in Writers
  /\ \A w \in Writers : res[w] = "ok" => w \in sent
  /\ \A r \in Requests : answer[r] = "result" => r \in sent

\* A request that waits for its frame or its answer will be told.
Served ==
  \A r \in Requests :
    /\ pc[r] = "idle" => r \notin pending /\ answer[r] = "none"
    /\ pc[r] \in {"reserving", "reserved", "writing", "awaiting"} =>
         r \in pending \/ answer[r] # "none"

IInv == TypeOK /\ ConnectionSound /\ Reported /\ Served

-----------------------------------------------------------------------------
\* There are finitely many callers.
LEMMA WritersFinite == IsFiniteSet(Writers)
  BY ConnectionAssumption, FS_Union DEF Writers

\* ... and so finitely many of them hold a slot without a frame in the queue.
LEMMA ReservedCount == IsFiniteSet(Reserved) /\ Cardinality(Reserved) \in Nat
  BY WritersFinite, FS_Subset, FS_CardinalityType DEF Reserved

\* A caller that gets a slot is one more, ...
LEMMA OneMoreReserved ==
  ASSUME TypeOK, NEW w \in Writers, pc[w] # "reserved", Goes(w, "reserved")
  PROVE  Cardinality(Reserved') = Cardinality(Reserved) + 1
<1>1. Reserved' = Reserved \cup {w} /\ w \notin Reserved
  BY DEF TypeOK, Goes, Reserved
<1> QED
  BY <1>1, ReservedCount, FS_AddElement

\* ... one that leaves the gate is one less, ...
LEMMA OneLessReserved ==
  ASSUME TypeOK, NEW w \in Writers, pc[w] = "reserved", NEW s, s # "reserved", Goes(w, s)
  PROVE  Cardinality(Reserved') = Cardinality(Reserved) - 1 /\ Cardinality(Reserved) > 0
<1>1. Reserved' = Reserved \ {w} /\ w \in Reserved
  BY DEF TypeOK, Goes, Reserved
<1>2. Cardinality(Reserved') = Cardinality(Reserved) - 1
  BY <1>1, ReservedCount, FS_RemoveElement
<1>3. Cardinality(Reserved) # 0
  BY <1>1, ReservedCount, FS_EmptySet
<1> QED
  BY <1>2, <1>3, ReservedCount

\* ... and nobody else counts.
LEMMA SameReserved ==
  ASSUME TypeOK, NEW w \in Writers, pc[w] # "reserved", NEW s, s # "reserved", Goes(w, s)
  PROVE  Reserved' = Reserved
  BY DEF TypeOK, Goes, Reserved

-----------------------------------------------------------------------------
\* The initial state satisfies the inductive invariant.
LEMMA InitIInv == Init => IInv
<1> SUFFICES ASSUME Init PROVE IInv
  OBVIOUS
<1>1. Reserved = {}
  BY DEF Init, Reserved
<1>2. TypeOK
  BY ConnectionAssumption DEF Init, TypeOK
<1>3. SendsNeverBlock
  <2>1. Cardinality(Reserved) = 0
    BY <1>1, FS_EmptySet
  <2> QED
    BY <2>1 DEF Init, SendsNeverBlock, Reserved
<1>4. NobodyIsForgotten /\ SuccessIsReal
  BY DEF Init, NobodyIsForgotten, SuccessIsReal, Writers
<1>5. Reported /\ Served
  BY DEF Init, Reported, Served, Writers
<1> QED
  BY <1>2, <1>3, <1>4, <1>5 DEF IInv, ConnectionSound

\* Register preserves the inductive invariant.
LEMMA RegisterIInv ==
  ASSUME IInv, NEW r \in Requests, Register(r)
  PROVE  IInv'
<1>1. Reserved' = Reserved
  BY SameReserved DEF IInv, Writers, Register
<1>2. TypeOK'
  BY <1>1, ReservedCount, ConnectionAssumption
  DEF IInv, ConnectionSound, TypeOK, Writers, SendsNeverBlock, Reserved, Register, Goes, Stays,
      Closed, writeVars
<1>3. SendsNeverBlock'
  <2>1. slots = Len(queue) + Cardinality(Reserved) /\ UNCHANGED <<slots, queue>>
    BY DEF IInv, ConnectionSound, SendsNeverBlock, Reserved, Register, writeVars
  <2>2. slots' = Len(queue') + Cardinality(Reserved')
    BY <1>1, <2>1
  <2>3. \A q \in pending' : answer'[q] = "none"
    BY DEF IInv, ConnectionSound, SendsNeverBlock, Served, Register, Stays
  <2> QED
    BY <2>2, <2>3 DEF SendsNeverBlock, Reserved
<1>4. NobodyIsForgotten' /\ SuccessIsReal'
  BY ConnectionAssumption
  DEF IInv, ConnectionSound, TypeOK, Writers, NobodyIsForgotten, SuccessIsReal, Reported, Served,
      Register, Goes, Stays, Closed, writeVars
<1>5. Reported' /\ Served'
  BY ConnectionAssumption
  DEF IInv, ConnectionSound, TypeOK, Writers, NobodyIsForgotten, Reported, Served, Register, Goes,
      Stays, Closed, writeVars
<1> QED
  BY <1>2, <1>3, <1>4, <1>5 DEF IInv, ConnectionSound

\* Dispatch preserves it: a call of the peer is not a request of this side.
LEMMA DispatchIInv ==
  ASSUME IInv, NEW k \in Calls, Dispatch(k)
  PROVE  IInv'
<1>1. Reserved' = Reserved
  BY SameReserved DEF IInv, Writers, Dispatch
<1>2. TypeOK'
  BY <1>1, ReservedCount, ConnectionAssumption
  DEF IInv, ConnectionSound, TypeOK, Writers, SendsNeverBlock, Reserved, Dispatch, Goes, writeVars
<1>3. SendsNeverBlock'
  BY <1>1, ReservedCount
  DEF IInv, ConnectionSound, TypeOK, Writers, SendsNeverBlock, Reserved, Served, Dispatch, Goes,
      writeVars
<1>4. NobodyIsForgotten' /\ SuccessIsReal'
  BY ConnectionAssumption
  DEF IInv, ConnectionSound, TypeOK, Writers, NobodyIsForgotten, SuccessIsReal, Reported, Served,
      Dispatch, Goes, writeVars
<1>5. Reported' /\ Served'
  BY ConnectionAssumption
  DEF IInv, ConnectionSound, TypeOK, Writers, NobodyIsForgotten, Reported, Served, Dispatch, Goes,
      writeVars
<1> QED
  BY <1>2, <1>3, <1>4, <1>5 DEF IInv, ConnectionSound

\* HandlerReturns preserves it.
LEMMA HandlerReturnsIInv ==
  ASSUME IInv, NEW k \in Calls, HandlerReturns(k)
  PROVE  IInv'
<1>1. Reserved' = Reserved
  BY SameReserved DEF IInv, Writers, HandlerReturns
<1>2. TypeOK'
  BY <1>1, ReservedCount, ConnectionAssumption
  DEF IInv, ConnectionSound, TypeOK, Writers, SendsNeverBlock, Reserved, HandlerReturns, Goes,
      Stays, writeVars
<1>3. SendsNeverBlock'
  BY <1>1, ReservedCount
  DEF IInv, ConnectionSound, TypeOK, Writers, SendsNeverBlock, Reserved, Served, HandlerReturns,
      Goes, Stays, writeVars
<1>4. NobodyIsForgotten' /\ SuccessIsReal'
  BY ConnectionAssumption
  DEF IInv, ConnectionSound, TypeOK, Writers, NobodyIsForgotten, SuccessIsReal, Reported, Served,
      HandlerReturns, Goes, Stays, writeVars
<1>5. Reported' /\ Served'
  BY ConnectionAssumption
  DEF IInv, ConnectionSound, TypeOK, Writers, NobodyIsForgotten, Reported, Served, HandlerReturns,
      Goes, Stays, writeVars
<1> QED
  BY <1>2, <1>3, <1>4, <1>5 DEF IInv, ConnectionSound

\* ReserveFails preserves it.
LEMMA ReserveFailsIInv ==
  ASSUME IInv, NEW w \in Writers, ReserveFails(w)
  PROVE  IInv'
<1>1. Reserved' = Reserved
  BY SameReserved DEF IInv, Writers, ReserveFails, Leaves
<1>2. TypeOK'
  BY <1>1, ReservedCount, ConnectionAssumption
  DEF IInv, ConnectionSound, TypeOK, Writers, SendsNeverBlock, Reserved, ReserveFails, Leaves,
      Goes, Stays, writeVars
<1>3. SendsNeverBlock'
  BY <1>1, ReservedCount
  DEF IInv, ConnectionSound, TypeOK, Writers, SendsNeverBlock, Reserved, Served, ReserveFails,
      Leaves, Goes, Stays, writeVars
<1>4. NobodyIsForgotten' /\ SuccessIsReal'
  BY ConnectionAssumption
  DEF IInv, ConnectionSound, TypeOK, Writers, NobodyIsForgotten, SuccessIsReal, Reported, Served,
      ReserveFails, Leaves, Goes, Stays, writeVars
<1>5. Reported' /\ Served'
  BY ConnectionAssumption
  DEF IInv, ConnectionSound, TypeOK, Writers, NobodyIsForgotten, Reported, Served, ReserveFails,
      Leaves, Goes, Stays, writeVars
<1> QED
  BY <1>2, <1>3, <1>4, <1>5 DEF IInv, ConnectionSound

\* WriteReturns preserves it: a result "ok" follows the frame.
LEMMA WriteReturnsIInv ==
  ASSUME IInv, NEW w \in Writers, WriteReturns(w)
  PROVE  IInv'
<1>1. Reserved' = Reserved
  BY SameReserved DEF IInv, Writers, WriteReturns, Written, Leaves
<1>2. TypeOK'
  BY <1>1, ReservedCount, ConnectionAssumption
  DEF IInv, ConnectionSound, TypeOK, Writers, SendsNeverBlock, Reserved, WriteReturns, Written,
      Leaves, Goes, Stays, writeVars
<1>3. SendsNeverBlock'
  BY <1>1, ReservedCount
  DEF IInv, ConnectionSound, TypeOK, Writers, SendsNeverBlock, Reserved, Served, WriteReturns,
      Written, Leaves, Goes, Stays, writeVars
<1>4. NobodyIsForgotten' /\ SuccessIsReal'
  BY ConnectionAssumption
  DEF IInv, ConnectionSound, TypeOK, Writers, NobodyIsForgotten, SuccessIsReal, Reported, Served,
      WriteReturns, Written, Leaves, Goes, Stays, writeVars
<1>5. Reported' /\ Served'
  BY ConnectionAssumption
  DEF IInv, ConnectionSound, TypeOK, Writers, NobodyIsForgotten, Reported, Served, WriteReturns,
      Written, Leaves, Goes, Stays, writeVars
<1> QED
  BY <1>2, <1>3, <1>4, <1>5 DEF IInv, ConnectionSound

\* RequestReturns preserves it.
LEMMA RequestReturnsIInv ==
  ASSUME IInv, NEW r \in Requests, RequestReturns(r)
  PROVE  IInv'
<1>1. Reserved' = Reserved
  BY SameReserved DEF IInv, Writers, RequestReturns, Leaves
<1>2. TypeOK'
  BY <1>1, ReservedCount, ConnectionAssumption
  DEF IInv, ConnectionSound, TypeOK, Writers, SendsNeverBlock, Reserved, RequestReturns, Leaves,
      Goes, writeVars
<1>3. SendsNeverBlock'
  BY <1>1, ReservedCount
  DEF IInv, ConnectionSound, TypeOK, Writers, SendsNeverBlock, Reserved, Served, RequestReturns,
      Leaves, Goes, writeVars
<1>4. NobodyIsForgotten' /\ SuccessIsReal'
  BY ConnectionAssumption
  DEF IInv, ConnectionSound, TypeOK, Writers, NobodyIsForgotten, SuccessIsReal, Reported, Served,
      RequestReturns, Leaves, Goes, writeVars
<1>5. Reported' /\ Served'
  BY ConnectionAssumption
  DEF IInv, ConnectionSound, TypeOK, Writers, NobodyIsForgotten, Reported, Served, RequestReturns,
      Leaves, Goes, writeVars
<1> QED
  BY <1>2, <1>3, <1>4, <1>5 DEF IInv, ConnectionSound

\* FailReturns preserves it.
LEMMA FailReturnsIInv ==
  ASSUME IInv, NEW w \in Writers, FailReturns(w)
  PROVE  IInv'
<1>1. Reserved' = Reserved
  BY SameReserved DEF IInv, Writers, FailReturns, Leaves
<1>2. TypeOK'
  BY <1>1, ReservedCount, ConnectionAssumption
  DEF IInv, ConnectionSound, TypeOK, Writers, SendsNeverBlock, Reserved, FailReturns, Leaves,
      Goes, writeVars
<1>3. SendsNeverBlock'
  BY <1>1, ReservedCount
  DEF IInv, ConnectionSound, TypeOK, Writers, SendsNeverBlock, Reserved, Served, FailReturns,
      Leaves, Goes, writeVars
<1>4. NobodyIsForgotten' /\ SuccessIsReal'
  BY ConnectionAssumption
  DEF IInv, ConnectionSound, TypeOK, Writers, NobodyIsForgotten, SuccessIsReal, Reported, Served,
      FailReturns, Leaves, Goes, writeVars
<1>5. Reported' /\ Served'
  BY ConnectionAssumption
  DEF IInv, ConnectionSound, TypeOK, Writers, NobodyIsForgotten, Reported, Served, FailReturns,
      Leaves, Goes, writeVars
<1> QED
  BY <1>2, <1>3, <1>4, <1>5 DEF IInv, ConnectionSound

\* Reserve preserves it: one slot, one caller.
LEMMA ReserveIInv ==
  ASSUME IInv, NEW w \in Writers, Reserve(w)
  PROVE  IInv'
<1>1. Cardinality(Reserved') = Cardinality(Reserved) + 1
  BY OneMoreReserved DEF IInv, Writers, Reserve
<1>2. TypeOK'
  BY <1>1, ReservedCount, ConnectionAssumption
  DEF IInv, ConnectionSound, TypeOK, Writers, SendsNeverBlock, Reserved, Reserve, Goes, Stays
<1>3. SendsNeverBlock'
  BY <1>1, ReservedCount
  DEF IInv, ConnectionSound, TypeOK, Writers, SendsNeverBlock, Reserved, Served, Reserve, Goes,
      Stays
<1>4. NobodyIsForgotten' /\ SuccessIsReal'
  BY ConnectionAssumption
  DEF IInv, ConnectionSound, TypeOK, Writers, NobodyIsForgotten, SuccessIsReal, Reported, Served,
      Reserve, Goes, Stays
<1>5. Reported' /\ Served'
  BY ConnectionAssumption
  DEF IInv, ConnectionSound, TypeOK, Writers, NobodyIsForgotten, Reported, Served, Reserve, Goes,
      Stays
<1> QED
  BY <1>2, <1>3, <1>4, <1>5 DEF IInv, ConnectionSound

\* TryNotify preserves it.
LEMMA TryNotifyIInv ==
  ASSUME IInv, NEW n \in Notes, TryNotify(n)
  PROVE  IInv'
<1>1. \/ /\ Cardinality(Reserved') = Cardinality(Reserved) + 1
         /\ slots' = slots + 1 /\ slots < QueueLimit
      \/ Reserved' = Reserved /\ slots' = slots
  BY OneMoreReserved, SameReserved DEF IInv, Writers, TryNotify
<1>2. TypeOK'
  BY <1>1, ReservedCount, ConnectionAssumption
  DEF IInv, ConnectionSound, TypeOK, Writers, SendsNeverBlock, Reserved, TryNotify, Goes, Stays
<1>3. SendsNeverBlock'
  <2>1. slots = Len(queue) + Cardinality(Reserved) /\ Len(queue) \in Nat
    BY DEF IInv, ConnectionSound, TypeOK, SendsNeverBlock, Reserved
  <2>2. slots' = Len(queue') + Cardinality(Reserved')
    BY <1>1, <2>1, ReservedCount DEF TryNotify
  <2>3. pending' = pending /\ answer' = answer
    BY DEF TryNotify, Stays
  <2> QED
    BY <2>2, <2>3 DEF IInv, ConnectionSound, SendsNeverBlock, Reserved
<1>4. NobodyIsForgotten' /\ SuccessIsReal'
  BY ConnectionAssumption
  DEF IInv, ConnectionSound, TypeOK, Writers, NobodyIsForgotten, SuccessIsReal, Reported, Served,
      TryNotify, Goes, Stays
<1>5. Reported' /\ Served'
  BY ConnectionAssumption
  DEF IInv, ConnectionSound, TypeOK, Writers, NobodyIsForgotten, Reported, Served, TryNotify,
      Goes, Stays
<1> QED
  BY <1>2, <1>3, <1>4, <1>5 DEF IInv, ConnectionSound

\* Enqueue preserves it: the slot of the caller becomes that of its frame, or is
\* given back.
LEMMA EnqueueIInv ==
  ASSUME IInv, NEW w \in Writers, Enqueue(w)
  PROVE  IInv'
<1>1. Cardinality(Reserved') = Cardinality(Reserved) - 1 /\ Cardinality(Reserved) > 0
  BY OneLessReserved DEF IInv, Writers, Enqueue
<1>2. TypeOK'
  <2>1. pc' \in [Writers -> {"idle", "handling", "reserving", "reserved", "writing", "awaiting",
                           "failing", "returned", "failed"}]
    BY DEF IInv, TypeOK, Enqueue, Goes
  <2>2. queue \in Seq(Writers) /\ Len(queue) \in Nat /\ slots = Len(queue) + Cardinality(Reserved)
        /\ slots \in 0..QueueLimit
    BY DEF IInv, ConnectionSound, TypeOK, SendsNeverBlock, Reserved
  <2>3. slots' \in 0..QueueLimit
    BY <1>1, <2>2, ReservedCount, ConnectionAssumption DEF Enqueue
  <2>4. queue' \in Seq(Writers) /\ Len(queue') <= QueueLimit
    <3>1. CASE Sealed
      BY <3>1 DEF Enqueue, IInv, TypeOK
    <3>2. CASE ~Sealed
      <4>1. queue' = Append(queue, w)
        BY <3>2 DEF Enqueue
      <4>2. queue' \in Seq(Writers) /\ Len(queue') = Len(queue) + 1
        BY <4>1, <2>2
      <4> QED
        BY <4>2, <1>1, <2>2, ReservedCount, ConnectionAssumption
    <3> QED
      BY <3>1, <3>2
  <2> QED
    BY <2>1, <2>3, <2>4 DEF Enqueue, Stays, IInv, TypeOK
<1>3. SendsNeverBlock'
  BY <1>1, ReservedCount
  DEF IInv, ConnectionSound, TypeOK, Writers, SendsNeverBlock, Reserved, Served, Enqueue, Goes,
      Stays, Sealed
<1>4. NobodyIsForgotten' /\ SuccessIsReal'
  BY ConnectionAssumption
  DEF IInv, ConnectionSound, TypeOK, Writers, NobodyIsForgotten, SuccessIsReal, Reported, Served,
      Enqueue, Goes, Stays, Sealed
<1>5. Reported' /\ Served'
  BY ConnectionAssumption
  DEF IInv, ConnectionSound, TypeOK, Writers, NobodyIsForgotten, Reported, Served, Enqueue, Goes,
      Stays, Sealed
<1> QED
  BY <1>2, <1>3, <1>4, <1>5 DEF IInv, ConnectionSound

\* Cancel preserves it.
LEMMA CancelIInv ==
  ASSUME IInv, NEW r \in Requests, Cancel(r)
  PROVE  IInv'
<1>1. Reserved' = Reserved
  BY DEF Reserved, Cancel, writeVars
<1>2. TypeOK'
  BY <1>1, ReservedCount, ConnectionAssumption
  DEF IInv, ConnectionSound, TypeOK, Writers, SendsNeverBlock, Reserved, Cancel, writeVars
<1>3. SendsNeverBlock'
  BY <1>1, ReservedCount
  DEF IInv, ConnectionSound, TypeOK, Writers, SendsNeverBlock, Reserved, Served, Cancel, writeVars
<1>4. NobodyIsForgotten' /\ SuccessIsReal'
  BY ConnectionAssumption
  DEF IInv, ConnectionSound, TypeOK, Writers, NobodyIsForgotten, SuccessIsReal, Reported, Served,
      Cancel, writeVars
<1>5. Reported' /\ Served'
  BY ConnectionAssumption
  DEF IInv, ConnectionSound, TypeOK, Writers, NobodyIsForgotten, Reported, Served, Cancel,
      writeVars
<1> QED
  BY <1>2, <1>3, <1>4, <1>5 DEF IInv, ConnectionSound

\* Resolve preserves it: a pending request finds its channel empty.
LEMMA ResolveIInv ==
  ASSUME IInv, NEW r \in Requests, Resolve(r)
  PROVE  IInv'
<1>1. Reserved' = Reserved
  BY DEF Reserved, Resolve, writeVars
<1>2. TypeOK'
  BY <1>1, ReservedCount, ConnectionAssumption
  DEF IInv, ConnectionSound, TypeOK, Writers, SendsNeverBlock, Reserved, Resolve, writeVars
<1>3. SendsNeverBlock'
  BY <1>1, ReservedCount
  DEF IInv, ConnectionSound, TypeOK, Writers, SendsNeverBlock, Reserved, Served, Resolve,
      writeVars
<1>4. NobodyIsForgotten' /\ SuccessIsReal'
  BY ConnectionAssumption
  DEF IInv, ConnectionSound, TypeOK, Writers, NobodyIsForgotten, SuccessIsReal, Reported, Served,
      Resolve, writeVars
<1>5. Reported' /\ Served'
  BY ConnectionAssumption
  DEF IInv, ConnectionSound, TypeOK, Writers, NobodyIsForgotten, Reported, Served, Resolve,
      writeVars
<1> QED
  BY <1>2, <1>3, <1>4, <1>5 DEF IInv, ConnectionSound

\* Take preserves it.
LEMMA TakeIInv ==
  ASSUME IInv, Take
  PROVE  IInv'
<1>1. Reserved' = Reserved
  BY DEF Reserved, Take, callVars
<1>2. TypeOK'
  BY <1>1, ReservedCount, ConnectionAssumption
  DEF IInv, ConnectionSound, TypeOK, Writers, SendsNeverBlock, Reserved, Take, callVars
<1>3. SendsNeverBlock'
  BY <1>1, ReservedCount
  DEF IInv, ConnectionSound, TypeOK, Writers, SendsNeverBlock, Reserved, Served, Take, callVars
<1>4. NobodyIsForgotten' /\ SuccessIsReal'
  BY ConnectionAssumption
  DEF IInv, ConnectionSound, TypeOK, Writers, NobodyIsForgotten, SuccessIsReal, Reported, Served,
      Take, callVars
<1>5. Reported' /\ Served'
  BY ConnectionAssumption
  DEF IInv, ConnectionSound, TypeOK, Writers, NobodyIsForgotten, Reported, Served, Take, callVars
<1> QED
  BY <1>2, <1>3, <1>4, <1>5 DEF IInv, ConnectionSound

\* Begin preserves it.
LEMMA BeginIInv ==
  ASSUME IInv, Begin
  PROVE  IInv'
<1>1. Reserved' = Reserved
  BY DEF Reserved, Begin, Complete, callVars
<1>2. TypeOK'
  BY <1>1, ReservedCount, ConnectionAssumption
  DEF IInv, ConnectionSound, TypeOK, Writers, SendsNeverBlock, Reserved, Begin, Complete, callVars
<1>3. SendsNeverBlock'
  BY <1>1, ReservedCount
  DEF IInv, ConnectionSound, TypeOK, Writers, SendsNeverBlock, Reserved, Served, Begin, Complete,
      callVars
<1>4. NobodyIsForgotten' /\ SuccessIsReal'
  BY ConnectionAssumption
  DEF IInv, ConnectionSound, TypeOK, Writers, NobodyIsForgotten, SuccessIsReal, Reported, Served,
      Begin, Complete, callVars
<1>5. Reported' /\ Served'
  BY ConnectionAssumption
  DEF IInv, ConnectionSound, TypeOK, Writers, NobodyIsForgotten, Reported, Served, Begin,
      Complete, callVars
<1> QED
  BY <1>2, <1>3, <1>4, <1>5 DEF IInv, ConnectionSound

\* WriteSucceeds preserves it.
LEMMA WriteSucceedsIInv ==
  ASSUME IInv, WriteSucceeds
  PROVE  IInv'
<1>1. Reserved' = Reserved
  BY DEF Reserved, WriteSucceeds, Complete, callVars
<1>2. TypeOK'
  BY <1>1, ReservedCount, ConnectionAssumption
  DEF IInv, ConnectionSound, TypeOK, Writers, SendsNeverBlock, Reserved, Reported, WriteSucceeds,
      Complete, callVars
<1>3. SendsNeverBlock'
  BY <1>1, ReservedCount
  DEF IInv, ConnectionSound, TypeOK, Writers, SendsNeverBlock, Reserved, Served, WriteSucceeds,
      Complete, callVars
<1>4. NobodyIsForgotten' /\ SuccessIsReal'
  BY ConnectionAssumption
  DEF IInv, ConnectionSound, TypeOK, Writers, NobodyIsForgotten, SuccessIsReal, Reported, Served,
      WriteSucceeds, Complete, callVars
<1>5. Reported' /\ Served'
  BY ConnectionAssumption
  DEF IInv, ConnectionSound, TypeOK, Writers, NobodyIsForgotten, Reported, Served, WriteSucceeds,
      Complete, callVars
<1> QED
  BY <1>2, <1>3, <1>4, <1>5 DEF IInv, ConnectionSound

\* WriteFails preserves it.
LEMMA WriteFailsIInv ==
  ASSUME IInv, WriteFails
  PROVE  IInv'
<1>1. Reserved' = Reserved
  BY DEF Reserved, WriteFails, Complete, callVars
<1>2. TypeOK'
  BY <1>1, ReservedCount, ConnectionAssumption
  DEF IInv, ConnectionSound, TypeOK, Writers, SendsNeverBlock, Reserved, WriteFails, Complete,
      callVars
<1>3. SendsNeverBlock'
  BY <1>1, ReservedCount
  DEF IInv, ConnectionSound, TypeOK, Writers, SendsNeverBlock, Reserved, Served, WriteFails,
      Complete, callVars
<1>4. NobodyIsForgotten' /\ SuccessIsReal'
  BY ConnectionAssumption
  DEF IInv, ConnectionSound, TypeOK, Writers, NobodyIsForgotten, SuccessIsReal, Reported, Served,
      WriteFails, Complete, callVars
<1>5. Reported' /\ Served'
  BY ConnectionAssumption
  DEF IInv, ConnectionSound, TypeOK, Writers, NobodyIsForgotten, Reported, Served, WriteFails,
      Complete, callVars
<1> QED
  BY <1>2, <1>3, <1>4, <1>5 DEF IInv, ConnectionSound

\* WriterLeaves preserves it.
LEMMA WriterLeavesIInv ==
  ASSUME IInv, WriterLeaves
  PROVE  IInv'
<1>1. Reserved' = Reserved
  BY DEF Reserved, WriterLeaves, callVars
<1>2. TypeOK'
  BY <1>1, ReservedCount, ConnectionAssumption
  DEF IInv, ConnectionSound, TypeOK, Writers, SendsNeverBlock, Reserved, WriterLeaves, callVars
<1>3. SendsNeverBlock'
  BY <1>1, ReservedCount
  DEF IInv, ConnectionSound, TypeOK, Writers, SendsNeverBlock, Reserved, Served, WriterLeaves,
      callVars
<1>4. NobodyIsForgotten' /\ SuccessIsReal'
  BY ConnectionAssumption
  DEF IInv, ConnectionSound, TypeOK, Writers, NobodyIsForgotten, SuccessIsReal, Reported, Served,
      WriterLeaves, callVars
<1>5. Reported' /\ Served'
  BY ConnectionAssumption
  DEF IInv, ConnectionSound, TypeOK, Writers, NobodyIsForgotten, Reported, Served, WriterLeaves,
      callVars
<1> QED
  BY <1>2, <1>3, <1>4, <1>5 DEF IInv, ConnectionSound

\* Seal preserves it, whoever seals.
LEMMA SealIInv ==
  ASSUME IInv, Seal
  PROVE  IInv'
<1>1. Reserved' = Reserved
  BY DEF Reserved, Seal, callVars, writeVars
<1>2. TypeOK'
  BY <1>1, ReservedCount, ConnectionAssumption
  DEF IInv, ConnectionSound, TypeOK, Writers, SendsNeverBlock, Reserved, Seal, callVars, writeVars
<1>3. SendsNeverBlock'
  BY <1>1, ReservedCount
  DEF IInv, ConnectionSound, TypeOK, Writers, SendsNeverBlock, Reserved, Served, Seal, callVars,
      writeVars
<1>4. NobodyIsForgotten' /\ SuccessIsReal'
  BY ConnectionAssumption
  DEF IInv, ConnectionSound, TypeOK, Writers, NobodyIsForgotten, SuccessIsReal, Reported, Served,
      Seal, callVars, writeVars
<1>5. Reported' /\ Served'
  BY ConnectionAssumption
  DEF IInv, ConnectionSound, TypeOK, Writers, NobodyIsForgotten, Reported, Served, Seal, callVars,
      writeVars
<1> QED
  BY <1>2, <1>3, <1>4, <1>5 DEF IInv, ConnectionSound

\* ReaderEnds preserves it.
LEMMA ReaderEndsIInv ==
  ASSUME IInv, ReaderEnds
  PROVE  IInv'
<1>1. Reserved' = Reserved
  BY DEF Reserved, ReaderEnds, callVars, writeVars
<1>2. TypeOK'
  BY <1>1, ReservedCount, ConnectionAssumption
  DEF IInv, ConnectionSound, TypeOK, Writers, SendsNeverBlock, Reserved, ReaderEnds, callVars,
      writeVars
<1>3. SendsNeverBlock'
  BY <1>1, ReservedCount
  DEF IInv, ConnectionSound, TypeOK, Writers, SendsNeverBlock, Reserved, Served, ReaderEnds,
      callVars, writeVars
<1>4. NobodyIsForgotten' /\ SuccessIsReal'
  BY ConnectionAssumption
  DEF IInv, ConnectionSound, TypeOK, Writers, NobodyIsForgotten, SuccessIsReal, Reported, Served,
      ReaderEnds, callVars, writeVars
<1>5. Reported' /\ Served'
  BY ConnectionAssumption
  DEF IInv, ConnectionSound, TypeOK, Writers, NobodyIsForgotten, Reported, Served, ReaderEnds,
      callVars, writeVars
<1> QED
  BY <1>2, <1>3, <1>4, <1>5 DEF IInv, ConnectionSound

\* CloseChannel preserves it.
LEMMA CloseChannelIInv ==
  ASSUME IInv, CloseChannel
  PROVE  IInv'
<1>1. Reserved' = Reserved
  BY DEF Reserved, CloseChannel, callVars, writeVars
<1>2. TypeOK'
  BY <1>1, ReservedCount, ConnectionAssumption
  DEF IInv, ConnectionSound, TypeOK, Writers, SendsNeverBlock, Reserved, CloseChannel, callVars,
      writeVars
<1>3. SendsNeverBlock'
  BY <1>1, ReservedCount
  DEF IInv, ConnectionSound, TypeOK, Writers, SendsNeverBlock, Reserved, Served, CloseChannel,
      callVars, writeVars
<1>4. NobodyIsForgotten' /\ SuccessIsReal'
  BY ConnectionAssumption
  DEF IInv, ConnectionSound, TypeOK, Writers, NobodyIsForgotten, SuccessIsReal, Reported, Served,
      CloseChannel, callVars, writeVars
<1>5. Reported' /\ Served'
  BY ConnectionAssumption
  DEF IInv, ConnectionSound, TypeOK, Writers, NobodyIsForgotten, Reported, Served, CloseChannel,
      callVars, writeVars
<1> QED
  BY <1>2, <1>3, <1>4, <1>5 DEF IInv, ConnectionSound

\* Sweep preserves it: every registered request has an empty channel.
LEMMA SweepIInv ==
  ASSUME IInv, Sweep
  PROVE  IInv'
<1>1. Reserved' = Reserved
  BY DEF Reserved, Sweep, writeVars
<1>2. TypeOK'
  BY <1>1, ReservedCount, ConnectionAssumption
  DEF IInv, ConnectionSound, TypeOK, Writers, SendsNeverBlock, Reserved, Sweep, writeVars
<1>3. SendsNeverBlock'
  BY <1>1, ReservedCount
  DEF IInv, ConnectionSound, TypeOK, Writers, SendsNeverBlock, Reserved, Served, Sweep, writeVars
<1>4. NobodyIsForgotten' /\ SuccessIsReal'
  BY ConnectionAssumption
  DEF IInv, ConnectionSound, TypeOK, Writers, NobodyIsForgotten, SuccessIsReal, Reported, Served,
      Sweep, writeVars
<1>5. Reported' /\ Served'
  BY ConnectionAssumption
  DEF IInv, ConnectionSound, TypeOK, Writers, NobodyIsForgotten, Reported, Served, Sweep,
      writeVars
<1> QED
  BY <1>2, <1>3, <1>4, <1>5 DEF IInv, ConnectionSound

\* A stuttering step preserves it.
LEMMA StutteringIInv ==
  ASSUME IInv, UNCHANGED vars
  PROVE  IInv'
<1>1. Reserved' = Reserved
  BY DEF Reserved, vars, callVars, writeVars
<1>2. TypeOK'
  BY <1>1, ReservedCount, ConnectionAssumption
  DEF IInv, ConnectionSound, TypeOK, Writers, SendsNeverBlock, Reserved, vars, callVars, writeVars
<1>3. SendsNeverBlock'
  BY <1>1, ReservedCount
  DEF IInv, ConnectionSound, TypeOK, Writers, SendsNeverBlock, Reserved, Served, vars, callVars,
      writeVars
<1>4. NobodyIsForgotten' /\ SuccessIsReal'
  BY ConnectionAssumption
  DEF IInv, ConnectionSound, TypeOK, Writers, NobodyIsForgotten, SuccessIsReal, Reported, Served,
      vars, callVars, writeVars
<1>5. Reported' /\ Served'
  BY ConnectionAssumption
  DEF IInv, ConnectionSound, TypeOK, Writers, NobodyIsForgotten, Reported, Served, vars, callVars,
      writeVars
<1> QED
  BY <1>2, <1>3, <1>4, <1>5 DEF IInv, ConnectionSound

-----------------------------------------------------------------------------
\* Every step preserves the inductive invariant.
LEMMA NextIInv == IInv /\ [Next]_vars => IInv'
<1> SUFFICES ASSUME IInv, [Next]_vars PROVE IInv'
  OBVIOUS
<1>1. ASSUME NEW r \in Requests, Register(r) \/ Cancel(r) \/ Resolve(r) PROVE IInv'
  BY <1>1, RegisterIInv, CancelIInv, ResolveIInv
<1>2. ASSUME NEW k \in Calls, Dispatch(k) PROVE IInv'
  BY <1>2, DispatchIInv
<1>3. ASSUME NEW n \in Notes, TryNotify(n) PROVE IInv'
  BY <1>3, TryNotifyIInv
<1>4. ASSUME NEW w \in Writers, Caller(w) PROVE IInv'
  BY <1>4, ReserveIInv, ReserveFailsIInv, EnqueueIInv, WriteReturnsIInv, FailReturnsIInv,
     SealIInv, RequestReturnsIInv, HandlerReturnsIInv DEF Caller, CallerFails
<1>5. ASSUME Writer \/ WriteSucceeds \/ WriteFails \/ Stalls PROVE IInv'
  BY <1>5, TakeIInv, BeginIInv, WriterLeavesIInv, WriteSucceedsIInv, WriteFailsIInv, SealIInv
  DEF Writer, WriterFails, Stalls
<1>6. ASSUME Overflows \/ ReaderEnds \/ Closure PROVE IInv'
  BY <1>6, SealIInv, ReaderEndsIInv, CloseChannelIInv, SweepIInv
  DEF Overflows, Closure, ServeEnds
<1>7. CASE UNCHANGED vars
  BY <1>7, StutteringIInv
<1> QED
  BY <1>1, <1>2, <1>3, <1>4, <1>5, <1>6, <1>7 DEF Next

\* The inductive invariant holds in every behaviour.
LEMMA InvariantIInv == Spec => []IInv
  BY InitIInv, NextIInv, PTL DEF Spec

\* Every variable keeps its type, and the queue, the slots given out and the
\* frames waiting never pass writeQueueLimit.
THEOREM ConnectionTypeCorrect == Spec => []TypeOK
<1>1. IInv => TypeOK
  BY DEF IInv
<1> QED
  BY <1>1, InvariantIInv, PTL

\* No send under a mutex of the connection can block, nobody waits without
\* somebody to wake it, and success is never reported for a frame that was not
\* written, for any number of callers and however the connection ends.
THEOREM ConnectionIsSound == Spec => []ConnectionSound
<1>1. IInv => ConnectionSound
  BY DEF IInv
<1> QED
  BY <1>1, InvariantIInv, PTL
=============================================================================
