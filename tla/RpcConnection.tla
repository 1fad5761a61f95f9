---------------------------- MODULE RpcConnection ----------------------------
(***************************************************************************)
(* internal/extension/rpcwire: one side of the JSON-RPC connection to an   *)
(* extension's process.  Callers of Request, handlers with an answer and   *)
(* TryNotify put frames in a bounded queue; one goroutine writes them; the *)
(* read loop hands out what the peer sends; a watchdog fails a write that  *)
(* makes no progress.  Whoever meets an error shuts the connection down.   *)
(*                                                                         *)
(* The peer and the pipe are the environment: a write may take for ever,   *)
(* the peer answers what reached it in any order, or never, and may go     *)
(* away at any time.  Not modelled: frame contents and size limits,        *)
(* Notify (the write of a handler without one), inbound notifications but  *)
(* for the overflow of their queue, and which error is reported.           *)
(***************************************************************************)
EXTENDS Naturals, Sequences, FiniteSets

CONSTANTS
  Requests,    \* calls of Request
  Calls,       \* requests of the peer
  Notes,       \* calls of TryNotify
  QueueLimit,  \* writeQueueLimit
  NoteLimit,   \* bestEffortNotifyQueueLimit
  MaxHandlers, \* MaxConcurrentHandlers
  None

ASSUME ConnectionAssumption ==
  /\ QueueLimit \in Nat \ {0} /\ NoteLimit \in Nat \ {0} /\ MaxHandlers \in Nat \ {0}
  /\ IsFiniteSet(Requests) /\ IsFiniteSet(Calls) /\ IsFiniteSet(Notes)
  /\ Requests \cap Calls = {} /\ Notes \cap (Requests \cup Calls) = {}

Writers == Requests \cup Calls \cup Notes

VARIABLES
  pc,         \* writer -> "idle", "handling" (calls), "reserving", "reserved",
              \* "writing", "awaiting" (requests), "failing", "returned" or "failed"
  cancelled,  \* requests whose context has ended
  pending,    \* Conn.pending
  answer,     \* request -> what its channel holds: "none", "result" or "closed"
  slots,      \* len(writeSlots)
  queue,      \* writeQ
  writing,    \* the job of writerLoop
  wpc,        \* where writerLoop is: "ready", "taken", "writing", "done"
  res,        \* writer -> the result of its job: "none", "ok", "error", "cancelled"
  sent,       \* what has been written in full
  reader,     \* the read loop: "reading", "ended", or the call it refuses
  closing     \* shutdown: "open", "sealed" (no more frames), "closed", "swept"

callVars == <<pc, cancelled, pending, answer>>
writeVars == <<slots, queue, writing, wpc, res, sent>>
vars == <<callVars, writeVars, reader, closing>>

Init ==
  /\ pc = [w \in Writers |-> "idle"] /\ cancelled = {} /\ pending = {}
  /\ answer = [r \in Requests |-> "none"]
  /\ slots = 0 /\ queue = <<>> /\ writing = None /\ wpc = "ready"
  /\ res = [w \in Writers |-> "none"] /\ sent = {}
  /\ reader = "reading" /\ closing = "open"

Closed == closing \in {"closed", "swept"}          \* close(c.closed)
Sealed == closing # "open"                         \* writeClosed

Goes(w, s) == pc' = [pc EXCEPT ![w] = s]
Stays == UNCHANGED <<cancelled, answer, reader, closing>>

\* A request takes itself out of pending, the read loop goes on reading.
Leaves(w, s) ==
  /\ Goes(w, s) /\ pending' = pending \ {w}
  /\ reader' = IF reader = w THEN "reading" ELSE reader
  /\ UNCHANGED <<cancelled, answer, closing>>

\* Request: the id is registered unless the connection is closed.
Register(r) ==
  /\ pc[r] = "idle"
  /\ IF Closed THEN Goes(r, "failed") /\ UNCHANGED pending
     ELSE Goes(r, "reserving") /\ pending' = pending \cup {r}
  /\ Stays /\ UNCHANGED writeVars

\* dispatch of a request: a handler takes it, or the read loop itself refuses.
\* The connection may have closed since dispatch looked.
Dispatch(k) ==
  /\ pc[k] = "idle" /\ reader = "reading"
  /\ IF Cardinality({h \in Calls : pc[h] \notin {"idle", "returned", "failed"}}) < MaxHandlers
     THEN Goes(k, "handling") /\ UNCHANGED reader
     ELSE Goes(k, "reserving") /\ reader' = k
  /\ UNCHANGED <<cancelled, pending, answer, writeVars, closing>>

HandlerReturns(k) ==
  /\ pc[k] = "handling" /\ Goes(k, "reserving") /\ Stays
  /\ UNCHANGED <<pending, writeVars>>

HoldsToken(n) == pc[n] = "reserved" \/ (pc[n] = "returned" /\ res[n] = "none")

\* TryNotify: a token of its own, then a slot; it waits for neither.
TryNotify(n) ==
  /\ pc[n] = "idle"
  /\ IF Cardinality({m \in Notes : HoldsToken(m)}) < NoteLimit /\ slots < QueueLimit
     THEN Goes(n, "reserved") /\ slots' = slots + 1
     ELSE Goes(n, "failed") /\ UNCHANGED slots
  /\ Stays /\ UNCHANGED <<pending, queue, writing, wpc, res, sent>>

\* Wrong on purpose: does not look at the number of slots.
ReserveBeyond(w) ==
  /\ pc[w] = "reserving" /\ slots' = slots + 1
  /\ Goes(w, "reserved") /\ Stays
  /\ UNCHANGED <<pending, queue, writing, wpc, res, sent>>

\* enqueueWrite reserves a slot, ...
Reserve(w) ==
  /\ pc[w] = "reserving" /\ slots < QueueLimit /\ slots' = slots + 1
  /\ Goes(w, "reserved") /\ Stays
  /\ UNCHANGED <<pending, queue, writing, wpc, res, sent>>

\* ... unless the context ends or the connection closes first ...
ReserveFails(w) ==
  /\ pc[w] = "reserving"
  /\ \/ w \in cancelled /\ Leaves(w, "failed")
     \/ Closed /\ Goes(w, "failing") /\ Stays /\ UNCHANGED pending
  /\ UNCHANGED writeVars

\* ... and, under writeGate, gives it back when shutdown came first, or queues
\* the frame.  TryNotify returns in both cases, without failing the connection.
Enqueue(w) ==
  /\ pc[w] = "reserved"
  /\ IF Sealed
     THEN slots' = slots - 1 /\ UNCHANGED queue
          /\ Goes(w, IF w \in Notes THEN "failed" ELSE "failing")
     ELSE queue' = Append(queue, w) /\ UNCHANGED slots
          /\ Goes(w, IF w \in Notes THEN "returned" ELSE "writing")
  /\ Stays /\ UNCHANGED <<pending, writing, wpc, res, sent>>

\* The result of a job: a request goes on to wait for its answer.
Written(w) ==
  CASE res[w] = "ok" -> IF w \in Requests THEN Goes(w, "awaiting") /\ Stays /\ UNCHANGED pending
                        ELSE Leaves(w, "returned")
    [] res[w] = "cancelled" -> Leaves(w, "failed")
    [] OTHER -> Goes(w, "failing") /\ Stays /\ UNCHANGED pending

\* Wrong on purpose: a frame dropped by a graceful end counts as written.
WriteReturnsNil(w) ==
  /\ pc[w] = "writing"
  /\ \/ res[w] # "none" /\ Written(w)
     \/ w \in cancelled /\ Leaves(w, "failed")
     \/ Closed /\ res[w] = "none" /\ Leaves(w, "returned")
  /\ UNCHANGED writeVars

\* write waits for the result, the end of the context or of the connection; a
\* result that is there is preferred to the latter.
WriteReturns(w) ==
  /\ pc[w] = "writing"
  /\ \/ res[w] # "none" /\ Written(w)
     \/ w \in cancelled /\ Leaves(w, "failed")
     \/ Closed /\ res[w] = "none" /\ Goes(w, "failing") /\ Stays /\ UNCHANGED pending
  /\ UNCHANGED writeVars

RequestReturns(r) ==
  /\ pc[r] = "awaiting"
  /\ \/ answer[r] # "none" /\ Leaves(r, IF answer[r] = "result" THEN "returned" ELSE "failed")
     \/ r \in cancelled /\ Leaves(r, "failed")
  /\ UNCHANGED writeVars

Cancel(r) ==
  /\ pc[r] \notin {"idle", "returned", "failed"} /\ r \notin cancelled
  /\ cancelled' = cancelled \cup {r}
  /\ UNCHANGED <<pc, pending, answer, writeVars, reader, closing>>

\* resolve: an answer of the peer to a request it has read; one that comes
\* again finds nothing pending and is dropped.
Resolve(r) ==
  /\ reader = "reading" /\ r \in sent \cap pending
  /\ pending' = pending \ {r} /\ answer' = [answer EXCEPT ![r] = "result"]
  /\ UNCHANGED <<pc, cancelled, writeVars, reader, closing>>

\* writerLoop: the next job, whose slot is free again, ...
Take ==
  /\ wpc = "ready" /\ queue # <<>>
  /\ wpc' = "taken" /\ writing' = Head(queue) /\ queue' = Tail(queue) /\ slots' = slots - 1
  /\ UNCHANGED <<callVars, res, sent, reader, closing>>

Complete(s, p) == res' = [res EXCEPT ![writing] = s] /\ wpc' = p /\ writing' = None

\* ... is skipped after shutdown or when its caller has given up, ...
Begin ==
  /\ wpc = "taken"
  /\ IF Sealed THEN Complete("error", "ready")
     ELSE IF writing \in cancelled THEN Complete("cancelled", "ready")
     ELSE wpc' = "writing" /\ UNCHANGED <<writing, res>>
  /\ UNCHANGED <<callVars, slots, queue, sent, reader, closing>>

\* ... and written in full.
WriteSucceeds ==
  /\ wpc = "writing" /\ Complete("ok", "ready") /\ sent' = sent \cup {writing}
  /\ UNCHANGED <<callVars, slots, queue, reader, closing>>

\* ... or the transport fails, and the writer is gone.
WriteFails ==
  /\ wpc = "writing" /\ Complete("error", "done")
  /\ UNCHANGED <<callVars, slots, queue, sent, reader, closing>>

WriterLeaves ==
  /\ wpc = "ready" /\ queue = <<>> /\ Sealed /\ wpc' = "done"
  /\ UNCHANGED <<callVars, slots, queue, writing, res, sent, reader, closing>>

\* shutdown, for the first who calls it: no frame is queued from here on.
Seal ==
  /\ closing = "open" /\ closing' = "sealed"
  /\ UNCHANGED <<callVars, writeVars, reader>>

WriterFails == wpc = "done" /\ Seal               \* go c.fail(err)

\* Wrong on purpose: what the peer sends counts as progress.
StallsInSilence == wpc = "writing" /\ reader # "reading" /\ Seal

Stalls == wpc = "writing" /\ Seal                 \* stallWatchdog
Overflows == reader = "reading" /\ Seal           \* of the notification queue
CallerFails(w) == pc[w] = "failing" /\ Seal

\* Whoever failed the connection waits for the whole shutdown (closeOnce).
FailReturns(w) == pc[w] = "failing" /\ closing = "swept" /\ Leaves(w, "failed") /\ UNCHANGED writeVars

\* Serve after the end of its input: it waits for its handlers first.
ReaderEnds ==
  /\ reader = "reading" /\ reader' = "ended"
  /\ UNCHANGED <<callVars, writeVars, closing>>

ServeEnds ==
  /\ reader = "ended" /\ \A k \in Calls : pc[k] \in {"idle", "returned", "failed"}
  /\ Seal

\* The writer is done or 100 milliseconds have passed.
CloseChannel ==
  /\ closing = "sealed" /\ closing' = "closed"
  /\ UNCHANGED <<callVars, writeVars, reader>>

\* Everybody still registered is told.
Sweep ==
  /\ closing = "closed" /\ closing' = "swept"
  /\ answer' = [r \in Requests |-> IF r \in pending THEN "closed" ELSE answer[r]]
  /\ pending' = {}
  /\ UNCHANGED <<pc, cancelled, writeVars, reader>>

Caller(w) ==
  \/ Reserve(w) \/ ReserveFails(w) \/ Enqueue(w) \/ WriteReturns(w)
  \/ CallerFails(w) \/ FailReturns(w)
  \/ w \in Requests /\ RequestReturns(w)
  \/ w \in Calls /\ HandlerReturns(w)
Writer == Take \/ Begin \/ WriterLeaves \/ WriterFails
Closure == CloseChannel \/ Sweep \/ ServeEnds

Next ==
  \/ \E r \in Requests : Register(r) \/ Cancel(r) \/ Resolve(r)
  \/ \E k \in Calls : Dispatch(k)
  \/ \E n \in Notes : TryNotify(n)
  \/ \E w \in Writers : Caller(w)
  \/ Writer \/ WriteSucceeds \/ WriteFails \/ Stalls
  \/ Overflows \/ ReaderEnds \/ Closure

\* Goroutines run and handlers return, and the watchdog sees a write that stays;
\* no write has to end, the peer owes nothing, and no caller has to give up.
Fairness ==
  /\ \A w \in Writers : WF_vars(Caller(w))
  /\ WF_vars(Writer) /\ WF_vars(Stalls)
  /\ WF_vars(Closure)

Spec == Init /\ [][Next]_vars /\ Fairness

\* Every variable has its type, the queue within its limit.
TypeOK ==
  /\ pc \in [Writers -> {"idle", "handling", "reserving", "reserved", "writing", "awaiting",
                         "failing", "returned", "failed"}]
  /\ cancelled \subseteq Requests /\ pending \subseteq Requests
  /\ answer \in [Requests -> {"none", "result", "closed"}]
  /\ slots \in 0..QueueLimit /\ queue \in Seq(Writers) /\ Len(queue) <= QueueLimit
  /\ writing \in Writers \cup {None} /\ wpc \in {"ready", "taken", "writing", "done"}
  /\ res \in [Writers -> {"none", "ok", "error", "cancelled"}]
  /\ sent \subseteq Writers /\ reader \in Calls \cup {"reading", "ended"}
  /\ closing \in {"open", "sealed", "closed", "swept"}

\* No send under a mutex can block: the queue has room for every slot given out,
\* and the channel of a pending request is empty.
SendsNeverBlock ==
  /\ slots = Len(queue) + Cardinality({w \in Writers : pc[w] = "reserved"})
  /\ \A r \in pending : answer[r] = "none"

\* Whoever waits has somebody left to wake it: a request is registered or has its
\* answer, and once the closed connection was swept nobody is registered.
NobodyIsForgotten ==
  /\ \A r \in Requests : pc[r] = "awaiting" => r \in pending \/ answer[r] # "none"
  /\ closing = "swept" => pending = {}

\* Success is never reported for a frame that was not written, a graceful end
\* included.
SuccessIsReal == \A w \in Requests \cup Calls : pc[w] = "returned" => w \in sent

ConnectionSound == SendsNeverBlock /\ NobodyIsForgotten /\ SuccessIsReal

\* Every write ends, in particular the one by which the read loop refuses a call,
\* and once the peer is gone or the connection sealed every request returns.
Stuck(w) ==
  \/ pc[w] \in {"reserving", "reserved", "writing", "failing"}
  \/ pc[w] = "awaiting" /\ (Sealed \/ reader = "ended")

EveryWaitEnds == \A w \in Requests \cup Calls : Stuck(w) ~> ~Stuck(w)
=============================================================================
