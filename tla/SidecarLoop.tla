------------------------------ MODULE SidecarLoop ------------------------------
(***************************************************************************)
(* One runtime process of src/magic_hermes/bridge/runtime.mjs from its     *)
(* first line of input to its exit: the reader of standard input, the      *)
(* promise chain that runs one request after the other, the table of       *)
(* pending host callbacks and, in the doctor's role, the bind of the       *)
(* shared store that runs beside them (runDeferredBind, the controller,    *)
(* acquireBindLockAsync and doctorDispatch).                               *)
(*                                                                         *)
(* Node runs one callback at a time, so what lies between two awaits is    *)
(* one step.  The look at the lock, the open and the release have no await *)
(* between them.  What the lock directory and the store answer is the      *)
(* environment's choice: module BindLock has the lock between processes.   *)
(* Timers are unref'd: they keep no process alive.                         *)
(***************************************************************************)
EXTENDS Integers, Sequences, FiniteSets

CONSTANTS
  MaxRequests,   \* bound: request lines read
  MaxCallbacks,  \* bound: host callbacks sent
  MaxAttempts,   \* bindAttempts()
  None           \* no request, no callback

ASSUME BoundsAssumption ==
  MaxRequests \in Nat \ {0} /\ MaxCallbacks \in Nat /\ MaxAttempts \in Nat \ {0}

VARIABLES
  deferred,   \* DEFER_BIND: the doctor's role
  input,      \* standard input is "open" or "closed"
  stage,      \* the end of the module: "serving", "ended", "exited"
  kind,       \* the requests that were read, in order: their method
  pc,         \* where the handler of each request is
  order,      \* the requests in the order of their answer lines
  verdict,    \* what each doctor call answered
  awaits,     \* the callback each handler awaits
  pending,    \* keys of pendingHostCallbacks
  nextCb,     \* nextHostCallbackId
  replied,    \* the callbacks whose reply is on its way or was read
  timer,      \* requests whose bind_wait_s has passed
  bind,       \* controller.state, "contended" for a failure that is contention
  settled,    \* controller.settled
  loop,       \* where runDeferredBind is; "spin": it goes round without an await
  attempt,    \* its attempt number
  cap,        \* _capDeadlineMs: "none", "set" or "passed"
  late,       \* 90 s have passed since this acquisition began
  cancelled,  \* controller._cancelled
  store       \* db: "none", "open", or "closed" by the close method

requestVars  == <<kind, pc, order, verdict, awaits, timer>>
callbackVars == <<pending, nextCb, replied>>
bindVars     == <<bind, settled, loop, attempt, cap, late, store>>
vars == <<deferred, input, stage, requestVars, callbackVars, bindVars, cancelled>>

Requests  == 1..MaxRequests
Callbacks == 1..MaxCallbacks
\* A doctor call with bind_wait_s or without; "other" is every method that
\* needs the store.
Kinds     == {"hello", "doctor", "doctorWait", "close", "other"}
Verdicts  == {"scan", "degraded", "error"}
ASSUME NoneAssumption == None \notin Nat /\ None \notin Verdicts
Received  == 1..Len(kind)

Init ==
  /\ deferred \in BOOLEAN
  /\ input = "open" /\ stage = "serving"
  /\ kind = <<>>
  /\ pc = [r \in Requests |-> "idle"]
  /\ order = <<>>
  /\ verdict = [r \in Requests |-> None]
  /\ awaits = [r \in Requests |-> None]
  /\ pending = {} /\ nextCb = 1 /\ replied = {}
  /\ timer = {}
  /\ bind = IF deferred THEN "pending" ELSE "bound"
  /\ settled = FALSE
  /\ loop = IF deferred THEN "start" ELSE "done"
  /\ attempt = 1
  /\ cap = "none" /\ late = FALSE
  /\ cancelled = FALSE
  /\ store = IF deferred THEN "none" ELSE "open"

Goto(r, label) == pc' = [pc EXCEPT ![r] = label]

-----------------------------------------------------------------------------
(* The reader                                                              *)

\* lines.on("line"): a request joins the chain.  A line that is no JSON is
\* answered with id null there and then and changes nothing.
ReadRequest(k) ==
  /\ input = "open"
  /\ Len(kind) < MaxRequests
  /\ kind' = Append(kind, k)
  /\ Goto(Len(kind) + 1, "queued")
  /\ UNCHANGED <<deferred, input, stage, order, verdict, awaits, timer,
                 callbackVars, bindVars, cancelled>>

\* External: the host writes its reply.  It may never: a reply that is not
\* serializable kills the thread that should have sent it.
HostReplies(c) ==
  /\ input = "open"
  /\ c < nextCb /\ c \notin replied
  /\ replied' = replied \cup {c}
  /\ UNCHANGED <<deferred, input, stage, requestVars, pending, nextCb, bindVars,
                 cancelled>>

\* resolveHostCallback, past the chain: the promise of a known id is settled,
\* with a result or an error, and its handler goes on if it still awaits it.
\* An id that is not in the table (a second reply, a number that was never
\* sent) is ignored.
ReadReply(c) ==
  /\ input = "open"
  /\ c \in pending \cap replied
  /\ pending' = pending \ {c}
  /\ pc' = [r \in Requests |-> IF awaits[r] = c THEN "running" ELSE pc[r]]
  /\ awaits' = [r \in Requests |-> IF awaits[r] = c THEN None ELSE awaits[r]]
  /\ UNCHANGED <<deferred, input, stage, kind, order, verdict, timer, nextCb,
                 replied, bindVars, cancelled>>

\* lines.on("close"): the controller is cancelled, which settles it too.
\* What was written before is read first.
InputCloses ==
  /\ input = "open"
  /\ pending \cap replied = {}
  /\ input' = "closed"
  /\ cancelled' = deferred
  /\ settled' = (settled \/ deferred)
  /\ UNCHANGED <<deferred, stage, requestVars, callbackVars,
                 bind, loop, attempt, cap, late, store>>

-----------------------------------------------------------------------------
(* handleTopLevelRequest and the methods                                   *)

\* Mutant: the handler is called at once, not chained.
TurnAtOnce(r) == r \in Received

\* `requestChain.then`: the handlers before this one have answered.
Turn(r) == r \in Received /\ \A q \in 1..(r - 1) : pc[q] = "done"

\* The gate of the deferred role before the store is bound.
Gated(r) ==
  /\ deferred /\ store = "none"
  /\ kind[r] \notin {"hello", "doctor", "doctorWait", "close"}

Answer(r, v) ==
  /\ Goto(r, "done")
  /\ order' = Append(order, r)
  /\ verdict' = [verdict EXCEPT ![r] = v]

\* hello, a gated method, and close, which closes an open store.
AnswerAtOnce(r) ==
  /\ pc[r] = "queued" /\ Turn(r)
  /\ kind[r] \in {"hello", "close"} \/ Gated(r)
  /\ Answer(r, None)
  /\ store' = IF kind[r] = "close" /\ store = "open" THEN "closed" ELSE store
  /\ UNCHANGED <<deferred, input, stage, kind, awaits, timer, callbackVars,
                 bind, settled, loop, attempt, cap, late, cancelled>>

BeginOther(r) ==
  /\ pc[r] = "queued" /\ Turn(r)
  /\ kind[r] = "other" /\ ~Gated(r)
  /\ Goto(r, "running")
  /\ UNCHANGED <<deferred, input, stage, kind, order, verdict, awaits, timer,
                 callbackVars, bindVars, cancelled>>

\* hostCallback: the promise is in the table before the line is written.
CallBack(r) ==
  /\ pc[r] = "running" /\ kind[r] = "other"
  /\ nextCb <= MaxCallbacks
  /\ pending' = pending \cup {nextCb}
  /\ awaits' = [awaits EXCEPT ![r] = nextCb]
  /\ nextCb' = nextCb + 1
  /\ Goto(r, "awaiting")
  /\ UNCHANGED <<deferred, input, stage, kind, order, verdict, timer,
                 replied, bindVars, cancelled>>

\* The abort signal wins the race in session.prompt: the handler goes on and
\* the callback stays in the table.
Abandon(r) ==
  /\ pc[r] = "awaiting" /\ stage = "serving"
  /\ awaits' = [awaits EXCEPT ![r] = None]
  /\ Goto(r, "running")
  /\ UNCHANGED <<deferred, input, stage, kind, order, verdict, timer,
                 callbackVars, bindVars, cancelled>>

\* The method returns or throws; either is an answer with this id.
Finish(r) ==
  /\ pc[r] = "running" /\ kind[r] = "other"
  /\ Answer(r, None)
  /\ UNCHANGED <<deferred, input, stage, kind, awaits, timer, callbackVars,
                 bindVars, cancelled>>

IsDoctor(r) == kind[r] \in {"doctor", "doctorWait"}

\* controller.tightenDeadline: an earlier cap that is still to come stands.
Tightened(r) == IF kind[r] = "doctorWait" /\ cap = "none" THEN "set" ELSE cap

\* doctorDispatch up to its await.
DoctorWaits(r) ==
  /\ pc[r] = "queued" /\ Turn(r) /\ IsDoctor(r)
  /\ bind = "pending"
  /\ cap' = Tightened(r)
  /\ Goto(r, "bindwait")
  /\ UNCHANGED <<deferred, input, stage, kind, order, verdict, awaits, timer,
                 callbackVars, bind, settled, loop, attempt, late, store, cancelled>>

\* A scan that fails is an answer too: the verdict is about the bind.
Decision ==
  CASE bind = "bound" -> "scan"
    [] bind = "failed" -> "error"
    [] OTHER -> "degraded"

\* Promise.race of the controller and the caller's timer, or the former alone;
\* or no wait at all.  The scan has no await.
DoctorAnswers(r) ==
  /\ \/ pc[r] = "bindwait" /\ (settled \/ r \in timer)
     \/ pc[r] = "queued" /\ Turn(r) /\ IsDoctor(r) /\ bind # "pending"
  /\ Answer(r, Decision)
  /\ UNCHANGED <<deferred, input, stage, kind, awaits, timer, callbackVars,
                 bindVars, cancelled>>

-----------------------------------------------------------------------------
(* runDeferredBind: `start` and every time its timer fires                 *)

BindEnds(state) ==
  /\ bind' = state
  /\ settled' = TRUE
  /\ loop' = "done"
  /\ UNCHANGED <<attempt, late>>

BindFrame == UNCHANGED <<deferred, input, stage, requestVars, callbackVars, cap, cancelled>>

AtTurn == loop \in {"start", "poll", "cooldown", "spin"}

\* Mutant: the checkpoint looks at the cancellation alone.
UncappedCheckpoint == ~cancelled

\* controller._checkpoint lets the bind go on.
Checkpoint == ~cancelled /\ cap # "passed"

\* The number of the attempt that this turn is part of.
AttemptNow == IF loop = "cooldown" THEN attempt + 1 ELSE attempt

\* Cancelled: the bind stays pending, for no verdict depends on it.  Past the
\* cap: contention.
BindStops ==
  /\ AtTurn /\ ~Checkpoint
  /\ BindEnds(IF cancelled THEN "pending" ELSE "contended")
  /\ BindFrame /\ UNCHANGED store

\* mkdir got the lock (a stale one was removed first), the store opened, the
\* lock is released.
BindOpens ==
  /\ AtTurn /\ Checkpoint
  /\ store' = "open"
  /\ BindEnds("bound")
  /\ BindFrame

\* A schema fence, an error that is not transient, or a lock directory that
\* cannot be made.
BindFails ==
  /\ AtTurn /\ Checkpoint
  /\ BindEnds("failed")
  /\ BindFrame /\ UNCHANGED store

\* "database is locked" and the like: cool down with the lock released, or
\* give up with contention after the last attempt.
BindTransient ==
  /\ AtTurn /\ Checkpoint
  /\ \/ /\ AttemptNow < MaxAttempts
        /\ attempt' = AttemptNow
        /\ loop' = "cooldown"
        /\ late' = FALSE
        /\ UNCHANGED <<bind, settled>>
     \/ /\ AttemptNow = MaxAttempts
        /\ BindEnds("contended")
  /\ BindFrame /\ UNCHANGED store

\* A live holder has the lock: poll again in 250 ms.  With a cap set, the cap
\* is the deadline and Checkpoint looks at it; without one, 90 s.
BindPolls ==
  /\ AtTurn /\ Checkpoint
  /\ ~(late /\ cap = "none")
  /\ attempt' = AttemptNow
  /\ loop' = "poll"
  /\ UNCHANGED <<bind, settled, late>>
  /\ BindFrame /\ UNCHANGED store

\* A stale lock that cannot be removed: the loop continues at once, with no
\* await and past the 90 s; only its checkpoint, the open way, or a holder that
\* lives ends it.  Nothing else of the process runs meanwhile.
BindSpins ==
  /\ AtTurn /\ Checkpoint
  /\ attempt' = AttemptNow
  /\ loop' = "spin"
  /\ UNCHANGED <<bind, settled, late>>
  /\ BindFrame /\ UNCHANGED store

\* Mutant: a failed acquisition stores its failure and does not settle.
BindTimesOutUnsettled ==
  /\ AtTurn /\ Checkpoint
  /\ late /\ cap = "none"
  /\ bind' = "contended" /\ loop' = "done"
  /\ UNCHANGED <<settled, attempt, late>>
  /\ BindFrame /\ UNCHANGED store

BindTimesOut ==
  /\ AtTurn /\ Checkpoint
  /\ late /\ cap = "none"
  /\ BindEnds("contended")
  /\ BindFrame /\ UNCHANGED store

BindTurn ==
  BindStops \/ BindOpens \/ BindFails \/ BindTransient \/ BindPolls \/ BindSpins \/ BindTimesOut

-----------------------------------------------------------------------------
(* The clock                                                               *)

CapPasses ==
  /\ cap = "set" /\ stage # "exited"
  /\ cap' = "passed"
  /\ UNCHANGED <<deferred, input, stage, requestVars, callbackVars,
                 bind, settled, loop, attempt, late, store, cancelled>>

\* The earliest bind_wait_s of all is the cap, so no timer is before it.
TimerFires(r) ==
  /\ pc[r] = "bindwait" /\ kind[r] = "doctorWait"
  /\ cap = "passed"
  /\ timer' = timer \cup {r}
  /\ UNCHANGED <<deferred, input, stage, kind, pc, order, verdict, awaits,
                 callbackVars, bindVars, cancelled>>

DeadlinePasses ==
  /\ loop = "poll" /\ ~late
  /\ late' = TRUE
  /\ UNCHANGED <<deferred, input, stage, requestVars, callbackVars,
                 bind, settled, loop, attempt, cap, store, cancelled>>

-----------------------------------------------------------------------------
(* The end of the module                                                   *)

\* Mutant: the request chain is not awaited.
ChainIgnored == TRUE

\* `await requestChain`
ChainDrained == \A r \in Received : pc[r] = "done"

\* The chain is drained: what is left in the table is rejected and cleared.
Drained ==
  /\ stage = "serving" /\ input = "closed"
  /\ ChainDrained
  /\ stage' = "ended"
  /\ pending' = {}
  /\ UNCHANGED <<deferred, input, requestVars, nextCb, replied, bindVars, cancelled>>

Exit ==
  /\ stage = "ended"
  /\ stage' = "exited"
  /\ loop' = "done"
  /\ UNCHANGED <<deferred, input, requestVars, callbackVars,
                 bind, settled, attempt, cap, late, store, cancelled>>

\* A handler awaits a reply that can no longer come.  Nothing keeps the event
\* loop alive, and Node leaves with the top-level await unsettled (exit 13).
ExitUnsettled ==
  /\ stage = "serving" /\ input = "closed"
  /\ \E r \in Received : pc[r] = "awaiting"
  /\ \A r \in Received : pc[r] \in {"awaiting", "done", "queued"}
  /\ stage' = "exited"
  /\ loop' = "done"
  /\ UNCHANGED <<deferred, input, requestVars, callbackVars,
                 bind, settled, attempt, cap, late, store, cancelled>>

-----------------------------------------------------------------------------
\* The event loop can turn.
Awake == loop # "spin"

Reader ==
  /\ Awake
  /\ \/ \E k \in Kinds : ReadRequest(k)
     \/ \E c \in Callbacks : ReadReply(c)
     \/ InputCloses

Handler(r) ==
  /\ Awake
  /\ \/ AnswerAtOnce(r) \/ BeginOther(r) \/ Finish(r)
     \/ DoctorWaits(r) \/ DoctorAnswers(r)

Detour(r) == Awake /\ (CallBack(r) \/ Abandon(r))

Ending == Awake /\ (Drained \/ Exit \/ ExitUnsettled)

Next ==
  \/ Reader
  \/ \E r \in Requests : Handler(r) \/ Detour(r) \/ TimerFires(r)
  \/ BindTurn \/ CapPasses \/ DeadlinePasses
  \/ Ending
  \/ \E c \in Callbacks : HostReplies(c)

Spec == Init /\ [][Next]_vars

\* The event loop runs what is ready, the clock runs and methods return.  The
\* host need not reply to a callback, nobody has to close the input or to release
\* the store's lock, and a lock that cannot be removed may stay so.
Fairness ==
  /\ \A r \in Requests : WF_vars(Handler(r)) /\ WF_vars(TimerFires(r))
  /\ \A c \in Callbacks : WF_vars(Awake /\ ReadReply(c))
  /\ WF_vars(BindTurn /\ (loop = "spin" => ~Checkpoint))
  /\ WF_vars(CapPasses) /\ WF_vars(DeadlinePasses) /\ WF_vars(Ending)

LiveSpec == Spec /\ Fairness

-----------------------------------------------------------------------------
TypeOK ==
  /\ deferred \in BOOLEAN /\ cancelled \in BOOLEAN /\ settled \in BOOLEAN
  /\ input \in {"open", "closed"}
  /\ stage \in {"serving", "ended", "exited"}
  /\ kind \in Seq(Kinds) /\ Len(kind) <= MaxRequests
  /\ pc \in [Requests -> {"idle", "queued", "running", "awaiting", "bindwait", "done"}]
  /\ order \in Seq(Requests)
  /\ verdict \in [Requests -> Verdicts \cup {None}]
  /\ awaits \in [Requests -> Callbacks \cup {None}]
  /\ pending \subseteq Callbacks /\ nextCb \in 1..(MaxCallbacks + 1)
  /\ replied \subseteq Callbacks
  /\ timer \subseteq Requests
  /\ bind \in {"pending", "bound", "contended", "failed"}
  /\ loop \in {"start", "poll", "cooldown", "spin", "done"}
  /\ attempt \in 1..MaxAttempts
  /\ cap \in {"none", "set", "passed"}
  /\ late \in BOOLEAN
  /\ store \in {"none", "open", "closed"}

\* The loop is a serial server, whatever handlers wait for (module
\* SerialServer): one answer for each request, in the order they came, and no
\* request begun before the earlier ones are answered.  The Python client
\* takes the next line for its own answer on the strength of it.
Begun == {r \in Received : pc[r] # "queued"}
Server == INSTANCE SerialServer WITH
  received <- Len(kind), begun <- Cardinality(Begun), answers <- order
ServesInOrder == Server!Spec

\* A request goes without an answer only when it, or one before it, awaits a
\* callback that the closed input cuts off: whatever else was read is answered
\* before the process ends.
ExitAnswersAll ==
  stage # "serving" =>
    \A r \in Received : pc[r] # "done" => \E q \in 1..r : pc[q] = "awaiting"

\* "The bind can never outrun the verdict budget": once a doctor call was told
\* that the bind is pending, or the input closed, the store is not opened any
\* more - through polls, cooldowns and retries that began before.
StoreStaysShut ==
  [][ cancelled \/ (\E r \in Received : verdict[r] = "degraded")
        => (store' = "open" => store = "open") ]_vars

\* Every request is answered in the end, unless it or an earlier one awaits a
\* callback for ever that the host does not reply to, or the bind goes round
\* again and again over a stale lock that it cannot remove.  A bind that waits
\* for a holder does not hold up a doctor call, with bind_wait_s or without.
Served ==
  \A r \in Requests :
    pc[r] = "queued" ~>
      \/ pc[r] = "done"
      \/ \E q \in 1..r : [](pc[q] = "awaiting" /\ awaits[q] \notin replied)
      \/ []<>(loop = "spin")
===============================================================================
