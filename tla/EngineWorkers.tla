------------------------------ MODULE EngineWorkers ------------------------------
(***************************************************************************)
(* The threads of one MagicContextEngine (src/magic_hermes/engine.py): the *)
(* host thread in its turn and session hooks, the historian, maintenance   *)
(* and dreamer workers it schedules, and a compress() call, which Hermes   *)
(* runs on a pooled thread and stops waiting for when its budget is spent  *)
(* (_host_budget.py) while the thread goes on.                             *)
(*                                                                         *)
(* What a worker and a compression pass ask of their own sidecars is in    *)
(* module HistorianPass; here a pass is a number of legs.  The session id  *)
(* and the client that hooks and compress() share are in EngineBinding.    *)
(***************************************************************************)
EXTENDS Integers, Sequences, FiniteSets

CONSTANTS
  MaxThreads,  \* bound: workers at a time
  MaxLegs,     \* bound: legs of a compression pass
  None         \* no thread

ASSUME BoundsAssumption == MaxThreads \in Nat /\ MaxLegs \in Nat \ {0}
ASSUME NoneAssumption == None \notin Nat

VARIABLES
  ended,      \* on_session_end has closed the client since
  hpc,        \* where the host thread is
  left,       \* on_session_end: the slots it has still to look at
  target,     \* the worker it joins
  slot,       \* _historian_thread, _maintenance_thread, _dreamer_thread
  kind,       \* of each worker: its slot
  pc,         \* where it is
  waitedFor,  \* history: on_session_end has given it its five seconds
  cpc,        \* where the compress() thread is
  legs,       \* legs its pass has begun
  budget,     \* the host deadline: "none", or "ample", "scarce" (under 10 s), "out"
  cancelled   \* the host cancelled the attempt

hostVars   == <<ended, hpc, left, target>>
workerVars == <<slot, kind, pc, waitedFor>>
passVars   == <<cpc, legs, budget, cancelled>>
vars == <<hostVars, workerVars, passVars>>

Threads == 1..MaxThreads
Slots   == {"historian", "maintenance", "dreamer"}
Drain   == <<"historian", "maintenance", "dreamer">>

Init ==
  /\ ended = FALSE
  /\ hpc = "idle" /\ left = <<>> /\ target = None
  /\ slot = [k \in Slots |-> None]
  /\ kind = [t \in Threads |-> None]
  /\ pc = [t \in Threads |-> "gone"]
  /\ waitedFor = [t \in Threads |-> FALSE]
  /\ cpc = "off" /\ legs = 0
  /\ budget = "none" /\ cancelled = FALSE

\* thread.is_alive()
Alive(t)    == pc[t] \in {"work", "clear"}
\* No thread goes by this number.
Idle        == {t \in Threads : pc[t] = "gone"}
SlotBusy(k) == slot[k] # None /\ Alive(slot[k])

-----------------------------------------------------------------------------
(* The workers                                                             *)

\* Mutant: the slot is filled again while its worker is at work.
FreeForAll(k) == TRUE

\* The test of _schedule_historian, _maintenance and _dreamer under the lock.
SlotFree(k) == ~SlotBusy(k)

\* The least idle number stands for the new thread.
Schedule(k) ==
  /\ SlotFree(k)
  /\ \E t \in Idle :
       /\ \A i \in Idle : t <= i
       /\ slot' = [slot EXCEPT ![k] = t]
       /\ kind' = [kind EXCEPT ![t] = k]
       /\ pc' = [pc EXCEPT ![t] = "work"]
  /\ UNCHANGED waitedFor

\* The last call of a historian pass with its maintenance, of maintenance or of
\* the dreamer has returned or failed; the worker's own client is closed.
WorkReturns(t) ==
  /\ pc[t] = "work"
  /\ pc' = [pc EXCEPT ![t] = "clear"]
  /\ UNCHANGED <<hostVars, slot, kind, waitedFor, passVars>>

\* Mutant: the worker ends without clearing its slot.
ClearNothing(t) ==
  /\ pc[t] = "clear"
  /\ pc' = [pc EXCEPT ![t] = "gone"]
  /\ kind' = [kind EXCEPT ![t] = None]
  /\ UNCHANGED <<hostVars, slot, waitedFor, passVars>>

\* The slot is cleared by the worker that is in it, and the thread ends.
Clear(t) ==
  /\ pc[t] = "clear"
  /\ slot' = IF slot[kind[t]] = t THEN [slot EXCEPT ![kind[t]] = None] ELSE slot
  /\ pc' = [pc EXCEPT ![t] = "gone"]
  /\ kind' = [kind EXCEPT ![t] = None]
  /\ UNCHANGED <<hostVars, waitedFor, passVars>>

Worker(t) == WorkReturns(t) \/ Clear(t)

-----------------------------------------------------------------------------
(* The host thread                                                         *)

HostFrame == UNCHANGED passVars

\* on_session_start
SessionStart ==
  /\ hpc = "idle" /\ ended
  /\ ended' = FALSE
  /\ UNCHANGED <<hpc, left, target, workerVars>>
  /\ HostFrame

\* on_turn_complete: observe and historian_decide, and what they lead to; it
\* stops there when a call fails.
TurnComplete ==
  /\ hpc = "idle" /\ ~ended
  /\ hpc' \in {"idle", "fire", "maintain"}
  /\ UNCHANGED <<ended, left, target, workerVars>>
  /\ HostFrame

\* should_fire: a historian if its slot is free, else maintenance.
Fire ==
  /\ hpc = "fire"
  /\ \/ Schedule("historian") /\ hpc' = "dream"
     \/ SlotBusy("historian") /\ hpc' = "maintain" /\ UNCHANGED workerVars
  /\ UNCHANGED <<ended, left, target>>
  /\ HostFrame

Maintain ==
  /\ hpc = "maintain"
  /\ Schedule("maintenance") \/ (SlotBusy("maintenance") /\ UNCHANGED workerVars)
  /\ hpc' = "dream"
  /\ UNCHANGED <<ended, left, target>>
  /\ HostFrame

Dream ==
  /\ hpc = "dream"
  /\ Schedule("dreamer") \/ (SlotBusy("dreamer") /\ UNCHANGED workerVars)
  /\ hpc' = "idle"
  /\ UNCHANGED <<ended, left, target>>
  /\ HostFrame

\* The bound on workers is reached: the turn ends here.
NoMoreWorkers ==
  /\ hpc \in {"fire", "maintain", "dream"} /\ Idle = {}
  /\ hpc' = "idle"
  /\ UNCHANGED <<ended, left, target, workerVars>>
  /\ HostFrame

SessionEnd ==
  /\ hpc = "idle" /\ ~ended
  /\ hpc' = "drain"
  /\ left' = Drain
  /\ UNCHANGED <<ended, target, workerVars>>
  /\ HostFrame

\* The next slot, read under its lock: nobody to wait for, or a join.
LookAtSlot ==
  /\ hpc = "drain" /\ left # <<>>
  /\ left' = Tail(left)
  /\ IF SlotBusy(Head(left))
     THEN hpc' = "join" /\ target' = slot[Head(left)]
     ELSE UNCHANGED <<hpc, target>>
  /\ UNCHANGED <<ended, workerVars>>
  /\ HostFrame

\* join(timeout=5.0): the worker has ended, or five seconds are over.
Joined ==
  /\ hpc = "join"
  /\ hpc' = "drain" /\ target' = None
  /\ waitedFor' = [waitedFor EXCEPT ![target] = TRUE]
  /\ UNCHANGED <<ended, left, slot, kind, pc>>
  /\ HostFrame

\* The last observe, and the engine's client is closed.
Finish ==
  /\ hpc = "drain" /\ left = <<>>
  /\ hpc' = "idle"
  /\ ended' = TRUE
  /\ waitedFor' = [t \in Threads |-> FALSE]
  /\ UNCHANGED <<left, target, slot, kind, pc>>
  /\ HostFrame

-----------------------------------------------------------------------------
(* compress()                                                              *)

CFrame == UNCHANGED <<ended, left, target, workerVars>>
CGoes  == UNCHANGED <<budget, cancelled>>

\* The host waits for the attempt, with or without a deadline.
Compress ==
  /\ hpc = "idle" /\ ~ended /\ cpc = "off"
  /\ hpc' = "compress"
  /\ legs' = 0
  /\ budget' \in {"none", "ample"}
  /\ cancelled' = FALSE
  /\ cpc' = IF SlotBusy("historian") THEN "wait" ELSE "decide"
  /\ UNCHANGED <<ended, left, target, workerVars>>

\* compress() returns, to the host if it is still there.
Return ==
  /\ cpc' = "off"
  /\ hpc' = IF hpc = "compress" THEN "idle" ELSE hpc
  /\ legs' = 0
  /\ budget' = "none" /\ cancelled' = FALSE

\* _host_budget: the host no longer waits, or not long enough for a leg.
Expired == cancelled \/ budget = "out"

\* Mutant: wait_for_worker joins without a look at the deadline.
WaitRunsOut(e) == FALSE

\* wait_for_worker returns False once the attempt has expired.
WaitEndsBy(e) == e

\* wait_for_worker: the worker that was in the slot has ended, or the budget
\* ran out; a render decides whether to go on.
WaitEnds ==
  /\ cpc = "wait"
  /\ \/ ~SlotBusy("historian") /\ cpc' = "look"
     \/ budget # "none" /\ WaitEndsBy(Expired) /\ cpc' = "last"
  /\ UNCHANGED <<hpc, legs>> /\ CGoes /\ CFrame

\* The view after the worker: changed, and the attempt returns it, or not.
Look ==
  /\ cpc = "look"
  /\ \/ Return
     \/ cpc' = "decide" /\ UNCHANGED <<hpc, legs>> /\ CGoes
  /\ CFrame

\* historian_decide; a failure ends the attempt unless it is forced.
Decide ==
  /\ cpc = "decide"
  /\ \/ Return
     \/ cpc' = "checkpoint" /\ UNCHANGED <<hpc, legs>> /\ CGoes
  /\ CFrame

Checkpoint == ~Expired /\ budget # "scarce"

\* A leg of the pass on the worker client, or the end of the pass.
Leg ==
  /\ cpc = "checkpoint"
  /\ \/ Checkpoint /\ legs < MaxLegs /\ legs' = legs + 1 /\ UNCHANGED cpc
     \/ cpc' = "last" /\ UNCHANGED legs
  /\ UNCHANGED hpc /\ CGoes /\ CFrame

\* The worker client is closed, and a last render is the answer.
LastRender ==
  /\ cpc = "last"
  /\ Return
  /\ CFrame

CompressStep == WaitEnds \/ Look \/ Decide \/ Leg \/ LastRender

\* The deadline comes nearer.
BudgetShrinks ==
  /\ cpc # "off"
  /\ \/ budget = "ample" /\ budget' = "scarce"
     \/ budget = "scarce" /\ budget' = "out"
  /\ UNCHANGED <<hostVars, workerVars, cpc, legs, cancelled>>

\* The host gives up on the attempt: no progress for too long, or its deadline.
\* The pooled thread is not stopped by that.
Abandon ==
  /\ hpc = "compress" /\ budget # "none"
  /\ hpc' = "idle"
  /\ cancelled' = TRUE
  /\ UNCHANGED <<ended, left, target, workerVars, cpc, legs, budget>>

-----------------------------------------------------------------------------
HostStep ==
  \/ Fire \/ Maintain \/ Dream \/ NoMoreWorkers
  \/ LookAtSlot \/ Joined \/ Finish

Next ==
  \/ SessionStart \/ TurnComplete \/ SessionEnd \/ Compress
  \/ HostStep \/ CompressStep \/ BudgetShrinks \/ Abandon
  \/ \E t \in Threads : Worker(t)

Spec == Init /\ [][Next]_vars

\* The host thread and the compress thread run and the clock runs.  Workers
\* need not: a sidecar or a model may take as long as it likes.
LiveSpec ==
  /\ Spec
  /\ WF_vars(HostStep) /\ WF_vars(CompressStep) /\ WF_vars(BudgetShrinks)

-----------------------------------------------------------------------------
TypeOK ==
  /\ ended \in BOOLEAN /\ cancelled \in BOOLEAN
  /\ hpc \in {"idle", "fire", "maintain", "dream", "drain", "join", "compress"}
  /\ left \in Seq(Slots) /\ Len(left) <= 3
  /\ target \in Threads \cup {None} /\ (hpc = "join" <=> target # None)
  /\ slot \in [Slots -> Threads \cup {None}]
  /\ \A k \in Slots : slot[k] # None => kind[slot[k]] = k
  /\ kind \in [Threads -> Slots \cup {None}]
  /\ pc \in [Threads -> {"work", "clear", "gone"}]
  /\ waitedFor \in [Threads -> BOOLEAN]
  /\ cpc \in {"off", "wait", "look", "decide", "checkpoint", "last"}
  /\ legs \in 0..MaxLegs
  /\ budget \in {"none", "ample", "scarce", "out"}

\* "Upstream gives in-flight historian/dreamer work a bounded 5-second shutdown
\* drain.  Match that": when on_session_end closes the engine, every worker
\* that is still at work was given its five seconds, whatever was scheduled,
\* finished or refused before.  In particular no slot ever had two.
DrainMissesNobody ==
  hpc = "drain" /\ left = <<>> =>
    \A t \in Threads : pc[t] = "work" => waitedFor[t]

\* The host gets its thread back: from on_session_end whatever its workers do,
\* and from an attempt with a deadline whether or not the historian it waits
\* for ever ends.  The thread of an attempt that was given up ends as well.
HostReturns ==
  /\ hpc \in {"drain", "join"} ~> hpc = "idle"
  /\ (cpc = "wait" /\ budget # "none") ~> (cpc = "off")
  /\ cancelled ~> (cpc = "off")
===============================================================================
