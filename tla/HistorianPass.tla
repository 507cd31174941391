---------------------------- MODULE HistorianPass ----------------------------
(***************************************************************************)
(* The historian transaction: MagicContextEngine._run_historian_pass       *)
(* (src/magic_hermes/engine.py) and the historian_* handlers of its        *)
(* sidecar (bridge/runtime.mjs), for several passes over one session.      *)
(*                                                                         *)
(* Every pass owns an isolated RuntimeClient, so a pass is also its        *)
(* sidecar and its lease holder id.  The passes share the Magic Context    *)
(* store: the compartments of the session, its compartment lease, the      *)
(* compartmentInProgress flag and the historian_runs rows.  A call of the  *)
(* engine waits in pc; the handler runs in the sidecar and leaves its      *)
(* result in reply; until the engine takes it the call can be lost.  A      *)
(* sidecar whose host was killed still serves what it was sent.            *)
(***************************************************************************)
EXTENDS Integers, Sequences

CONSTANTS
  Passes,    \* historian passes over the session
  TwoPass,   \* those whose configuration has historian.two_pass
  NoHolder   \* nobody holds the compartment lease

ASSUME PassesAssumption == NoHolder \notin Passes /\ TwoPass \subseteq Passes

VARIABLES
  lease,       \* store: holder of the session's compartment lease
  inProgress,  \* store: session meta compartmentInProgress
  length,      \* store: compartments published for the session
  rows,        \* store: the historian_runs rows each pass handed in
  pc,          \* engine: the call each pass waits for
  round,       \* engine: which output is being completed or published
  outcome,     \* engine: terminal_outcome, "budget" for host_stopped_waiting
  beat,        \* engine: the lease heartbeat thread runs
  killed,      \* engine: the host of the pass died, its sidecar has work left
  side,        \* sidecar: "bound", or "down": lost, or a new one without a session
  reply,       \* sidecar: result of the engine's call, or "none" yet
  at,          \* sidecar: how far historianPrepare or historianPublish has come
  pending,     \* sidecar: session.pendingHistorian
  draft,       \* sidecar: pending.validatedDraft
  recorded,    \* sidecar: pending.telemetryRecorded
  base,        \* sidecar: the session's length that the pass was prepared on
  committed,   \* history: the pass published its compartments
  engaged,     \* history: the pass took the lease
  stale,       \* history: the session had grown when the pass took the lease
  lost,        \* history: the lease expired under the pass
  abandoned    \* history: the sidecar was lost, or failed, before it cleaned up

storeVars  == <<lease, inProgress, length, rows>>
engineVars == <<pc, round, outcome, beat, killed>>
pendingVars == <<pending, draft, recorded>>
sideVars   == <<side, at, pendingVars>>
history    == <<base, committed, engaged, stale, lost, abandoned>>
vars == <<storeVars, engineVars, sideVars, reply, history>>

Calls  == {"prepare", "publish", "abort"}
Pc     == Calls \cup {"start", "complete", "ended"}
Status == {"success", "noop", "failed"}
Replies == {"none", "ok", "ready", "notready", "rejected", "editor", "error"}
At      == {"idle", "acquire", "commit", "record", "release"}

Init ==
  /\ lease = NoHolder /\ inProgress = FALSE /\ length = 0
  /\ rows = [p \in Passes |-> <<>>]
  /\ pc = [p \in Passes |-> "start"]
  /\ round = [p \in Passes |-> "first"]
  /\ outcome = [p \in Passes |-> "none"]
  /\ beat = [p \in Passes |-> FALSE]
  /\ killed = [p \in Passes |-> FALSE]
  /\ side = [p \in Passes |-> "down"]
  /\ reply = [p \in Passes |-> "none"]
  /\ at = [p \in Passes |-> "idle"]
  /\ pending = [p \in Passes |-> FALSE]
  /\ draft = [p \in Passes |-> FALSE]
  /\ recorded = [p \in Passes |-> FALSE]
  /\ base = [p \in Passes |-> 0]
  /\ committed = [p \in Passes |-> FALSE]
  /\ engaged = [p \in Passes |-> FALSE]
  /\ stale = [p \in Passes |-> FALSE]
  /\ lost = [p \in Passes |-> FALSE]
  /\ abandoned = [p \in Passes |-> FALSE]

Set(f, p, v) == [f EXCEPT ![p] = v]

\* The engine's call arrives in a live sidecar and no handler ran for it yet.
Called(p, method) == pc[p] = method /\ reply[p] = "none"

\* A handler is done with this result.
Return(p, result) == reply' = Set(reply, p, result)

\* recordHistorianRunOutcome.  The caller is not told whether the store took
\* the row, so nothing depends on it.
Record(p, status) == rows' = [rows EXCEPT ![p] = Append(@, status)]

PendingGone(p) ==
  /\ pending' = Set(pending, p, FALSE)
  /\ draft' = Set(draft, p, FALSE)
  /\ recorded' = Set(recorded, p, FALSE)

\* releaseCompartmentLease: only the holder's own lease.
Release(p) == lease' = IF lease = p THEN NoHolder ELSE lease

-----------------------------------------------------------------------------
(* The handlers, in the sidecar of pass p.                                 *)

Preparing(p, where) == Called(p, "prepare") /\ side[p] = "bound" /\ at[p] = where

\* historianPrepare up to the lease: the compartments, the end of the last one
\* and the chunk after it are read, and the prompt is built of them.
PrepareReads(p) ==
  /\ Preparing(p, "idle")
  /\ base' = Set(base, p, length)
  /\ at' = Set(at, p, "acquire")
  /\ UNCHANGED <<storeVars, engineVars, side, pendingVars, reply, committed,
                 engaged, stale, lost, abandoned>>

\* No reason to run, or the lease is taken: one noop row, and nothing to abort.
PrepareNoop(p) ==
  /\ Preparing(p, "idle") \/ (Preparing(p, "acquire") /\ lease # NoHolder)
  /\ Record(p, "noop")
  /\ at' = Set(at, p, "idle")
  /\ Return(p, "notready")
  /\ UNCHANGED <<lease, inProgress, length, engineVars, side, pendingVars, history>>

\* The pass has the lease.  What it had read is not read again.
Engages(p) ==
  /\ lease' = p
  /\ engaged' = Set(engaged, p, TRUE)
  /\ stale' = Set(stale, p, base[p] # length)
  /\ at' = Set(at, p, "idle")

\* Mutant: the lease is taken whoever holds it.
PrepareStealing(p) ==
  /\ Preparing(p, "acquire")
  /\ Engages(p)
  /\ inProgress' = TRUE
  /\ pending' = Set(pending, p, TRUE)
  /\ Return(p, "ready")
  /\ UNCHANGED <<length, rows, engineVars, side, draft, recorded, base, committed,
                 lost, abandoned>>

\* acquireCompartmentLease, the flag, and the pending pass.
Prepare(p) ==
  /\ Preparing(p, "acquire")
  /\ lease = NoHolder
  /\ Engages(p)
  /\ inProgress' = TRUE
  /\ pending' = Set(pending, p, TRUE)
  /\ Return(p, "ready")
  /\ UNCHANGED <<length, rows, engineVars, side, draft, recorded, base, committed,
                 lost, abandoned>>

\* updateSessionMeta throws after the lease was acquired.
PrepareThrows(p) ==
  /\ Preparing(p, "acquire")
  /\ lease = NoHolder
  /\ Engages(p)
  /\ abandoned' = Set(abandoned, p, TRUE)
  /\ Return(p, "error")
  /\ UNCHANGED <<inProgress, length, rows, engineVars, side, pendingVars, base,
                 committed, lost>>

\* A handler throws before it changed anything: "Session is not bound" from a
\* fresh sidecar, "No historian pass is pending", a store or validator error;
\* or the failure cooldown of the client refuses the call.
CallFails(p) ==
  /\ pc[p] \in Calls /\ reply[p] = "none" /\ at[p] \in {"idle", "acquire"}
  /\ pc[p] = "abort" => side[p] # "bound"
  /\ at' = Set(at, p, "idle")
  /\ Return(p, "error")
  /\ UNCHANGED <<storeVars, engineVars, side, pendingVars, history>>

\* historianPublish up to the transaction.  The validator decides; a rejected
\* editor output falls back on the validated draft.
Publishing(p) ==
  Called(p, "publish") /\ side[p] = "bound" /\ pending[p] /\ at[p] = "idle"

PublishRejected(p) ==
  /\ Publishing(p)
  /\ ~(round[p] = "edit" /\ draft[p])
  /\ Return(p, "rejected")
  /\ UNCHANGED <<storeVars, engineVars, sideVars, history>>

PublishDrafted(p) ==
  /\ Publishing(p)
  /\ p \in TwoPass /\ round[p] # "edit"
  /\ draft' = Set(draft, p, TRUE)
  /\ Return(p, "editor")
  /\ UNCHANGED <<storeVars, engineVars, side, at, pending, recorded, history>>

\* Mutant: the success row is written ahead of the transaction.
PublishAcceptedRecording(p) ==
  /\ Publishing(p)
  /\ p \notin TwoPass \/ round[p] = "edit"
  /\ Record(p, "success")
  /\ recorded' = Set(recorded, p, TRUE)
  /\ at' = Set(at, p, "commit")
  /\ UNCHANGED <<lease, inProgress, length, engineVars, side, pending, draft, reply, history>>

PublishAccepted(p) ==
  /\ Publishing(p)
  /\ p \notin TwoPass \/ round[p] = "edit"
  /\ at' = Set(at, p, "commit")
  /\ UNCHANGED <<storeVars, engineVars, side, pendingVars, reply, history>>

\* BEGIN IMMEDIATE ... COMMIT.  The lease is not looked at.
PublishCommit(p) ==
  /\ at[p] = "commit"
  /\ length' = length + 1
  /\ committed' = Set(committed, p, TRUE)
  /\ at' = Set(at, p, "record")
  /\ UNCHANGED <<lease, inProgress, rows, engineVars, side, pendingVars, reply,
                 base, engaged, stale, lost, abandoned>>

\* Mutant: pending.telemetryRecorded is not set.
PublishRecordUnmarked(p) ==
  /\ at[p] = "record"
  /\ Record(p, "success")
  /\ at' = Set(at, p, "release")
  /\ UNCHANGED <<lease, inProgress, length, engineVars, side, pendingVars, reply, history>>

PublishRecord(p) ==
  /\ at[p] = "record"
  /\ recorded' = Set(recorded, p, TRUE)
  /\ Record(p, "success")
  /\ at' = Set(at, p, "release")
  /\ UNCHANGED <<lease, inProgress, length, engineVars, side, pending, draft, reply, history>>

\* Mutant: the flag is cleared and the lease kept.
PublishKeepsLease(p) ==
  /\ at[p] = "release"
  /\ inProgress' = FALSE
  /\ PendingGone(p)
  /\ at' = Set(at, p, "idle")
  /\ Return(p, "ok")
  /\ UNCHANGED <<lease, length, rows, engineVars, side, history>>

\* onNoteTrigger and the side channels after it, the flag, the lease; then the
\* render of the context, which may throw.
PublishRelease(p) ==
  /\ at[p] = "release"
  /\ inProgress' = FALSE
  /\ Release(p)
  /\ PendingGone(p)
  /\ at' = Set(at, p, "idle")
  /\ Return(p, "ok") \/ Return(p, "error")
  /\ UNCHANGED <<length, rows, engineVars, side, history>>

\* The transaction rolls back, or onNoteTrigger, updateSessionMeta or
\* releaseCompartmentLease (the flag is cleared by then) throws: the handler
\* ends with an error.
PublishThrows(p) ==
  /\ at[p] \in {"commit", "release"}
  /\ (at[p] = "release" /\ inProgress' = FALSE) \/ UNCHANGED inProgress
  /\ at' = Set(at, p, "idle")
  /\ Return(p, "error")
  /\ UNCHANGED <<lease, length, rows, engineVars, side, pendingVars, history>>

\* Mutant: the engine's classification is stored as it comes.
AbortUnsanitized(p) ==
  /\ Called(p, "abort") /\ side[p] = "bound"
  /\ inProgress' = FALSE
  /\ IF pending[p] THEN Release(p) ELSE UNCHANGED lease
  /\ IF pending[p] /\ ~recorded[p] THEN Record(p, outcome[p]) ELSE UNCHANGED rows
  /\ PendingGone(p)
  /\ Return(p, "ok")
  /\ UNCHANGED <<length, engineVars, side, at, history>>

\* historianAbort.  The flag is cleared whether or not a pass is pending.
Abort(p) ==
  /\ Called(p, "abort") /\ side[p] = "bound"
  /\ inProgress' = FALSE
  /\ IF pending[p] THEN Release(p) ELSE UNCHANGED lease
  /\ IF pending[p] /\ ~recorded[p]
     THEN Record(p, IF outcome[p] = "failed" THEN "failed" ELSE "noop")
     ELSE UNCHANGED rows
  /\ PendingGone(p)
  /\ Return(p, "ok")
  /\ UNCHANGED <<length, engineVars, side, at, history>>

\* updateSessionMeta throws, or releaseCompartmentLease after it.
AbortThrows(p) ==
  /\ Called(p, "abort") /\ side[p] = "bound"
  /\ (pending[p] /\ inProgress' = FALSE) \/ UNCHANGED inProgress
  /\ abandoned' = Set(abandoned, p, abandoned[p] \/ pending[p])
  /\ Return(p, "error")
  /\ UNCHANGED <<lease, length, rows, engineVars, sideVars, base, committed,
                 engaged, stale, lost>>

Handler(p) ==
  \/ PrepareReads(p) \/ PrepareNoop(p) \/ Prepare(p) \/ PrepareThrows(p) \/ CallFails(p)
  \/ PublishRejected(p) \/ PublishDrafted(p) \/ PublishAccepted(p)
  \/ PublishCommit(p) \/ PublishRecord(p) \/ PublishRelease(p)
  \/ PublishThrows(p) \/ Abort(p) \/ AbortThrows(p)

-----------------------------------------------------------------------------
(* _run_historian_pass, in the engine.                                     *)

\* The sidecar's process is gone, and its session state with it.
SidecarGone(p) ==
  /\ side' = Set(side, p, "down")
  /\ at' = Set(at, p, "idle")
  /\ PendingGone(p)
  /\ reply' = Set(reply, p, "none")

\* The pass is over: the heartbeat is stopped and the client closed, and the
\* locals are gone.
End(p) ==
  /\ pc' = Set(pc, p, "ended")
  /\ round' = Set(round, p, "first")
  /\ outcome' = Set(outcome, p, "none")
  /\ beat' = Set(beat, p, FALSE)
  /\ killed' = Set(killed, p, FALSE)
  /\ SidecarGone(p)

\* The `finally` of a pass that was prepared and not published.
ToAbort(p, why) ==
  /\ pc' = Set(pc, p, "abort")
  /\ outcome' = Set(outcome, p, why)
  /\ beat' = Set(beat, p, FALSE)

Call(p, method) ==
  /\ pc' = Set(pc, p, method)
  /\ reply' = Set(reply, p, "none")

\* checkpoint() raises HostBudgetExceeded before anything was prepared, or the
\* bind (and model_update after it) fails or is lost.  It leaves nothing in the
\* store.
StopEarly(p) ==
  /\ pc[p] = "start"
  /\ End(p)
  /\ UNCHANGED <<storeVars, history>>

\* The bind has returned and the checkpoint passes.
Begin(p) ==
  /\ pc[p] = "start"
  /\ side' = Set(side, p, "bound")
  /\ Call(p, "prepare")
  /\ UNCHANGED <<storeVars, round, outcome, beat, killed, at, pendingVars, history>>

\* Ready: prepared_started, and the lease heartbeat starts.
PrepareReturns(p) ==
  /\ pc[p] = "prepare" /\ reply[p] = "ready"
  /\ Call(p, "complete")
  /\ beat' = Set(beat, p, TRUE)
  /\ UNCHANGED <<storeVars, round, outcome, killed, sideVars, history>>

\* Not ready, or an error before prepared_started: nothing is aborted.
NothingPrepared(p) ==
  /\ pc[p] = "prepare" /\ reply[p] \in {"notready", "error"}
  /\ End(p)
  /\ UNCHANGED <<storeVars, history>>

Complete(p) ==
  /\ pc[p] = "complete"
  /\ Call(p, "publish")
  /\ UNCHANGED <<storeVars, round, outcome, beat, killed, sideVars, history>>

\* The model call raises, or a checkpoint around it does.
CompleteStops(p) ==
  /\ pc[p] = "complete"
  /\ \E why \in {"failed", "budget"} : ToAbort(p, why)
  /\ reply' = Set(reply, p, "none")
  /\ UNCHANGED <<storeVars, round, killed, sideVars, history>>

\* Mutant: a rejected repair is repaired again.
RepairAgain(p) ==
  /\ pc[p] = "publish" /\ reply[p] = "rejected"
  /\ round' = Set(round, p, "repair")
  /\ Call(p, "complete")
  /\ UNCHANGED <<storeVars, outcome, beat, killed, sideVars, history>>

\* One repair of the first output, and an editor pass when asked for.
Repair(p) ==
  /\ pc[p] = "publish" /\ reply[p] = "rejected" /\ round[p] = "first"
  /\ round' = Set(round, p, "repair")
  /\ Call(p, "complete")
  /\ UNCHANGED <<storeVars, outcome, beat, killed, sideVars, history>>

Edit(p) ==
  /\ pc[p] = "publish" /\ reply[p] = "editor"
  /\ round' = Set(round, p, "edit")
  /\ Call(p, "complete")
  /\ UNCHANGED <<storeVars, outcome, beat, killed, sideVars, history>>

PublishFails(p) ==
  /\ pc[p] = "publish"
  /\ reply[p] = "error" \/ (reply[p] = "rejected" /\ round[p] # "first")
  /\ ToAbort(p, "failed")
  /\ reply' = Set(reply, p, "none")
  /\ UNCHANGED <<storeVars, round, killed, sideVars, history>>

PublishReturns(p) ==
  /\ pc[p] = "publish" /\ reply[p] = "ok"
  /\ End(p)
  /\ UNCHANGED <<storeVars, history>>

AbortReturns(p) ==
  /\ pc[p] = "abort" /\ reply[p] \in {"ok", "error"}
  /\ End(p)
  /\ UNCHANGED <<storeVars, history>>

\* The call times out or the sidecar dies under it: RuntimeClient disposes of
\* the process and raises, whatever the handler had done by then.
CallLost(p) ==
  /\ pc[p] \in Calls
  /\ IF pc[p] = "publish"
     THEN ToAbort(p, "failed") /\ SidecarGone(p) /\ UNCHANGED <<round, killed>>
     ELSE End(p)
  /\ abandoned' = Set(abandoned, p, abandoned[p] \/ pending[p])
  /\ UNCHANGED <<storeVars, base, committed, engaged, stale, lost>>

Engine(p) ==
  /\ ~killed[p]
  /\ \/ StopEarly(p) \/ Begin(p) \/ PrepareReturns(p)
     \/ NothingPrepared(p) \/ Complete(p) \/ CompleteStops(p)
     \/ Repair(p) \/ Edit(p) \/ PublishFails(p) \/ PublishReturns(p)
     \/ AbortReturns(p) \/ CallLost(p)

-----------------------------------------------------------------------------
(* The heartbeat, the lease's clock, and deaths.                           *)

\* historian_renew fails once, or says the lease is gone: the thread returns
\* for good.  A renewal that timed out has disposed of the sidecar.
HeartbeatStops(p) ==
  /\ pc[p] = "complete" /\ beat[p]
  /\ beat' = Set(beat, p, FALSE)
  /\ \/ UNCHANGED <<sideVars, reply, abandoned>>
     \/ /\ SidecarGone(p)
        /\ abandoned' = Set(abandoned, p, abandoned[p] \/ pending[p])
  /\ UNCHANGED <<storeVars, pc, round, outcome, killed, base, committed, engaged,
                 stale, lost>>

\* The sidecar dies during the model call.  Nobody notices yet.
SidecarDies(p) ==
  /\ pc[p] = "complete" /\ side[p] # "down"
  /\ SidecarGone(p)
  /\ abandoned' = Set(abandoned, p, abandoned[p] \/ pending[p])
  /\ UNCHANGED <<storeVars, engineVars, base, committed, engaged, stale, lost>>

\* A call was sent and is not answered.
UnderWay(p) == pc[p] \in Calls /\ side[p] # "down" /\ reply[p] = "none"

\* Hermes is killed with a call under way: its sidecar sees the end of its
\* input, and runs what is left of its request chain before it goes.
HostDies(p) ==
  /\ UnderWay(p) /\ ~killed[p]
  /\ killed' = Set(killed, p, TRUE)
  /\ beat' = Set(beat, p, FALSE)
  /\ UNCHANGED <<storeVars, pc, round, outcome, sideVars, reply, history>>

\* Hermes is killed with none under way; or the sidecar of a killed host goes,
\* by itself or half-way in its work.
HostGone(p) ==
  /\ pc[p] \notin {"start", "ended"}
  /\ killed[p] \/ ~UnderWay(p)
  /\ End(p)
  /\ abandoned' = Set(abandoned, p, abandoned[p] \/ pending[p])
  /\ UNCHANGED <<storeVars, base, committed, engaged, stale, lost>>

\* Five minutes without a renewal.  A heartbeat renews every 60 seconds; the
\* prepare call before it and the abort call after it are over sooner.
LeaseExpires(p) ==
  /\ lease = p /\ ~beat[p] /\ pc[p] \notin {"prepare", "abort"}
  /\ lease' = NoHolder
  /\ lost' = Set(lost, p, lost[p] \/ pending[p])
  /\ UNCHANGED <<inProgress, length, rows, engineVars, sideVars, reply,
                 base, committed, engaged, stale, abandoned>>

Environment(p) ==
  \/ HeartbeatStops(p) \/ SidecarDies(p) \/ HostDies(p) \/ HostGone(p)
  \/ LeaseExpires(p)

Next == \E p \in Passes : Handler(p) \/ Engine(p) \/ Environment(p)

Spec == Init /\ [][Next]_vars

\* Every call has a timeout, and so has every model call: the pass moves.  A
\* sidecar without a host works and goes.
LiveSpec ==
  Spec /\ \A p \in Passes :
            WF_vars(Handler(p) \/ Engine(p) \/ (killed[p] /\ HostGone(p)))

-----------------------------------------------------------------------------
TypeOK ==
  /\ lease \in Passes \cup {NoHolder}
  /\ inProgress \in BOOLEAN
  /\ length \in Nat
  /\ rows \in [Passes -> Seq(Status)]
  /\ pc \in [Passes -> Pc]
  /\ round \in [Passes -> {"first", "repair", "edit"}]
  /\ outcome \in [Passes -> {"none", "failed", "budget"}]
  /\ beat \in [Passes -> BOOLEAN]
  /\ killed \in [Passes -> BOOLEAN]
  /\ side \in [Passes -> {"down", "bound"}]
  /\ reply \in [Passes -> Replies]
  /\ at \in [Passes -> At]
  /\ pending \in [Passes -> BOOLEAN]
  /\ draft \in [Passes -> BOOLEAN]
  /\ recorded \in [Passes -> BOOLEAN]
  /\ base \in [Passes -> Nat]
  /\ committed \in [Passes -> BOOLEAN]
  /\ engaged \in [Passes -> BOOLEAN]
  /\ stale \in [Passes -> BOOLEAN]
  /\ lost \in [Passes -> BOOLEAN]
  /\ abandoned \in [Passes -> BOOLEAN]

\* No pass writes two historian_runs rows, whatever fails after publication
\* ("exactly one terminal row per engaged pass", runtime.mjs:2575: the upper
\* half).
AtMostOneRow == \A p \in Passes : Len(rows[p]) <= 1

\* A row says "success" just when the pass's compartments are in the store: a
\* pass that fails after its COMMIT is never recorded as failed or as a noop.
RowTellsPublication ==
  \A p \in Passes : \A i \in 1..Len(rows[p]) :
    rows[p][i] = "success" <=> committed[p]

\* A pass whose sidecar was not lost before it had cleaned up leaves nothing
\* behind, whether its host lived or was killed under a call: the lease is not
\* its own and, if it was engaged, its one row was handed to the store.
CleanEnd ==
  \A p \in Passes : pc[p] = "ended" /\ ~abandoned[p] =>
    lease # p /\ (engaged[p] => rows[p] # <<>>)

\* Two passes prepared on the same end of the session are both published only
\* if one of them lost its lease under way, or took it on a reading that was
\* out of date by then: the chunk is read before the lease is taken, and
\* neither the lease nor publication looks at the session again.
PublishedOnce ==
  \A p, q \in Passes :
    p # q /\ committed[p] /\ committed[q] /\ base[p] = base[q] =>
      lost[p] \/ lost[q] \/ stale[p] \/ stale[q]

\* The passes implement the ledger of RunLedger: whatever is lost, repeated or
\* fails half-way, a pass writes one row at most (runtime.mjs:2575), after and
\* only after its publication if it says so, and publishes on the length it had
\* read while reservations are kept and taken on an up-to-date reading.
Ledger == INSTANCE RunLedger WITH
  taken <- {p \in Passes : engaged[p]}, working <- {p \in Passes : pending[p]},
  expired <- {p \in Passes : lost[p]}, outdated <- {p \in Passes : stale[p]},
  published <- {p \in Passes : committed[p]}
KeepsLedger == Ledger!Spec

\* A pass that was begun ends: one repair, one editor pass, one abort.
PassEnds == \A p \in Passes : pc[p] # "start" ~> pc[p] = "ended"

\* docs/IMPLEMENTATION_PLAN.md:300: "abort/release if ownership retained", so
\* no pass clears compartmentInProgress under one that has the lease and waits
\* for its model.
FlagCoversPass ==
  \A p \in Passes : lease = p /\ pending[p] /\ pc[p] = "complete" => inProgress
===============================================================================
