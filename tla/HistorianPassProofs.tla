------------------------- MODULE HistorianPassProofs -------------------------
(***************************************************************************)
(* Proofs about HistorianPass, for any number of passes.                   *)
(***************************************************************************)
EXTENDS HistorianPass, TLAPS

(* The inductive invariant: what holds of each pass by itself, and how two *)
(* passes relate through the lease.                                        *)

Success(row) == row = <<"success">>

\* Where the engine is, against what its sidecar has pending.
Phase(p) ==
  /\ pending[p] => engaged[p] /\ side[p] = "bound"
  /\ pc[p] \in {"start", "ended"} => ~pending[p]
  /\ pc[p] = "prepare" /\ reply[p] # "ready" => ~pending[p]
  /\ pc[p] \in {"publish", "abort"} /\ reply[p] = "ok" => ~pending[p]
  /\ pc[p] = "abort" /\ reply[p] = "error" => ~pending[p] \/ abandoned[p]
  /\ at[p] # "idle" => reply[p] = "none"
  /\ at[p] = "acquire" => pc[p] = "prepare"
  /\ at[p] \in {"commit", "record", "release"} => pc[p] = "publish" /\ pending[p]
  /\ pc[p] = "start" \/ (pc[p] = "prepare" /\ reply[p] = "none")
       => ~engaged[p] /\ rows[p] = <<>>

\* Publication and its row, against what the sidecar remembers of them.
Recorded(p) ==
  /\ ~engaged[p] => ~committed[p] /\ ~stale[p]
  /\ pending[p] /\ ~recorded[p] /\ at[p] # "record" => ~committed[p] /\ rows[p] = <<>>
  /\ pending[p] /\ recorded[p] => committed[p] /\ Success(rows[p])
  /\ at[p] = "record" => committed[p] /\ ~recorded[p] /\ rows[p] = <<>>
  /\ at[p] = "commit" => ~recorded[p]
  /\ at[p] = "release" => recorded[p]
  /\ pc[p] \in {"start", "prepare", "complete"} => ~recorded[p]
  /\ pc[p] = "publish" /\ at[p] = "idle" /\ reply[p] \in {"none", "rejected", "editor"}
       => ~recorded[p]
  /\ Len(rows[p]) <= 1
  /\ rows[p] # <<>> => (rows[p][1] = "success" <=> committed[p])

\* What a pass that kept its sidecar has cleaned up.
Cleaned(p) ==
  engaged[p] /\ ~pending[p] /\ ~abandoned[p] => rows[p] # <<>> /\ lease # p

Leased(p) ==
  /\ lease = p => engaged[p]
  /\ pending[p] /\ ~lost[p] => lease = p
  /\ base[p] <= length
  /\ committed[p] => base[p] < length

PassInv(p) == Phase(p) /\ Recorded(p) /\ Cleaned(p) /\ Leased(p)

\* Two passes that read the session as it was, neither of which lost its lease,
\* work on different stretches.
Apart(p, q) ==
  p # q /\ committed[p] /\ (committed[q] \/ pending[q])
    /\ ~lost[p] /\ ~lost[q] /\ ~stale[p] /\ ~stale[q]
  => base[p] # base[q]

IInv ==
  /\ TypeOK
  /\ \A p \in Passes : PassInv(p)
  /\ \A p, q \in Passes : Apart(p, q)

-----------------------------------------------------------------------------
(* Type correctness. *)

LEMMA TypeInit == Init => TypeOK
<1> SUFFICES ASSUME Init PROVE TypeOK
  OBVIOUS
<1>1. lease \in Passes \cup {NoHolder} /\ length \in Nat /\ inProgress \in BOOLEAN
  BY DEF Init
<1>2. rows \in [Passes -> Seq(Status)] /\ base \in [Passes -> Nat]
  BY DEF Init
<1>3. /\ pc \in [Passes -> Pc] /\ reply \in [Passes -> Replies] /\ at \in [Passes -> At]
      /\ round \in [Passes -> {"first", "repair", "edit"}]
      /\ outcome \in [Passes -> {"none", "failed", "budget"}]
      /\ side \in [Passes -> {"down", "bound"}]
  BY DEF Init, Pc, Replies, At
<1>4. /\ beat \in [Passes -> BOOLEAN] /\ pending \in [Passes -> BOOLEAN]
      /\ draft \in [Passes -> BOOLEAN] /\ recorded \in [Passes -> BOOLEAN]
      /\ committed \in [Passes -> BOOLEAN] /\ engaged \in [Passes -> BOOLEAN]
      /\ lost \in [Passes -> BOOLEAN] /\ abandoned \in [Passes -> BOOLEAN]
      /\ stale \in [Passes -> BOOLEAN] /\ killed \in [Passes -> BOOLEAN]
  BY DEF Init
<1> QED BY <1>1, <1>2, <1>3, <1>4 DEF TypeOK

LEMMA Names ==
  /\ {"none", "ok", "ready", "notready", "rejected", "editor", "error"} \subseteq Replies
  /\ {"success", "noop", "failed"} \subseteq Status
  /\ {"idle", "acquire", "commit", "record", "release"} \subseteq At
  /\ {"prepare", "publish", "abort", "start", "complete", "ended"} \subseteq Pc
  BY DEF Replies, Status, At, Pc, Calls

LEMMA ReturnType ==
  ASSUME TypeOK, NEW p \in Passes, NEW r \in Replies, Return(p, r)
  PROVE  reply' \in [Passes -> Replies]
  BY DEF TypeOK, Return, Set

LEMMA RecordType ==
  ASSUME TypeOK, NEW p \in Passes, NEW s \in Status, Record(p, s)
  PROVE  rows' \in [Passes -> Seq(Status)]
<1>1. rows[p] \in Seq(Status)
  BY DEF TypeOK
<1>2. Append(rows[p], s) \in Seq(Status)
  BY <1>1
<1> QED BY <1>2 DEF Record, TypeOK

\* How an engaged pass stands.
LEMMA EngagesType ==
  ASSUME TypeOK, NEW p \in Passes, Engages(p)
  PROVE  /\ lease' \in Passes \cup {NoHolder} /\ at' \in [Passes -> At]
         /\ engaged' \in [Passes -> BOOLEAN] /\ stale' \in [Passes -> BOOLEAN]
  BY Names DEF TypeOK, Engages, Set

LEMMA PrepareType ==
  ASSUME TypeOK, NEW p \in Passes,
         PrepareReads(p) \/ PrepareNoop(p) \/ Prepare(p) \/ PrepareThrows(p) \/ CallFails(p)
  PROVE  TypeOK'
<1> USE Names
<1>1. CASE PrepareReads(p)
  <2>1. at' \in [Passes -> At] /\ base' \in [Passes -> Nat]
    BY <1>1 DEF PrepareReads, TypeOK, Set
  <2> QED BY <1>1, <2>1 DEF PrepareReads, TypeOK, storeVars, engineVars, pendingVars
<1>2. CASE PrepareNoop(p)
  <2>1. at' \in [Passes -> At]
    BY <1>2 DEF PrepareNoop, TypeOK, Set
  <2> QED BY <1>2, <2>1, ReturnType, RecordType DEF PrepareNoop, TypeOK, engineVars, pendingVars, history
<1>3. CASE Prepare(p)
  <2>1. inProgress' \in BOOLEAN /\ pending' \in [Passes -> BOOLEAN]
    BY <1>3 DEF Prepare, TypeOK, Set
  <2> QED BY <1>3, <2>1, ReturnType, EngagesType DEF Prepare, TypeOK, engineVars
<1>4. CASE PrepareThrows(p)
  <2>1. abandoned' \in [Passes -> BOOLEAN]
    BY <1>4 DEF PrepareThrows, TypeOK, Set
  <2> QED BY <1>4, <2>1, ReturnType, EngagesType DEF PrepareThrows, TypeOK, engineVars, pendingVars
<1>5. CASE CallFails(p)
  <2>1. at' \in [Passes -> At]
    BY <1>5 DEF CallFails, TypeOK, Set
  <2> QED BY <1>5, <2>1, ReturnType DEF CallFails, TypeOK, storeVars, engineVars, pendingVars, history
<1> QED BY <1>1, <1>2, <1>3, <1>4, <1>5

LEMMA PendingType ==
  ASSUME TypeOK, NEW p \in Passes, PendingGone(p)
  PROVE  /\ pending' \in [Passes -> BOOLEAN] /\ draft' \in [Passes -> BOOLEAN]
         /\ recorded' \in [Passes -> BOOLEAN]
  BY DEF TypeOK, PendingGone, Set

LEMMA PublishType ==
  ASSUME TypeOK, NEW p \in Passes,
         \/ PublishRejected(p) \/ PublishDrafted(p) \/ PublishAccepted(p)
         \/ PublishCommit(p) \/ PublishRecord(p)
         \/ PublishRelease(p) \/ PublishThrows(p)
  PROVE  TypeOK'
<1> USE Names
<1>1. CASE PublishRejected(p)
  BY <1>1, ReturnType DEF PublishRejected, TypeOK, storeVars, engineVars, sideVars, pendingVars, history
<1>2. CASE PublishDrafted(p)
  BY <1>2, ReturnType DEF PublishDrafted, TypeOK, Set, storeVars, engineVars, history
<1>3. CASE PublishAccepted(p)
  <2>1. at' \in [Passes -> At]
    BY <1>3 DEF PublishAccepted, TypeOK, Set
  <2>2. UNCHANGED <<storeVars, engineVars, side, pendingVars, reply, history>>
    BY <1>3 DEF PublishAccepted
  <2> QED BY <2>1, <2>2 DEF TypeOK, storeVars, engineVars, pendingVars, history
<1>4. CASE PublishCommit(p)
  BY <1>4 DEF PublishCommit, TypeOK, Set, engineVars, pendingVars
<1>5. CASE PublishRecord(p)
  BY <1>5, RecordType DEF PublishRecord, TypeOK, Set, engineVars, history
<1>6. CASE PublishRelease(p)
  <2>1. lease' \in Passes \cup {NoHolder}
    BY <1>6 DEF PublishRelease, Release, TypeOK
  <2>2. at' \in [Passes -> At] /\ reply' \in [Passes -> Replies]
    BY <1>6, ReturnType DEF PublishRelease, TypeOK, Set
  <2> QED BY <1>6, <2>1, <2>2, PendingType DEF PublishRelease, TypeOK, engineVars, history
<1>7. CASE PublishThrows(p)
  <2>1. reply' \in [Passes -> Replies]
    BY <1>7, ReturnType DEF PublishThrows
  <2>2. at' \in [Passes -> At]
    BY <1>7 DEF PublishThrows, TypeOK, Set
  <2>3. inProgress' \in BOOLEAN
    BY <1>7 DEF PublishThrows, TypeOK, storeVars
  <2>4. UNCHANGED <<lease, length, rows, engineVars, side, pendingVars, history>>
    BY <1>7 DEF PublishThrows
  <2> QED BY <2>1, <2>2, <2>3, <2>4 DEF TypeOK, engineVars, pendingVars, history
<1> QED BY <1>1, <1>2, <1>3, <1>4, <1>5, <1>6, <1>7

LEMMA AbortType ==
  ASSUME TypeOK, NEW p \in Passes, Abort(p) \/ AbortThrows(p)
  PROVE  TypeOK'
<1> USE Names
<1>1. CASE Abort(p)
  <2>1. rows' \in [Passes -> Seq(Status)]
    BY <1>1, RecordType DEF Abort, TypeOK
  <2>2. lease' \in Passes \cup {NoHolder}
    BY <1>1 DEF Abort, Release, TypeOK
  <2> QED BY <1>1, <2>1, <2>2, ReturnType, PendingType DEF Abort, TypeOK, engineVars, history
<1>2. CASE AbortThrows(p)
  <2>1. abandoned' \in [Passes -> BOOLEAN]
    BY <1>2 DEF AbortThrows, TypeOK, Set
  <2> QED BY <1>2, <2>1, ReturnType DEF AbortThrows, TypeOK, storeVars, engineVars, sideVars, pendingVars
<1> QED BY <1>1, <1>2

LEMMA GoneType ==
  ASSUME TypeOK, NEW p \in Passes, SidecarGone(p)
  PROVE  /\ side' \in [Passes -> {"down", "bound"}]
         /\ at' \in [Passes -> At]
         /\ pending' \in [Passes -> BOOLEAN]
         /\ draft' \in [Passes -> BOOLEAN]
         /\ recorded' \in [Passes -> BOOLEAN]
         /\ reply' \in [Passes -> Replies]
  BY Names, PendingType DEF TypeOK, SidecarGone, Set

LEMMA EndType ==
  ASSUME TypeOK, NEW p \in Passes, End(p)
  PROVE  /\ pc' \in [Passes -> Pc] /\ beat' \in [Passes -> BOOLEAN]
         /\ killed' \in [Passes -> BOOLEAN]
         /\ round' \in [Passes -> {"first", "repair", "edit"}]
         /\ outcome' \in [Passes -> {"none", "failed", "budget"}]
  BY Names DEF TypeOK, End, Set

LEMMA CallType ==
  ASSUME TypeOK, NEW p \in Passes, NEW m \in Pc, Call(p, m)
  PROVE  pc' \in [Passes -> Pc] /\ reply' \in [Passes -> Replies]
  BY Names DEF TypeOK, Call, Set

LEMMA ToAbortType ==
  ASSUME TypeOK, NEW p \in Passes, NEW w \in {"failed", "budget"}, ToAbort(p, w)
  PROVE  /\ pc' \in [Passes -> Pc] /\ beat' \in [Passes -> BOOLEAN]
         /\ outcome' \in [Passes -> {"none", "failed", "budget"}]
  BY Names DEF TypeOK, ToAbort, Set

LEMMA AbandonType ==
  ASSUME TypeOK, NEW p \in Passes, abandoned' = Set(abandoned, p, abandoned[p] \/ pending[p])
  PROVE  abandoned' \in [Passes -> BOOLEAN]
  BY DEF TypeOK, Set

LEMMA EngineType ==
  ASSUME TypeOK, NEW p \in Passes, Engine(p)
  PROVE  TypeOK'
<1> USE Names
<1>1. CASE StopEarly(p) \/ NothingPrepared(p) \/ PublishReturns(p) \/ AbortReturns(p)
  <2>1. End(p) /\ UNCHANGED <<storeVars, history>>
    BY <1>1 DEF StopEarly, NothingPrepared, PublishReturns, AbortReturns
  <2> QED BY <2>1, EndType, GoneType DEF End, TypeOK, storeVars, history
<1>2. CASE Begin(p)
  <2>1. side' \in [Passes -> {"down", "bound"}]
    BY <1>2 DEF Begin, TypeOK, Set
  <2> QED BY <1>2, <2>1, CallType DEF Begin, TypeOK, storeVars, pendingVars, history
<1>3. CASE Complete(p)
  BY <1>3, CallType DEF Complete, TypeOK, storeVars, sideVars, pendingVars, history
<1>4. CASE PrepareReturns(p)
  BY <1>4, CallType DEF PrepareReturns, TypeOK, Set, storeVars, sideVars, pendingVars, history
<1>5. CASE Repair(p) \/ Edit(p)
  <2>1. Call(p, "complete") /\ UNCHANGED <<storeVars, outcome, beat, killed, sideVars, history>>
    BY <1>5 DEF Repair, Edit
  <2>2. round' \in [Passes -> {"first", "repair", "edit"}]
    <3>1. round' = Set(round, p, "repair") \/ round' = Set(round, p, "edit")
      BY <1>5 DEF Repair, Edit
    <3>2. round \in [Passes -> {"first", "repair", "edit"}]
      BY DEF TypeOK
    <3> QED BY <3>1, <3>2 DEF Set
  <2>3. pc' \in [Passes -> Pc] /\ reply' \in [Passes -> Replies]
    BY <2>1, CallType
  <2>4. /\ UNCHANGED <<lease, inProgress, length, rows, outcome, beat, killed, side, at>>
        /\ UNCHANGED <<pending, draft, recorded, base, committed, engaged, stale, lost, abandoned>>
    BY <2>1 DEF storeVars, sideVars, pendingVars, history
  <2> QED BY <2>2, <2>3, <2>4 DEF TypeOK
<1>6. CASE CompleteStops(p) \/ PublishFails(p)
  <2>1. /\ \E why \in {"failed", "budget"} : ToAbort(p, why)
        /\ reply' = Set(reply, p, "none")
        /\ UNCHANGED <<storeVars, round, killed, sideVars, history>>
    BY <1>6 DEF CompleteStops, PublishFails
  <2>2. reply' \in [Passes -> Replies]
    BY <2>1 DEF TypeOK, Set
  <2> QED BY <2>1, <2>2, ToAbortType DEF TypeOK, storeVars, sideVars, pendingVars, history
<1>7. CASE CallLost(p)
  <2>1. /\ pc' \in [Passes -> Pc] /\ beat' \in [Passes -> BOOLEAN]
        /\ killed' \in [Passes -> BOOLEAN]
        /\ round' \in [Passes -> {"first", "repair", "edit"}]
        /\ outcome' \in [Passes -> {"none", "failed", "budget"}]
        /\ SidecarGone(p)
    BY <1>7, EndType, ToAbortType DEF CallLost, End, TypeOK
  <2>2. abandoned' \in [Passes -> BOOLEAN]
    BY <1>7, AbandonType DEF CallLost
  <2> QED BY <1>7, <2>1, <2>2, GoneType DEF CallLost, TypeOK, storeVars
<1> QED BY <1>1, <1>2, <1>3, <1>4, <1>5, <1>6, <1>7 DEF Engine

LEMMA EnvironmentType ==
  ASSUME TypeOK, NEW p \in Passes, Environment(p)
  PROVE  TypeOK'
<1>1. CASE HeartbeatStops(p)
  <2>1. beat' \in [Passes -> BOOLEAN]
    BY <1>1 DEF HeartbeatStops, TypeOK, Set
  <2>2. CASE UNCHANGED <<sideVars, reply, abandoned>>
    BY <1>1, <2>1, <2>2 DEF HeartbeatStops, TypeOK, storeVars, sideVars, pendingVars
  <2>3. CASE SidecarGone(p) /\ abandoned' = Set(abandoned, p, abandoned[p] \/ pending[p])
    BY <1>1, <2>1, <2>3, GoneType, AbandonType DEF HeartbeatStops, TypeOK, storeVars
  <2> QED BY <1>1, <2>2, <2>3 DEF HeartbeatStops
<1>2. CASE SidecarDies(p)
  BY <1>2, GoneType, AbandonType DEF SidecarDies, TypeOK, storeVars, engineVars
<1>3. CASE HostDies(p)
  <2>1. killed' \in [Passes -> BOOLEAN] /\ beat' \in [Passes -> BOOLEAN]
    BY <1>3 DEF HostDies, TypeOK, Set
  <2> QED BY <1>3, <2>1 DEF HostDies, TypeOK, storeVars, sideVars, pendingVars, history
<1>4. CASE HostGone(p)
  BY <1>4, EndType, GoneType, AbandonType DEF HostGone, End, TypeOK, storeVars
<1>5. CASE LeaseExpires(p)
  <2>1. lost' \in [Passes -> BOOLEAN]
    BY <1>5 DEF LeaseExpires, TypeOK, Set
  <2> QED BY <1>5, <2>1 DEF LeaseExpires, TypeOK, engineVars, sideVars, pendingVars
<1> QED BY <1>1, <1>2, <1>3, <1>4, <1>5 DEF Environment

LEMMA TypeStep == TypeOK /\ [Next]_vars => TypeOK'
<1>1. CASE UNCHANGED vars
  BY <1>1 DEF TypeOK, vars, storeVars, engineVars, sideVars, pendingVars, history
<1> QED BY <1>1, PrepareType, PublishType, AbortType, EngineType, EnvironmentType DEF Next, Handler

\* Every variable keeps its type.
THEOREM HistorianTypeCorrect == Spec => []TypeOK
  BY TypeInit, TypeStep, PTL DEF Spec

-----------------------------------------------------------------------------
(* A step of one pass leaves the others as they are: their own state, and  *)
(* whether the lease is theirs.                                            *)

Untouched(q) ==
  /\ pc'[q] = pc[q] /\ side'[q] = side[q] /\ reply'[q] = reply[q] /\ at'[q] = at[q]
  /\ pending'[q] = pending[q] /\ recorded'[q] = recorded[q] /\ rows'[q] = rows[q]
  /\ base'[q] = base[q] /\ committed'[q] = committed[q] /\ engaged'[q] = engaged[q]
  /\ stale'[q] = stale[q] /\ lost'[q] = lost[q] /\ abandoned'[q] = abandoned[q]
  /\ lease' = q <=> lease = q
  /\ length <= length'

LEMMA HandlerIsLocal ==
  ASSUME TypeOK, NEW p \in Passes, NEW q \in Passes, p # q, Handler(p)
  PROVE  Untouched(q)
<1> USE PassesAssumption DEF TypeOK, Untouched, Set, Return, Record, Release, PendingGone,
        Engages, storeVars, engineVars, sideVars, pendingVars, history
<1>1. CASE PrepareReads(p) \/ PrepareNoop(p) \/ CallFails(p)
  BY <1>1 DEF PrepareReads, PrepareNoop, CallFails
<1>2. CASE Prepare(p)
  <2>1. (lease' = q <=> lease = q) /\ length <= length'
    BY <1>2 DEF Prepare
  <2> QED BY <1>2, <2>1 DEF Prepare
<1>3. CASE PrepareThrows(p)
  <2>1. (lease' = q <=> lease = q) /\ length <= length'
    BY <1>3 DEF PrepareThrows
  <2> QED BY <1>3, <2>1 DEF PrepareThrows
<1>4. CASE PublishRejected(p) \/ PublishDrafted(p) \/ PublishAccepted(p)
  BY <1>4 DEF PublishRejected, PublishDrafted, PublishAccepted
<1>5. CASE PublishCommit(p)
  <2>1. (lease' = q <=> lease = q) /\ length <= length'
    BY <1>5 DEF PublishCommit
  <2> QED BY <1>5, <2>1 DEF PublishCommit
<1>6. CASE PublishRecord(p)
  <2>1. rows'[q] = rows[q] /\ recorded'[q] = recorded[q] /\ at'[q] = at[q]
    BY <1>6 DEF PublishRecord
  <2>2. UNCHANGED <<lease, length, pc, side, reply, pending>>
    BY <1>6 DEF PublishRecord
  <2>3. UNCHANGED <<base, committed, engaged, stale, lost, abandoned>>
    BY <1>6 DEF PublishRecord
  <2> QED BY <2>1, <2>2, <2>3
<1>7. CASE PublishRelease(p)
  <2>1. (lease' = q <=> lease = q) /\ length <= length'
    BY <1>7 DEF PublishRelease
  <2>2. /\ pending'[q] = pending[q] /\ recorded'[q] = recorded[q]
        /\ reply'[q] = reply[q] /\ at'[q] = at[q]
    <3>1. pending' = Set(pending, p, FALSE) /\ recorded' = Set(recorded, p, FALSE)
      BY <1>7 DEF PublishRelease
    <3>2. \E r \in {"ok", "error"} : reply' = Set(reply, p, r)
      BY <1>7 DEF PublishRelease
    <3>3. at' = Set(at, p, "idle")
      BY <1>7 DEF PublishRelease
    <3> QED BY <3>1, <3>2, <3>3
  <2>3. UNCHANGED <<pc, side, rows, base, committed, engaged, stale, lost, abandoned>>
    BY <1>7 DEF PublishRelease
  <2> QED BY <2>1, <2>2, <2>3
<1>8. CASE PublishThrows(p) \/ AbortThrows(p)
  BY <1>8 DEF PublishThrows, AbortThrows
<1>9. CASE Abort(p)
  <2>1. (lease' = q <=> lease = q) /\ length <= length'
    BY <1>9 DEF Abort
  <2> QED BY <1>9, <2>1 DEF Abort
<1> QED BY <1>1, <1>2, <1>3, <1>4, <1>5, <1>6, <1>7, <1>8, <1>9 DEF Handler

LEMMA EngineIsLocal ==
  ASSUME TypeOK, NEW p \in Passes, NEW q \in Passes, p # q, Engine(p) \/ Environment(p)
  PROVE  Untouched(q)
<1> USE PassesAssumption DEF TypeOK, Untouched, Set, Call, End, ToAbort, SidecarGone, PendingGone,
        storeVars, engineVars, sideVars, pendingVars, history
<1>1. CASE StopEarly(p) \/ NothingPrepared(p) \/ PublishReturns(p) \/ AbortReturns(p)
  BY <1>1 DEF StopEarly, NothingPrepared, PublishReturns, AbortReturns
<1>2. CASE Begin(p) \/ PrepareReturns(p) \/ Complete(p) \/ Repair(p) \/ Edit(p)
  BY <1>2 DEF Begin, PrepareReturns, Complete, Repair, Edit
<1>3. CASE CompleteStops(p) \/ PublishFails(p)
  BY <1>3 DEF CompleteStops, PublishFails
<1>4. CASE CallLost(p)
  BY <1>4 DEF CallLost
<1>5. CASE HeartbeatStops(p)
  BY <1>5 DEF HeartbeatStops
<1>6. CASE SidecarDies(p) \/ HostDies(p) \/ HostGone(p)
  BY <1>6 DEF SidecarDies, HostDies, HostGone
<1>7. CASE LeaseExpires(p)
  BY <1>7 DEF LeaseExpires
<1> QED BY <1>1, <1>2, <1>3, <1>4, <1>5, <1>6, <1>7 DEF Engine, Environment

LEMMA UntouchedPass ==
  ASSUME TypeOK, TypeOK', NEW q \in Passes, Untouched(q), PassInv(q)
  PROVE  PassInv(q)'
<1>1. Phase(q)'
  BY DEF PassInv, Phase, Untouched
<1>2. Recorded(q)'
  BY DEF PassInv, Recorded, Untouched
<1>3. Cleaned(q)'
  BY DEF PassInv, Cleaned, Untouched
<1>4. Leased(q)'
  <2>1. base[q] \in Nat /\ length \in Nat /\ length' \in Nat
    BY DEF TypeOK
  <2> QED BY <2>1 DEF PassInv, Leased, Untouched
<1> QED BY <1>1, <1>2, <1>3, <1>4 DEF PassInv

-----------------------------------------------------------------------------
(* A step of a pass keeps its own invariant, conjunct by conjunct.         *)

\* The handlers, and Phase.
LEMMA HandlerPhase ==
  ASSUME TypeOK, NEW p \in Passes, PassInv(p), Handler(p)
  PROVE  Phase(p)'
<1> USE PassesAssumption DEF TypeOK, PassInv, Set, Return, Called, Phase, Calls, Preparing, Engages, PendingGone, Publishing, Record, storeVars, engineVars,
        sideVars, pendingVars, history
<1>1. CASE PrepareReads(p)
  BY <1>1 DEF PrepareReads
<1>2. CASE PrepareNoop(p)
  BY <1>2 DEF PrepareNoop
<1>3. CASE Prepare(p)
  BY <1>3 DEF Prepare
<1>4. CASE PrepareThrows(p)
  BY <1>4 DEF PrepareThrows
<1>5. CASE CallFails(p)
  BY <1>5 DEF CallFails
<1>6. CASE PublishRejected(p)
  BY <1>6 DEF PublishRejected
<1>7. CASE PublishDrafted(p)
  BY <1>7 DEF PublishDrafted
<1>8. CASE PublishAccepted(p)
  BY <1>8 DEF PublishAccepted
<1>9. CASE PublishCommit(p)
  BY <1>9 DEF PublishCommit
<1>10. CASE PublishRecord(p)
  BY <1>10 DEF PublishRecord
<1>11. CASE PublishRelease(p)
  BY <1>11 DEF PublishRelease
<1>12. CASE PublishThrows(p)
  BY <1>12 DEF PublishThrows
<1>13. CASE Abort(p)
  <2>1. /\ ~pending'[p] /\ reply'[p] = "ok"
        /\ UNCHANGED <<pc, side, at, engaged, abandoned>>
    BY <1>13 DEF Abort
  <2>2. pc[p] = "abort" /\ reply[p] = "none"
    BY <1>13 DEF Abort
  <2>3. at[p] = "idle"
    BY <2>2 DEF At
  <2> QED BY <2>1, <2>2, <2>3
<1>14. CASE AbortThrows(p)
  <2>1. /\ UNCHANGED <<pc, side, at, engaged, pending>>
        /\ reply'[p] = "error" /\ (pending[p] => abandoned'[p])
    BY <1>14 DEF AbortThrows
  <2>2. pc[p] = "abort" /\ reply[p] = "none"
    BY <1>14 DEF AbortThrows
  <2>3. at[p] = "idle"
    BY <2>2 DEF At
  <2> QED BY <2>1, <2>2, <2>3
<1> QED BY <1>1, <1>2, <1>3, <1>4, <1>5, <1>6, <1>7, <1>8, <1>9, <1>10, <1>11, <1>12, <1>13, <1>14 DEF Handler

\* The engine, and Phase.
LEMMA EnginePhase ==
  ASSUME TypeOK, NEW p \in Passes, PassInv(p), Engine(p)
  PROVE  Phase(p)'
<1> USE PassesAssumption DEF TypeOK, PassInv, Set, Call, End, ToAbort, SidecarGone, PendingGone, Phase, Calls, storeVars, engineVars,
        sideVars, pendingVars, history
<1>1. CASE StopEarly(p)
  BY <1>1 DEF StopEarly
<1>2. CASE Begin(p)
  BY <1>2 DEF Begin
<1>3. CASE PrepareReturns(p)
  BY <1>3 DEF PrepareReturns
<1>4. CASE NothingPrepared(p)
  BY <1>4 DEF NothingPrepared
<1>5. CASE Complete(p)
  BY <1>5 DEF Complete
<1>6. CASE CompleteStops(p)
  BY <1>6 DEF CompleteStops
<1>7. CASE Repair(p)
  BY <1>7 DEF Repair
<1>8. CASE Edit(p)
  BY <1>8 DEF Edit
<1>9. CASE PublishFails(p)
  BY <1>9 DEF PublishFails
<1>10. CASE PublishReturns(p)
  BY <1>10 DEF PublishReturns
<1>11. CASE AbortReturns(p)
  BY <1>11 DEF AbortReturns
<1>12. CASE CallLost(p)
  BY <1>12 DEF CallLost
<1> QED BY <1>1, <1>2, <1>3, <1>4, <1>5, <1>6, <1>7, <1>8, <1>9, <1>10, <1>11, <1>12 DEF Engine

\* The environment, and Phase.
LEMMA EnvironmentPhase ==
  ASSUME TypeOK, NEW p \in Passes, PassInv(p), Environment(p)
  PROVE  Phase(p)'
<1> USE PassesAssumption DEF TypeOK, PassInv, Set, Call, End, ToAbort, SidecarGone, PendingGone, Phase, Calls, storeVars, engineVars,
        sideVars, pendingVars, history
<1>1. CASE HeartbeatStops(p)
  BY <1>1 DEF HeartbeatStops
<1>2. CASE SidecarDies(p)
  BY <1>2 DEF SidecarDies
<1>3. CASE HostDies(p)
  BY <1>3 DEF HostDies
<1>4. CASE HostGone(p)
  BY <1>4 DEF HostGone
<1>5. CASE LeaseExpires(p)
  BY <1>5 DEF LeaseExpires
<1> QED BY <1>1, <1>2, <1>3, <1>4, <1>5 DEF Environment

\* The handlers, and Recorded.
LEMMA HandlerRecorded ==
  ASSUME TypeOK, NEW p \in Passes, PassInv(p), Handler(p)
  PROVE  Recorded(p)'
<1> USE PassesAssumption DEF TypeOK, PassInv, Set, Return, Called, Phase, Recorded, Preparing, Engages, PendingGone, Publishing, Record, Success, storeVars, engineVars,
        sideVars, pendingVars, history
<1>1. CASE PrepareReads(p)
  BY <1>1 DEF PrepareReads
<1>2. CASE PrepareNoop(p)
  BY <1>2 DEF PrepareNoop
<1>3. CASE Prepare(p)
  BY <1>3 DEF Prepare
<1>4. CASE PrepareThrows(p)
  BY <1>4 DEF PrepareThrows
<1>5. CASE CallFails(p)
  BY <1>5 DEF CallFails
<1>6. CASE PublishRejected(p)
  BY <1>6 DEF PublishRejected
<1>7. CASE PublishDrafted(p)
  BY <1>7 DEF PublishDrafted
<1>8. CASE PublishAccepted(p)
  BY <1>8 DEF PublishAccepted
<1>9. CASE PublishCommit(p)
  BY <1>9 DEF PublishCommit
<1>10. CASE PublishRecord(p)
  BY <1>10 DEF PublishRecord
<1>11. CASE PublishRelease(p)
  BY <1>11 DEF PublishRelease
<1>12. CASE PublishThrows(p)
  BY <1>12 DEF PublishThrows
<1>13. CASE Abort(p)
  BY <1>13 DEF Abort
<1>14. CASE AbortThrows(p)
  BY <1>14 DEF AbortThrows
<1> QED BY <1>1, <1>2, <1>3, <1>4, <1>5, <1>6, <1>7, <1>8, <1>9, <1>10, <1>11, <1>12, <1>13, <1>14 DEF Handler

\* The engine, and Recorded.
LEMMA EngineRecorded ==
  ASSUME TypeOK, NEW p \in Passes, PassInv(p), Engine(p)
  PROVE  Recorded(p)'
<1> USE PassesAssumption DEF TypeOK, PassInv, Set, Call, End, ToAbort, SidecarGone, PendingGone, Phase, Recorded, storeVars, engineVars,
        sideVars, pendingVars, history
<1>1. CASE StopEarly(p)
  BY <1>1 DEF StopEarly
<1>2. CASE Begin(p)
  BY <1>2 DEF Begin
<1>3. CASE PrepareReturns(p)
  BY <1>3 DEF PrepareReturns
<1>4. CASE NothingPrepared(p)
  BY <1>4 DEF NothingPrepared
<1>5. CASE Complete(p)
  BY <1>5 DEF Complete
<1>6. CASE CompleteStops(p)
  BY <1>6 DEF CompleteStops
<1>7. CASE Repair(p)
  BY <1>7 DEF Repair
<1>8. CASE Edit(p)
  BY <1>8 DEF Edit
<1>9. CASE PublishFails(p)
  BY <1>9 DEF PublishFails
<1>10. CASE PublishReturns(p)
  BY <1>10 DEF PublishReturns
<1>11. CASE AbortReturns(p)
  BY <1>11 DEF AbortReturns
<1>12. CASE CallLost(p)
  BY <1>12 DEF CallLost
<1> QED BY <1>1, <1>2, <1>3, <1>4, <1>5, <1>6, <1>7, <1>8, <1>9, <1>10, <1>11, <1>12 DEF Engine

\* The environment, and Recorded.
LEMMA EnvironmentRecorded ==
  ASSUME TypeOK, NEW p \in Passes, PassInv(p), Environment(p)
  PROVE  Recorded(p)'
<1> USE PassesAssumption DEF TypeOK, PassInv, Set, Call, End, ToAbort, SidecarGone, PendingGone, Phase, Recorded, storeVars, engineVars,
        sideVars, pendingVars, history
<1>1. CASE HeartbeatStops(p)
  BY <1>1 DEF HeartbeatStops
<1>2. CASE SidecarDies(p)
  BY <1>2 DEF SidecarDies
<1>3. CASE HostDies(p)
  BY <1>3 DEF HostDies
<1>4. CASE HostGone(p)
  BY <1>4 DEF HostGone
<1>5. CASE LeaseExpires(p)
  BY <1>5 DEF LeaseExpires
<1> QED BY <1>1, <1>2, <1>3, <1>4, <1>5 DEF Environment

\* An abort of a pass that has no row yet writes one.
LEMMA AbortWrites ==
  ASSUME TypeOK, NEW p \in Passes, Abort(p), pending[p], ~recorded[p]
  PROVE  rows'[p] # <<>>
<1>1. PICK row \in Status : rows' = [rows EXCEPT ![p] = Append(@, row)]
  BY Names DEF Abort, Record
<1>2. rows'[p] = Append(rows[p], row)
  BY <1>1 DEF TypeOK
<1>3. rows[p] \in Seq(Status)
  BY DEF TypeOK
<1>4. Len(rows'[p]) = Len(rows[p]) + 1 /\ Len(rows[p]) \in Nat
  BY <1>2, <1>3
<1>5. Len(<<>>) = 0
  OBVIOUS
<1> QED BY <1>4, <1>5

\* A pending pass that is recorded has its row.
LEMMA RecordedHasRow ==
  ASSUME TypeOK, NEW p \in Passes, PassInv(p), pending[p], recorded[p]
  PROVE  rows[p] # <<>>
<1>1. rows[p] = <<"success">>
  BY DEF PassInv, Recorded, Success
<1>2. <<"success">> # <<>>
  OBVIOUS
<1> QED BY <1>1, <1>2, Zenon

\* The handlers, and Cleaned.
LEMMA HandlerCleaned ==
  ASSUME TypeOK, NEW p \in Passes, PassInv(p), Handler(p)
  PROVE  Cleaned(p)'
<1> USE PassesAssumption DEF TypeOK, PassInv, Set, Return, Called, Phase, Recorded, Cleaned, Preparing, Engages, PendingGone, Publishing, Record, Release, Success, storeVars, engineVars,
        sideVars, pendingVars, history
<1>1. CASE PrepareReads(p)
  BY <1>1 DEF PrepareReads
<1>2. CASE PrepareNoop(p)
  BY <1>2 DEF PrepareNoop
<1>3. CASE Prepare(p)
  BY <1>3 DEF Prepare
<1>4. CASE PrepareThrows(p)
  BY <1>4 DEF PrepareThrows
<1>5. CASE CallFails(p)
  BY <1>5 DEF CallFails
<1>6. CASE PublishRejected(p)
  BY <1>6 DEF PublishRejected
<1>7. CASE PublishDrafted(p)
  BY <1>7 DEF PublishDrafted
<1>8. CASE PublishAccepted(p)
  BY <1>8 DEF PublishAccepted
<1>9. CASE PublishCommit(p)
  BY <1>9 DEF PublishCommit
<1>10. CASE PublishRecord(p)
  BY <1>10 DEF PublishRecord
<1>11. CASE PublishRelease(p)
  <2>1. pending[p] /\ recorded[p] /\ rows'[p] = rows[p]
    BY <1>11 DEF PublishRelease
  <2>2. lease' # p
    BY <1>11 DEF PublishRelease
  <2> QED BY <2>1, <2>2, RecordedHasRow
<1>12. CASE PublishThrows(p)
  BY <1>12 DEF PublishThrows
<1>13. CASE Abort(p)
  <2>1. CASE pending[p]
    <3>1. rows'[p] # <<>>
      <4>1. CASE recorded[p]
        <5>1. rows[p] # <<>>
          BY <2>1, <4>1, RecordedHasRow
        <5>2. rows' = rows
          BY <1>13, <2>1, <4>1 DEF Abort
        <5> QED BY <5>1, <5>2, Zenon
      <4>2. CASE ~recorded[p]
        BY <1>13, <2>1, <4>2, AbortWrites
      <4> QED BY <4>1, <4>2
    <3>2. lease' # p
      BY <1>13, <2>1 DEF Abort
    <3> QED BY <3>1, <3>2
  <2>2. CASE ~pending[p]
    BY <1>13, <2>2 DEF Abort
  <2> QED BY <2>1, <2>2
<1>14. CASE AbortThrows(p)
  BY <1>14 DEF AbortThrows
<1> QED BY <1>1, <1>2, <1>3, <1>4, <1>5, <1>6, <1>7, <1>8, <1>9, <1>10, <1>11, <1>12, <1>13, <1>14 DEF Handler

\* The engine, and Cleaned.
LEMMA EngineCleaned ==
  ASSUME TypeOK, NEW p \in Passes, PassInv(p), Engine(p)
  PROVE  Cleaned(p)'
<1> USE PassesAssumption DEF TypeOK, PassInv, Set, Call, End, ToAbort, SidecarGone, PendingGone, Phase, Cleaned, storeVars, engineVars,
        sideVars, pendingVars, history
<1>1. CASE StopEarly(p)
  BY <1>1 DEF StopEarly
<1>2. CASE Begin(p)
  BY <1>2 DEF Begin
<1>3. CASE PrepareReturns(p)
  BY <1>3 DEF PrepareReturns
<1>4. CASE NothingPrepared(p)
  BY <1>4 DEF NothingPrepared
<1>5. CASE Complete(p)
  BY <1>5 DEF Complete
<1>6. CASE CompleteStops(p)
  BY <1>6 DEF CompleteStops
<1>7. CASE Repair(p)
  BY <1>7 DEF Repair
<1>8. CASE Edit(p)
  BY <1>8 DEF Edit
<1>9. CASE PublishFails(p)
  BY <1>9 DEF PublishFails
<1>10. CASE PublishReturns(p)
  BY <1>10 DEF PublishReturns
<1>11. CASE AbortReturns(p)
  BY <1>11 DEF AbortReturns
<1>12. CASE CallLost(p)
  BY <1>12 DEF CallLost
<1> QED BY <1>1, <1>2, <1>3, <1>4, <1>5, <1>6, <1>7, <1>8, <1>9, <1>10, <1>11, <1>12 DEF Engine

\* The environment, and Cleaned.
LEMMA EnvironmentCleaned ==
  ASSUME TypeOK, NEW p \in Passes, PassInv(p), Environment(p)
  PROVE  Cleaned(p)'
<1> USE PassesAssumption DEF TypeOK, PassInv, Set, Call, End, ToAbort, SidecarGone, PendingGone, Phase, Cleaned, storeVars, engineVars,
        sideVars, pendingVars, history
<1>1. CASE HeartbeatStops(p)
  BY <1>1 DEF HeartbeatStops
<1>2. CASE SidecarDies(p)
  BY <1>2 DEF SidecarDies
<1>3. CASE HostDies(p)
  BY <1>3 DEF HostDies
<1>4. CASE HostGone(p)
  BY <1>4 DEF HostGone
<1>5. CASE LeaseExpires(p)
  BY <1>5 DEF LeaseExpires
<1> QED BY <1>1, <1>2, <1>3, <1>4, <1>5 DEF Environment

\* The handlers, and Leased.
LEMMA HandlerLeased ==
  ASSUME TypeOK, NEW p \in Passes, PassInv(p), Handler(p)
  PROVE  Leased(p)'
<1> USE PassesAssumption DEF TypeOK, PassInv, Set, Return, Called, Phase, Recorded, Leased, Preparing, Engages, PendingGone, Publishing, Release, storeVars, engineVars,
        sideVars, pendingVars, history
<1>1. CASE PrepareReads(p)
  BY <1>1 DEF PrepareReads
<1>2. CASE PrepareNoop(p)
  BY <1>2 DEF PrepareNoop
<1>3. CASE Prepare(p)
  BY <1>3 DEF Prepare
<1>4. CASE PrepareThrows(p)
  BY <1>4 DEF PrepareThrows
<1>5. CASE CallFails(p)
  BY <1>5 DEF CallFails
<1>6. CASE PublishRejected(p)
  BY <1>6 DEF PublishRejected
<1>7. CASE PublishDrafted(p)
  BY <1>7 DEF PublishDrafted
<1>8. CASE PublishAccepted(p)
  BY <1>8 DEF PublishAccepted
<1>9. CASE PublishCommit(p)
  <2>1. base[p] \in Nat /\ length \in Nat /\ base[p] <= length
    OBVIOUS
  <2>2. length' = length + 1 /\ base'[p] = base[p] /\ base'[p] < length'
    BY <1>9, <2>1 DEF PublishCommit
  <2> QED BY <1>9, <2>1, <2>2 DEF PublishCommit
<1>10. CASE PublishRecord(p)
  BY <1>10 DEF PublishRecord
<1>11. CASE PublishRelease(p)
  BY <1>11 DEF PublishRelease
<1>12. CASE PublishThrows(p)
  BY <1>12 DEF PublishThrows
<1>13. CASE Abort(p)
  BY <1>13 DEF Abort
<1>14. CASE AbortThrows(p)
  BY <1>14 DEF AbortThrows
<1> QED BY <1>1, <1>2, <1>3, <1>4, <1>5, <1>6, <1>7, <1>8, <1>9, <1>10, <1>11, <1>12, <1>13, <1>14 DEF Handler

\* The engine, and Leased.
LEMMA EngineLeased ==
  ASSUME TypeOK, NEW p \in Passes, PassInv(p), Engine(p)
  PROVE  Leased(p)'
<1> USE PassesAssumption DEF TypeOK, PassInv, Set, Call, End, ToAbort, SidecarGone, PendingGone, Leased, storeVars, engineVars,
        sideVars, pendingVars, history
<1>1. CASE StopEarly(p)
  BY <1>1 DEF StopEarly
<1>2. CASE Begin(p)
  BY <1>2 DEF Begin
<1>3. CASE PrepareReturns(p)
  BY <1>3 DEF PrepareReturns
<1>4. CASE NothingPrepared(p)
  BY <1>4 DEF NothingPrepared
<1>5. CASE Complete(p)
  BY <1>5 DEF Complete
<1>6. CASE CompleteStops(p)
  BY <1>6 DEF CompleteStops
<1>7. CASE Repair(p)
  BY <1>7 DEF Repair
<1>8. CASE Edit(p)
  BY <1>8 DEF Edit
<1>9. CASE PublishFails(p)
  BY <1>9 DEF PublishFails
<1>10. CASE PublishReturns(p)
  BY <1>10 DEF PublishReturns
<1>11. CASE AbortReturns(p)
  BY <1>11 DEF AbortReturns
<1>12. CASE CallLost(p)
  BY <1>12 DEF CallLost
<1> QED BY <1>1, <1>2, <1>3, <1>4, <1>5, <1>6, <1>7, <1>8, <1>9, <1>10, <1>11, <1>12 DEF Engine

\* The environment, and Leased.
LEMMA EnvironmentLeased ==
  ASSUME TypeOK, NEW p \in Passes, PassInv(p), Environment(p)
  PROVE  Leased(p)'
<1> USE PassesAssumption DEF TypeOK, PassInv, Set, Call, End, ToAbort, SidecarGone, PendingGone, Leased, storeVars, engineVars,
        sideVars, pendingVars, history
<1>1. CASE HeartbeatStops(p)
  BY <1>1 DEF HeartbeatStops
<1>2. CASE SidecarDies(p)
  BY <1>2 DEF SidecarDies
<1>3. CASE HostDies(p)
  BY <1>3 DEF HostDies
<1>4. CASE HostGone(p)
  BY <1>4 DEF HostGone
<1>5. CASE LeaseExpires(p)
  BY <1>5 DEF LeaseExpires
<1> QED BY <1>1, <1>2, <1>3, <1>4, <1>5 DEF Environment

LEMMA OwnStep ==
  ASSUME TypeOK, NEW p \in Passes, PassInv(p), Handler(p) \/ Engine(p) \/ Environment(p)
  PROVE  PassInv(p)'
<1>1. Phase(p)'
  BY HandlerPhase, EnginePhase, EnvironmentPhase
<1>2. Recorded(p)'
  BY HandlerRecorded, EngineRecorded, EnvironmentRecorded
<1>3. Cleaned(p)'
  BY HandlerCleaned, EngineCleaned, EnvironmentCleaned
<1>4. Leased(p)'
  BY HandlerLeased, EngineLeased, EnvironmentLeased
<1> QED BY <1>1, <1>2, <1>3, <1>4 DEF PassInv

-----------------------------------------------------------------------------
(* Two passes.  A pass becomes pending only from a store nobody leases, and *)
(* a pending pass that has not lost its lease still has it.                *)

\* What a step of p may do to its own stretch of the session: nothing, look at
\* it before the lease, begin it with the lease, or publish it.
Quiet(p) ==
  /\ base'[p] = base[p] /\ committed'[p] = committed[p]
  /\ (pending'[p] => pending[p]) /\ (lost[p] => lost'[p]) /\ (stale[p] => stale'[p])
Looks(p) ==
  /\ ~pending'[p] /\ ~committed[p] /\ committed'[p] = committed[p]
  /\ lost'[p] = lost[p]
Stretch(p) == Quiet(p) \/ Looks(p) \/ Prepare(p) \/ PublishCommit(p)

LEMMA HandlerStretch ==
  ASSUME TypeOK, NEW p \in Passes, PassInv(p), Handler(p)
  PROVE  Stretch(p)
<1> USE DEF TypeOK, Stretch, Quiet, Set, PendingGone, storeVars, engineVars, sideVars, pendingVars, history
<1>1. CASE PrepareNoop(p) \/ CallFails(p)
  BY <1>1 DEF PrepareNoop, CallFails
<1>2. CASE PrepareReads(p) \/ PrepareThrows(p)
  <2>1. ~pending[p] /\ ~committed[p]
    BY <1>2 DEF PrepareReads, PrepareThrows, Preparing, Called, PassInv, Phase, Recorded
  <2>2. pending' = pending /\ committed' = committed /\ lost' = lost
    BY <1>2 DEF PrepareReads, PrepareThrows
  <2> QED BY <2>1, <2>2 DEF Looks
<1>3. CASE PublishRejected(p) \/ PublishDrafted(p) \/ PublishAccepted(p)
  BY <1>3 DEF PublishRejected, PublishDrafted, PublishAccepted
<1>4. CASE PublishRecord(p) \/ PublishRelease(p)
  BY <1>4 DEF PublishRecord, PublishRelease
<1>5. CASE PublishThrows(p) \/ Abort(p) \/ AbortThrows(p)
  BY <1>5 DEF PublishThrows, Abort, AbortThrows
<1> QED BY <1>1, <1>2, <1>3, <1>4, <1>5 DEF Handler

LEMMA EngineStretch ==
  ASSUME TypeOK, NEW p \in Passes, Engine(p) \/ Environment(p)
  PROVE  Stretch(p)
<1> USE DEF TypeOK, Stretch, Quiet, Set, Call, End, ToAbort, SidecarGone, PendingGone,
        storeVars, engineVars, sideVars, pendingVars, history
<1>1. CASE StopEarly(p) \/ NothingPrepared(p) \/ PublishReturns(p) \/ AbortReturns(p)
  BY <1>1 DEF StopEarly, NothingPrepared, PublishReturns, AbortReturns
<1>2. CASE Begin(p) \/ PrepareReturns(p) \/ Complete(p) \/ Repair(p) \/ Edit(p)
  BY <1>2 DEF Begin, PrepareReturns, Complete, Repair, Edit
<1>3. CASE CompleteStops(p) \/ PublishFails(p) \/ CallLost(p)
  BY <1>3 DEF CompleteStops, PublishFails, CallLost
<1>4. CASE HeartbeatStops(p) \/ SidecarDies(p) \/ HostDies(p) \/ HostGone(p)
  BY <1>4 DEF HeartbeatStops, SidecarDies, HostDies, HostGone
<1>5. CASE LeaseExpires(p)
  BY <1>5 DEF LeaseExpires
<1> QED BY <1>1, <1>2, <1>3, <1>4, <1>5 DEF Engine, Environment

\* Apart, symmetrically: the only form the step needs.
Distinct(p, q) == Apart(p, q) /\ Apart(q, p)

LEMMA DistinctStep ==
  ASSUME TypeOK, NEW p \in Passes, NEW q \in Passes, p # q,
         PassInv(p), PassInv(q), Distinct(p, q), Stretch(p), Untouched(q)
  PROVE  Distinct(p, q)'
<1>1. CASE Quiet(p)
  BY <1>1 DEF Quiet, Distinct, Apart, Untouched
<1>2. CASE Prepare(p)
  <2>1. base'[p] = base[p] /\ committed'[p] = committed[p] /\ (~stale'[p] => base[p] = length)
    BY <1>2 DEF Prepare, Engages, TypeOK, Set
  <2>2. ~committed[p]
    BY <1>2 DEF Prepare, Preparing, Called, PassInv, Phase, Recorded
  <2>3. committed[q] => base[q] # length
    BY DEF PassInv, Leased, TypeOK
  <2> QED BY <2>1, <2>2, <2>3 DEF Distinct, Apart, Untouched
<1>3. CASE PublishCommit(p)
  <2>1. /\ base'[p] = base[p] /\ lost'[p] = lost[p] /\ stale'[p] = stale[p] /\ pending[p]
        /\ pending'[p] = pending[p] /\ committed'[p]
    BY <1>3 DEF PublishCommit, TypeOK, Set, PassInv, Phase, pendingVars
  <2>2. ~lost[p] => lease = p
    BY <2>1 DEF PassInv, Leased
  <2>3. pending[q] /\ ~lost[q] => lease = q
    BY DEF PassInv, Leased
  <2>4. ~(~lost[p] /\ ~lost[q] /\ pending[q])
    BY <2>2, <2>3
  <2> QED BY <2>1, <2>4 DEF Distinct, Apart, Untouched
<1>4. CASE Looks(p)
  BY <1>4 DEF Looks, Distinct, Apart, Untouched
<1> QED BY <1>1, <1>2, <1>3, <1>4 DEF Stretch

-----------------------------------------------------------------------------
LEMMA IInvInit == Init => IInv
<1> SUFFICES ASSUME Init PROVE IInv
  OBVIOUS
<1>1. TypeOK
  BY TypeInit
<1>2. ASSUME NEW p \in Passes PROVE PassInv(p)
  BY PassesAssumption DEF Init, PassInv, Phase, Recorded, Cleaned, Leased
<1>3. ASSUME NEW p \in Passes, NEW q \in Passes PROVE Apart(p, q)
  BY DEF Init, Apart
<1> QED BY <1>1, <1>2, <1>3 DEF IInv

LEMMA IInvStep == IInv /\ [Next]_vars => IInv'
<1> SUFFICES ASSUME IInv, [Next]_vars PROVE IInv'
  OBVIOUS
<1>1. TypeOK /\ TypeOK'
  BY TypeStep DEF IInv
<1>2. CASE UNCHANGED vars
  <2>1. ASSUME NEW q \in Passes PROVE PassInv(q)'
    BY <1>2 DEF IInv, PassInv, Phase, Recorded, Cleaned, Leased, vars, storeVars,
           engineVars, sideVars, pendingVars, history
  <2>2. ASSUME NEW p \in Passes, NEW q \in Passes PROVE Apart(p, q)'
    BY <1>2 DEF IInv, Apart, vars, sideVars, pendingVars, history
  <2> QED BY <1>1, <2>1, <2>2 DEF IInv
<1>3. ASSUME NEW p \in Passes, Handler(p) \/ Engine(p) \/ Environment(p)
      PROVE  IInv'
  <2>1. ASSUME NEW q \in Passes, p # q PROVE Untouched(q)
    BY <1>1, <1>3, <2>1, HandlerIsLocal, EngineIsLocal
  <2>2. Stretch(p)
    BY <1>1, <1>3, HandlerStretch, EngineStretch DEF IInv
  <2>3. ASSUME NEW q \in Passes PROVE PassInv(q)'
    <3>1. PassInv(q)
      BY DEF IInv
    <3>2. CASE q = p
      BY <1>1, <1>3, <3>1, <3>2, OwnStep
    <3>3. CASE q # p
      BY <1>1, <2>1, <3>1, <3>3, UntouchedPass
    <3> QED BY <3>2, <3>3
  <2>4. ASSUME NEW q \in Passes, q # p PROVE Distinct(p, q)'
    BY <1>1, <2>1, <2>2, <2>4, DistinctStep DEF IInv, Distinct
  <2>5. ASSUME NEW q \in Passes, NEW r \in Passes PROVE Apart(q, r)'
    <3>1. CASE q = r
      BY <3>1 DEF Apart
    <3>2. CASE q # r /\ (q = p \/ r = p)
      BY <2>4, <3>2 DEF Distinct
    <3>3. CASE q # p /\ r # p
      <4>1. Untouched(q) /\ Untouched(r) /\ Apart(q, r)
        BY <2>1, <3>3 DEF IInv
      <4> QED BY <4>1 DEF Apart, Untouched
    <3> QED BY <3>1, <3>2, <3>3
  <2> QED BY <1>1, <2>3, <2>5 DEF IInv
<1> QED BY <1>2, <1>3 DEF Next

LEMMA IInvAlways == Spec => []IInv
  BY IInvInit, IInvStep, PTL DEF Spec

-----------------------------------------------------------------------------
\* A pass writes at most one historian_runs row.
THEOREM OneRowPerPass == Spec => []AtMostOneRow
<1>1. IInv => AtMostOneRow
  <2>1. ASSUME IInv, NEW p \in Passes PROVE Len(rows[p]) <= 1
    BY <2>1 DEF IInv, PassInv, Recorded
  <2> QED BY <2>1, Zenon DEF AtMostOneRow
<1> QED BY <1>1, IInvAlways, PTL

\* A success row is written just for a pass that is published.
THEOREM RowsTellPublication == Spec => []RowTellsPublication
<1>1. IInv => RowTellsPublication
  <2> SUFFICES ASSUME IInv, NEW p \in Passes, NEW i \in 1..Len(rows[p])
               PROVE  rows[p][i] = "success" <=> committed[p]
    BY DEF RowTellsPublication
  <2>1. rows[p] \in Seq(Status) /\ Len(rows[p]) \in Nat
    BY DEF IInv, TypeOK
  <2>2. i = 1 /\ rows[p] # <<>>
    BY <2>1 DEF IInv, PassInv, Recorded
  <2> QED BY <2>2 DEF IInv, PassInv, Recorded
<1> QED BY <1>1, IInvAlways, PTL

\* A pass whose sidecar could clean up, even for a host that was killed, has
\* given back the lease and is recorded.
THEOREM PassesEndClean == Spec => []CleanEnd
<1>1. IInv => CleanEnd
  BY DEF IInv, PassInv, Phase, Cleaned, Leased, CleanEnd
<1> QED BY <1>1, IInvAlways, PTL

\* Passes that kept their leases, and took them on an up-to-date reading,
\* publish different stretches of the session.
THEOREM StretchesArePublishedOnce == Spec => []PublishedOnce
<1>1. IInv => PublishedOnce
  BY DEF IInv, Apart, PublishedOnce
<1> QED BY <1>1, IInvAlways, PTL
-----------------------------------------------------------------------------
(* The passes implement RunLedger.  One more fact about two passes is      *)
(* needed: while a pass keeps its reservation, the session grows only by   *)
(* passes that lost theirs.                                                *)

Overstayed == \E q \in Passes : lost[q] /\ committed[q]

GrowsByOverstayers ==
  \A p \in Passes :
    pending[p] /\ ~committed[p] /\ ~lost[p] /\ ~stale[p] => base[p] = length \/ Overstayed

\* Only a publication makes the session longer.
LEMMA LengthStays ==
  ASSUME NEW p \in Passes, Handler(p) \/ Engine(p) \/ Environment(p), ~PublishCommit(p)
  PROVE  length' = length
<1> USE DEF storeVars
<1>1. CASE PrepareReads(p) \/ PrepareNoop(p) \/ Prepare(p) \/ PrepareThrows(p) \/ CallFails(p)
  BY <1>1 DEF PrepareReads, PrepareNoop, Prepare, PrepareThrows, CallFails
<1>2. CASE \/ PublishRejected(p) \/ PublishDrafted(p) \/ PublishAccepted(p) \/ PublishRecord(p)
           \/ PublishRelease(p) \/ PublishThrows(p)
  BY <1>2 DEF PublishRejected, PublishDrafted, PublishAccepted, PublishRecord,
              PublishRelease, PublishThrows
<1>3. CASE Abort(p) \/ AbortThrows(p)
  BY <1>3 DEF Abort, AbortThrows
<1>4. CASE Engine(p)
  BY <1>4 DEF Engine, StopEarly, Begin, PrepareReturns, NothingPrepared, Complete,
              CompleteStops, Repair, Edit, PublishFails, PublishReturns, AbortReturns, CallLost
<1>5. CASE Environment(p)
  BY <1>5 DEF Environment, HeartbeatStops, SidecarDies, HostDies, HostGone, LeaseExpires
<1> QED BY <1>1, <1>2, <1>3, <1>4, <1>5 DEF Handler

LEMMA GrowthStep ==
  ASSUME IInv, GrowsByOverstayers, [Next]_vars
  PROVE  GrowsByOverstayers'
<1>1. TypeOK
  BY DEF IInv
<1>2. CASE UNCHANGED vars
  BY <1>2 DEF GrowsByOverstayers, Overstayed, vars, storeVars, sideVars, pendingVars, history
<1>3. ASSUME NEW p \in Passes, Handler(p) \/ Engine(p) \/ Environment(p)
      PROVE  GrowsByOverstayers'
  <2>1. ASSUME NEW q \in Passes, p # q PROVE Untouched(q)
    BY <1>1, <1>3, <2>1, HandlerIsLocal, EngineIsLocal
  <2>2. CASE PublishCommit(p)
    <3>1. pending[p] /\ length' = length + 1 /\ committed'[p] /\ lost' = lost
      BY <1>1, <2>2 DEF PublishCommit, IInv, PassInv, Phase, TypeOK, Set
    <3>2. SUFFICES ASSUME NEW q \in Passes, pending'[q], ~committed'[q], ~lost'[q]
                   PROVE  Overstayed'
      BY DEF GrowsByOverstayers
    <3>3. q # p /\ pending[q] /\ ~lost[q]
      BY <2>1, <3>1, <3>2 DEF Untouched
    <3>4. lost[p]
      BY <3>1, <3>3 DEF IInv, PassInv, Leased
    <3> QED BY <3>1, <3>4 DEF Overstayed
  <2>3. CASE Prepare(p)
    <3>1. base' = base /\ length' = length /\ (~stale'[p] => base[p] = length)
      BY <1>1, <2>3 DEF Prepare, Engages, TypeOK, Set
    <3>2. committed' = committed /\ lost' = lost
      BY <2>3 DEF Prepare
    <3>3. ASSUME NEW q \in Passes, q # p, pending'[q], ~committed'[q], ~lost'[q], ~stale'[q]
          PROVE  base'[q] = length' \/ Overstayed'
      BY <2>1, <3>1, <3>2, <3>3 DEF Untouched, GrowsByOverstayers, Overstayed
    <3> QED BY <3>1, <3>3 DEF GrowsByOverstayers
  <2>4. CASE ~PublishCommit(p) /\ ~Prepare(p)
    <3>1. Quiet(p) \/ Looks(p)
      BY <1>1, <1>3, <2>4, HandlerStretch, EngineStretch DEF Stretch, IInv
    <3>2. length' = length
      BY <1>3, <2>4, LengthStays
    <3>3. ASSUME NEW q \in Passes, pending'[q]
          PROVE  base'[q] = base[q] /\ pending[q] /\ (stale[q] => stale'[q])
      BY <2>1, <3>1, <3>3 DEF Untouched, Quiet, Looks
    <3>4. \A q \in Passes : committed'[q] = committed[q] /\ (lost[q] => lost'[q])
      BY <2>1, <3>1 DEF Untouched, Quiet, Looks
    <3> QED BY <3>2, <3>3, <3>4 DEF GrowsByOverstayers, Overstayed
  <2> QED BY <2>2, <2>3, <2>4
<1> QED BY <1>2, <1>3 DEF Next

\* The ledger's variables, as the passes implement them.
LedgerVars ==
  <<{p \in Passes : engaged[p]}, {p \in Passes : pending[p]}, {p \in Passes : lost[p]},
    {p \in Passes : stale[p]}, {p \in Passes : committed[p]}, rows, base, length>>

\* The first row of a pass.
LEMMA FirstRow ==
  ASSUME TypeOK, NEW p \in Passes, NEW s, Record(p, s), rows[p] = <<>>,
         NEW told, s \in told
  PROVE  Ledger!Note(p, told)
<1>1. Append(rows[p], s) = <<s>>
  OBVIOUS
<1>2. rows' = [rows EXCEPT ![p] = <<s>>]
  BY <1>1 DEF Record, TypeOK
<1> QED BY <1>2 DEF Ledger!Note

\* Steps that the ledger does not see.
LEMMA Unseen ==
  ASSUME NEW p \in Passes,
         \/ CallFails(p) \/ PublishRejected(p) \/ PublishDrafted(p) \/ PublishAccepted(p)
         \/ PublishThrows(p) \/ AbortThrows(p) \/ Begin(p) \/ PrepareReturns(p) \/ Complete(p)
         \/ CompleteStops(p) \/ Repair(p) \/ Edit(p) \/ PublishFails(p) \/ HostDies(p)
  PROVE  UNCHANGED LedgerVars
<1>1. UNCHANGED <<engaged, pending, lost, stale, committed, rows, base, length>>
  <2> USE DEF storeVars, sideVars, pendingVars, history
  <2>1. CASE CallFails(p) \/ PublishRejected(p) \/ PublishDrafted(p) \/ PublishAccepted(p)
    BY <2>1 DEF CallFails, PublishRejected, PublishDrafted, PublishAccepted
  <2>2. CASE PublishThrows(p) \/ AbortThrows(p) \/ Begin(p) \/ PrepareReturns(p)
    BY <2>2 DEF PublishThrows, AbortThrows, Begin, PrepareReturns
  <2>3. CASE Complete(p) \/ CompleteStops(p) \/ Repair(p) \/ Edit(p)
    BY <2>3 DEF Complete, CompleteStops, Repair, Edit
  <2>4. CASE PublishFails(p) \/ HostDies(p)
    BY <2>4 DEF PublishFails, HostDies
  <2> QED BY <2>1, <2>2, <2>3, <2>4
<1> QED BY <1>1 DEF LedgerVars

\* A pass stops having something pending: it leaves, unless it had nothing.
LEMMA PendingGoes ==
  ASSUME TypeOK, NEW p \in Passes, pending' = Set(pending, p, FALSE),
         UNCHANGED <<engaged, lost, stale, committed, rows, base, length>>
  PROVE  [Ledger!Next]_LedgerVars
<1>1. {q \in Passes : pending'[q]} = {q \in Passes : pending[q]} \ {p}
  <2>1. \A q \in Passes : pending'[q] <=> pending[q] /\ q # p
    BY DEF TypeOK, Set
  <2> QED BY <2>1
<1>2. UNCHANGED <<{q \in Passes : engaged[q]}, {q \in Passes : lost[q]},
                  {q \in Passes : stale[q]}, {q \in Passes : committed[q]}>>
  OBVIOUS
<1>3. CASE pending[p]
  BY <1>1, <1>2, <1>3 DEF Ledger!Next, Ledger!Leave
<1>4. CASE ~pending[p]
  BY <1>1, <1>2, <1>4 DEF LedgerVars
<1> QED BY <1>3, <1>4

LEMMA HandlerLedger ==
  ASSUME IInv, GrowsByOverstayers, NEW p \in Passes, Handler(p)
  PROVE  [Ledger!Next]_LedgerVars
<1>1. TypeOK /\ PassInv(p)
  BY DEF IInv
<1>2. CASE PrepareNoop(p)
  <2>1. ~engaged[p] /\ rows[p] = <<>>
    BY <1>1, <1>2 DEF PrepareNoop, Preparing, Called, PassInv, Phase
  <2>2. Ledger!Note(p, {"noop"})
    BY <1>1, <1>2, <2>1, FirstRow DEF PrepareNoop
  <2>3. UNCHANGED <<engaged, pending, lost, stale, committed, base, length>>
    BY <1>2 DEF PrepareNoop, pendingVars, history
  <2> QED BY <2>1, <2>2, <2>3 DEF Ledger!Next, Ledger!Skip
<1>3. CASE Prepare(p) \/ PrepareThrows(p)
  <2>1. ~engaged[p] /\ ~stale[p] /\ rows[p] = <<>> /\ lease = NoHolder
    BY <1>1, <1>3 DEF Prepare, PrepareThrows, Preparing, Called, PassInv, Phase, Recorded
  <2>2. {q \in Passes : pending[q]} \subseteq {q \in Passes : lost[q]}
    BY <2>1, PassesAssumption DEF IInv, PassInv, Leased
  <2>3. /\ engaged' = Set(engaged, p, TRUE) /\ stale' = Set(stale, p, base[p] # length)
        /\ UNCHANGED <<lost, committed, rows, base, length>>
    BY <1>3 DEF Prepare, PrepareThrows, Engages
  <2>4. Ledger!Reserve(p)
    <3>1. {q \in Passes : engaged'[q]} = {q \in Passes : engaged[q]} \cup {p}
      <4>1. \A q \in Passes : engaged'[q] <=> engaged[q] \/ q = p
        BY <1>1, <2>3 DEF TypeOK, Set
      <4> QED BY <4>1
    <3>2. {q \in Passes : stale'[q]} =
            IF base[p] = length THEN {q \in Passes : stale[q]}
                                ELSE {q \in Passes : stale[q]} \cup {p}
      <4>1. \A q \in Passes : stale'[q] <=> stale[q] \/ (q = p /\ base[p] # length)
        BY <1>1, <2>1, <2>3 DEF TypeOK, Set
      <4> QED BY <4>1
    <3> QED BY <2>1, <2>2, <2>3, <3>1, <3>2 DEF Ledger!Reserve
  <2>5. CASE Prepare(p)
    <3>1. pending' = Set(pending, p, TRUE)
      BY <2>5 DEF Prepare
    <3>2. {q \in Passes : pending'[q]} = {q \in Passes : pending[q]} \cup {p}
      <4>1. \A q \in Passes : pending'[q] <=> pending[q] \/ q = p
        BY <1>1, <3>1 DEF TypeOK, Set
      <4> QED BY <4>1
    <3>3. Ledger!Take(p)
      BY <2>4, <3>2 DEF Ledger!Take
    <3> QED BY <3>3 DEF Ledger!Next
  <2>6. CASE PrepareThrows(p)
    <3>1. UNCHANGED pending
      BY <2>6 DEF PrepareThrows, pendingVars
    <3>2. Ledger!TakeFails(p)
      BY <2>4, <3>1 DEF Ledger!TakeFails
    <3> QED BY <3>2 DEF Ledger!Next
  <2> QED BY <1>3, <2>5, <2>6
<1>4. CASE PublishCommit(p)
  <2>1. pending[p] /\ ~committed[p] /\ rows[p] = <<>>
    BY <1>1, <1>4 DEF PublishCommit, PassInv, Phase, Recorded
  <2>2. \/ base[p] = length \/ p \in {q \in Passes : lost[q]} \cup {q \in Passes : stale[q]}
        \/ {q \in Passes : lost[q]} \cap {q \in Passes : committed[q]} # {}
    BY <2>1 DEF GrowsByOverstayers, Overstayed
  <2>3. /\ committed' = Set(committed, p, TRUE) /\ length' = length + 1
        /\ UNCHANGED <<engaged, pending, lost, stale, rows, base>>
    BY <1>4 DEF PublishCommit, pendingVars
  <2>4. {q \in Passes : committed'[q]} = {q \in Passes : committed[q]} \cup {p}
    <3>1. \A q \in Passes : committed'[q] <=> committed[q] \/ q = p
      BY <1>1, <2>3 DEF TypeOK, Set
    <3> QED BY <3>1
  <2>5. Ledger!Publish(p)
    BY <2>1, <2>2, <2>3, <2>4 DEF Ledger!Publish
  <2> QED BY <2>5 DEF Ledger!Next
<1>5. CASE PublishRecord(p)
  <2>1. pending[p] /\ committed[p] /\ rows[p] = <<>>
    BY <1>1, <1>5 DEF PublishRecord, PassInv, Phase, Recorded
  <2>2. Ledger!Note(p, {"success"})
    BY <1>1, <1>5, <2>1, FirstRow DEF PublishRecord
  <2>3. UNCHANGED <<engaged, pending, lost, stale, committed, base, length>>
    BY <1>5 DEF PublishRecord, history
  <2> QED BY <2>1, <2>2, <2>3 DEF Ledger!Next, Ledger!NoteSuccess
<1>6. CASE PublishRelease(p)
  BY <1>1, <1>6, PendingGoes DEF PublishRelease, PendingGone, history
<1>7. CASE Abort(p)
  <2>1. pending' = Set(pending, p, FALSE) /\ UNCHANGED <<engaged, lost, stale, committed, base, length>>
    BY <1>7 DEF Abort, PendingGone, history
  <2>2. CASE pending[p] /\ ~recorded[p]
    <3>1. ~committed[p] /\ rows[p] = <<>>
      BY <1>1, <1>7, <2>2 DEF Abort, Called, PassInv, Phase, Recorded
    <3>2. Ledger!Note(p, {"failed", "noop"})
      BY <1>1, <1>7, <2>2, <3>1, FirstRow DEF Abort
    <3>3. {q \in Passes : pending'[q]} = {q \in Passes : pending[q]} \ {p}
      <4>1. \A q \in Passes : pending'[q] <=> pending[q] /\ q # p
        BY <1>1, <2>1 DEF TypeOK, Set
      <4> QED BY <4>1
    <3>4. Ledger!GiveUp(p)
      BY <2>1, <2>2, <3>1, <3>2, <3>3 DEF Ledger!GiveUp
    <3> QED BY <3>4 DEF Ledger!Next
  <2>3. CASE ~(pending[p] /\ ~recorded[p])
    <3>1. rows' = rows
      BY <1>7, <2>3 DEF Abort
    <3> QED BY <1>1, <2>1, <3>1, PendingGoes
  <2> QED BY <2>2, <2>3
<1>8. CASE PrepareReads(p)
  <2>1. ~engaged[p]
    BY <1>1, <1>8 DEF PrepareReads, Preparing, Called, PassInv, Phase
  <2>2. /\ base' = [base EXCEPT ![p] = length]
        /\ UNCHANGED <<engaged, pending, lost, stale, committed, rows, length>>
    BY <1>8 DEF PrepareReads, Set, storeVars, pendingVars
  <2> QED BY <2>1, <2>2 DEF Ledger!Next, Ledger!Look
<1> QED BY <1>2, <1>3, <1>4, <1>5, <1>6, <1>7, <1>8, Unseen DEF Handler

LEMMA OthersLedger ==
  ASSUME IInv, NEW p \in Passes, Engine(p) \/ Environment(p)
  PROVE  [Ledger!Next]_LedgerVars
<1>1. TypeOK
  BY DEF IInv
<1>2. CASE StopEarly(p) \/ NothingPrepared(p) \/ PublishReturns(p) \/ AbortReturns(p) \/ HostGone(p)
  <2>1. pending' = Set(pending, p, FALSE)
    BY <1>2 DEF StopEarly, NothingPrepared, PublishReturns, AbortReturns, HostGone, End, SidecarGone, PendingGone
  <2>2. UNCHANGED <<engaged, lost, stale, committed, rows, base, length>>
    BY <1>2 DEF StopEarly, NothingPrepared, PublishReturns, AbortReturns, HostGone, storeVars, history
  <2> QED BY <1>1, <2>1, <2>2, PendingGoes
<1>3. CASE CallLost(p) \/ SidecarDies(p)
  <2>1. pending' = Set(pending, p, FALSE)
    BY <1>3 DEF CallLost, SidecarDies, End, SidecarGone, PendingGone
  <2>2. UNCHANGED <<engaged, lost, stale, committed, rows, base, length>>
    BY <1>3 DEF CallLost, SidecarDies, storeVars
  <2> QED BY <1>1, <2>1, <2>2, PendingGoes
<1>4. CASE HeartbeatStops(p)
  <2>1. UNCHANGED <<engaged, lost, stale, committed, rows, base, length>>
    BY <1>4 DEF HeartbeatStops, storeVars
  <2>2. pending' = pending \/ pending' = Set(pending, p, FALSE)
    BY <1>4 DEF HeartbeatStops, SidecarGone, PendingGone, sideVars, pendingVars
  <2>3. CASE pending' = pending
    BY <2>1, <2>3 DEF LedgerVars
  <2> QED BY <1>1, <2>1, <2>2, <2>3, PendingGoes
<1>5. CASE LeaseExpires(p)
  <2>1. /\ lost' = Set(lost, p, lost[p] \/ pending[p])
        /\ UNCHANGED <<engaged, pending, stale, committed, rows, base, length>>
    BY <1>5 DEF LeaseExpires, sideVars, pendingVars
  <2>2. CASE pending[p]
    <3>1. lost' = Set(lost, p, TRUE)
      BY <2>1, <2>2
    <3>2. {q \in Passes : lost'[q]} = {q \in Passes : lost[q]} \cup {p}
      <4>1. \A q \in Passes : lost'[q] <=> lost[q] \/ q = p
        BY <1>1, <3>1 DEF TypeOK, Set
      <4> QED BY <4>1
    <3>3. Ledger!Expire(p)
      BY <2>1, <2>2, <3>2 DEF Ledger!Expire
    <3> QED BY <3>3 DEF Ledger!Next
  <2>3. CASE ~pending[p]
    <3>1. lost' = lost
      BY <1>1, <2>1, <2>3 DEF TypeOK, Set
    <3> QED BY <2>1, <3>1 DEF LedgerVars
  <2> QED BY <2>2, <2>3
<1> QED BY <1>2, <1>3, <1>4, <1>5, Unseen DEF Engine, Environment

\* The historian passes, with every loss and failure, keep the ledger: a pass
\* works on a stretch that is its own while its reservation lasts, publishes
\* once, and writes one row that is true.
THEOREM PassesKeepLedger == Spec => KeepsLedger
<1>1. Init => Ledger!Init /\ GrowsByOverstayers
  BY DEF Init, Ledger!Init, GrowsByOverstayers
<1>2. IInv /\ GrowsByOverstayers /\ [Next]_vars => [Ledger!Next]_LedgerVars
  <2> SUFFICES ASSUME IInv, GrowsByOverstayers, [Next]_vars
               PROVE  [Ledger!Next]_LedgerVars
    OBVIOUS
  <2>1. CASE UNCHANGED vars
    <3>1. UNCHANGED <<engaged, pending, lost, stale, committed, rows, base, length>>
      BY <2>1 DEF vars, storeVars, sideVars, pendingVars, history
    <3> QED BY <3>1 DEF LedgerVars
  <2> QED BY <2>1, HandlerLedger, OthersLedger DEF Next
<1>3. IInv /\ GrowsByOverstayers /\ [Next]_vars => GrowsByOverstayers'
  BY GrowthStep
<1> QED BY <1>1, <1>2, <1>3, IInvAlways, PTL DEF Spec, KeepsLedger, Ledger!Spec, LedgerVars, Ledger!ledger
===============================================================================
