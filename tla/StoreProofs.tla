------------------------------ MODULE StoreProofs ------------------------------
(***************************************************************************)
(* Proofs about the store of the runtime: who may open it (BindLock, for   *)
(* any number of processes and attempts), and what it holds of a session   *)
(* (BranchIngest, for conversations of any length, any messages and any    *)
(* number of rewinds).                                                     *)
(***************************************************************************)
EXTENDS BindLock, BranchIngest, FiniteSetTheorems, SequenceTheorems,
        WellFoundedInduction, TLAPS

-----------------------------------------------------------------------------
(* The bind mutex and the guarded open *)

(* Type correctness. *)

LEMMA TypeInit == Init => TypeOK
<1> SUFFICES ASSUME Init PROVE TypeOK
  OBVIOUS
<1>1. 1 \in 1..MaxAttempts /\ 0 \in 0..2
  BY AttemptsAssumption
<1>2. pidFile \in Pids /\ age \in 0..2 /\ pc \in [Sidecars -> Pc]
  BY <1>1 DEF Init, Pids, Pc, Waiting
<1>3. /\ attempt \in [Sidecars -> 1..MaxAttempts]
      /\ seenPid \in [Sidecars -> Pids] /\ seenAge \in [Sidecars -> 0..2]
  BY <1>1 DEF Init, Pids
<1>4. /\ late \in [Sidecars -> BOOLEAN] /\ current \in [Sidecars -> BOOLEAN]
      /\ outcome \in [Sidecars -> {"none", "ok", "retry", "fail"}]
  BY DEF Init
<1> QED BY <1>2, <1>3, <1>4 DEF Init, TypeOK

LEMMA EndTurnType ==
  ASSUME TypeOK, NEW p \in Sidecars, EndTurn(p)
  PROVE  seenPid' \in [Sidecars -> Pids] /\ seenAge' \in [Sidecars -> 0..2]
  BY DEF TypeOK, EndTurn, Pids

LEMMA GotoType ==
  ASSUME TypeOK, NEW p \in Sidecars, NEW l \in Pc, Goto(p, l)
  PROVE  pc' \in [Sidecars -> Pc]
  BY DEF TypeOK, Goto

LEMMA RemoveDirType ==
  ASSUME RemoveDir
  PROVE  /\ dirExists' \in BOOLEAN /\ pidFile' \in Pids /\ age' \in 0..2
         /\ current' \in [Sidecars -> BOOLEAN]
<1>1. dirExists' \in BOOLEAN /\ current' \in [Sidecars -> BOOLEAN]
  BY DEF RemoveDir, LockChanges
<1>2. pidFile' \in Pids /\ age' \in 0..2
  BY DEF RemoveDir, Pids
<1> QED BY <1>1, <1>2

LEMMA RemovalType ==
  ASSUME TypeOK, RemovalFails
  PROVE  /\ dirExists' \in BOOLEAN /\ pidFile' \in Pids /\ age' \in 0..2
         /\ current' \in [Sidecars -> BOOLEAN]
<1>1. CASE UNCHANGED <<pidFile, age, current>>
  BY <1>1 DEF TypeOK, RemovalFails
<1>2. CASE pidFile' = NoPid /\ age' = 0 /\ LockChanges
  BY <1>2 DEF TypeOK, RemovalFails, LockChanges, Pids
<1> QED BY <1>1, <1>2 DEF RemovalFails

LEMMA Labels ==
  /\ {"try", "read", "stat", "judge", "reap", "publish", "open", "unlock",
      "remove", "cooldown", "bound", "failed", "dead"} \subseteq Pc
  /\ \A p \in Sidecars : AfterRelease(p) \in {"bound", "cooldown", "failed"}
  BY DEF Pc, Waiting, Holding, Gone, AfterRelease

LEMMA WaitType ==
  ASSUME TypeOK, NEW p \in Sidecars, WaitStep(p)
  PROVE  TypeOK'
<1> USE Labels
<1>1. CASE Mkdir(p)
  BY <1>1, GotoType DEF Mkdir, TypeOK, Pids, LockChanges
<1>2. CASE Eexist(p)
  BY <1>2, GotoType DEF Eexist, TypeOK, lockVars, waiterVars, history
<1>3. CASE ReadPid(p)
  BY <1>3, GotoType DEF ReadPid, TypeOK, lockVars
<1>4. CASE Stat(p)
  <2>1. pc' \in [Sidecars -> Pc]
    BY <1>4, GotoType DEF Stat
  <2>2. seenPid' \in [Sidecars -> Pids] /\ seenAge' \in [Sidecars -> 0..2]
    BY <1>4, EndTurnType DEF Stat, TypeOK
  <2> QED BY <1>4, <2>1, <2>2 DEF Stat, TypeOK, lockVars, history
<1>5. CASE JudgeStale(p)
  BY <1>5, GotoType, EndTurnType DEF JudgeStale, TypeOK, lockVars, history
<1>6. CASE JudgeWait(p)
  <2>1. pc' \in [Sidecars -> Pc]
    BY <1>6, GotoType DEF JudgeWait
  <2> QED BY <1>6, <2>1, EndTurnType DEF JudgeWait, TypeOK, lockVars
<1>7. CASE Reap(p)
  <2>1. pc' \in [Sidecars -> Pc]
    BY <1>7, GotoType DEF Reap
  <2>2. lateReap' \in BOOLEAN
    BY <1>7 DEF Reap
  <2> QED BY <1>7, <2>1, <2>2, RemoveDirType DEF Reap, TypeOK, waiterVars
<1>8. CASE ReapFails(p)
  <2>1. pc' \in [Sidecars -> Pc]
    BY <1>8, GotoType DEF ReapFails
  <2>2. lateReap' \in BOOLEAN
    BY <1>8 DEF ReapFails
  <2> QED BY <1>8, <2>1, <2>2, RemovalType DEF ReapFails, TypeOK, waiterVars
<1> QED BY <1>1, <1>2, <1>3, <1>4, <1>5, <1>6, <1>7, <1>8 DEF WaitStep

LEMMA OpenedType ==
  ASSUME TypeOK, NEW p \in Sidecars, NEW r \in {"ok", "retry", "fail"}, Opened(p, r)
  PROVE  TypeOK'
<1>1. pc' \in [Sidecars -> Pc]
  BY GotoType, Labels DEF Opened
<1> QED BY <1>1 DEF Opened, TypeOK, lockVars, waiterVars, history

\* An attempt ends in a cooldown only while attempts are left.
AttemptsLeft ==
  \A p \in Sidecars :
    /\ outcome[p] = "retry" /\ pc[p] \in {"unlock", "remove"} => attempt[p] < MaxAttempts
    /\ pc[p] = "cooldown" => attempt[p] < MaxAttempts

LEMMA HoldType ==
  ASSUME TypeOK, AttemptsLeft, NEW p \in Sidecars, HoldStep(p)
  PROVE  TypeOK'
<1> USE Labels
<1>1. CASE Publish(p)
  BY <1>1, GotoType DEF Publish, TypeOK, Pids, LockChanges, waiterVars
<1>2. CASE PublishFails(p)
  BY <1>2, GotoType DEF PublishFails, TypeOK, lockVars, waiterVars, history
<1>3. CASE OpenSucceeds(p) \/ OpenTransient(p) \/ OpenFails(p)
  BY <1>3, OpenedType DEF OpenSucceeds, OpenTransient, OpenFails
<1>4. CASE ReadToken(p)
  BY <1>4, GotoType DEF ReadToken, TypeOK, lockVars, waiterVars, history
<1>5. CASE RemoveLock(p)
  <2>1. pc' \in [Sidecars -> Pc]
    BY <1>5, GotoType DEF RemoveLock
  <2> QED BY <1>5, <2>1, RemoveDirType DEF RemoveLock, TypeOK, waiterVars
<1>6. CASE CooldownOver(p)
  <2>1. pc' \in [Sidecars -> Pc]
    BY <1>6, GotoType DEF CooldownOver
  <2>2. attempt[p] \in 1..MaxAttempts /\ attempt[p] < MaxAttempts
    BY <1>6 DEF CooldownOver, AttemptsLeft, TypeOK
  <2>3. attempt[p] + 1 \in 1..MaxAttempts
    BY <2>2, AttemptsAssumption
  <2> QED BY <1>6, <2>1, <2>3 DEF CooldownOver, TypeOK, lockVars, waiterVars, history
<1>7. CASE RemoveLockFails(p)
  <2>1. pc' \in [Sidecars -> Pc]
    BY <1>7, GotoType DEF RemoveLockFails
  <2>2. kept' \subseteq Sidecars
    BY <1>7 DEF RemoveLockFails, TypeOK
  <2> QED BY <1>7, <2>1, <2>2, RemovalType DEF RemoveLockFails, TypeOK, waiterVars
<1> QED BY <1>1, <1>2, <1>3, <1>4, <1>5, <1>6, <1>7 DEF HoldStep

LEMMA ClockType ==
  ASSUME TypeOK, NEW p \in Sidecars, Crash(p) \/ DeadlinePasses(p)
  PROVE  TypeOK'
<1> USE Labels
<1>1. CASE Crash(p)
  BY <1>1, GotoType, EndTurnType DEF Crash, TypeOK, lockVars
<1>2. CASE DeadlinePasses(p)
  BY <1>2 DEF DeadlinePasses, TypeOK, lockVars, history
<1> QED BY <1>1, <1>2

LEMMA TickType ==
  ASSUME TypeOK, Tick
  PROVE  TypeOK'
<1>1. age' \in 0..2
  BY DEF Tick, TypeOK
<1>2. slowPublish' \in BOOLEAN
  BY DEF Tick
<1> QED BY <1>1, <1>2 DEF Tick, TypeOK, waiterVars

LEMMA AttemptsStep ==
  ASSUME TypeOK, AttemptsLeft, [Next]_vars
  PROVE  AttemptsLeft'
<1>1. ASSUME NEW p \in Sidecars, WaitStep(p)
      PROVE  AttemptsLeft'
  BY <1>1 DEF TypeOK, AttemptsLeft, WaitStep, Mkdir, Eexist, ReadPid, Stat, JudgeStale,
              JudgeWait, Reap, ReapFails, Goto
<1>2. ASSUME NEW p \in Sidecars, HoldStep(p)
      PROVE  AttemptsLeft'
  BY <1>2 DEF TypeOK, AttemptsLeft, HoldStep, Publish, PublishFails, OpenSucceeds,
              OpenTransient, OpenFails, Opened, ReadToken, RemoveLock, RemoveLockFails,
              CooldownOver, AfterRelease, Goto
<1>3. ASSUME NEW p \in Sidecars, Crash(p) \/ DeadlinePasses(p)
      PROVE  AttemptsLeft'
  BY <1>3 DEF TypeOK, AttemptsLeft, Crash, DeadlinePasses, Goto
<1>4. CASE Tick \/ UNCHANGED vars
  BY <1>4 DEF AttemptsLeft, Tick, vars
<1> QED BY <1>1, <1>2, <1>3, <1>4 DEF Next

\* Every variable keeps its type.
THEOREM BindTypeCorrect == Spec => []TypeOK
<1>1. Init => TypeOK /\ AttemptsLeft
  BY TypeInit DEF Init, AttemptsLeft
<1>2. TypeOK /\ AttemptsLeft /\ [Next]_vars => (TypeOK /\ AttemptsLeft)'
  <2>1. CASE UNCHANGED vars
    BY <2>1 DEF TypeOK, AttemptsLeft, vars, lockVars, waiterVars, history
  <2> QED BY <2>1, WaitType, HoldType, ClockType, TickType, AttemptsStep DEF Next
<1>3. Spec => [](TypeOK /\ AttemptsLeft)
  BY <1>1, <1>2, PTL DEF Spec
<1> QED BY <1>3, PTL

-----------------------------------------------------------------------------
(* Who owns the lock, races included.                                      *)

\* The process a pid file names is inside its acquisition, died in it, or could
\* not remove its lock.
OwnerIsInside ==
  \A p \in Sidecars :
    pidFile = p => dirExists /\ (pc[p] \in {"open", "unlock", "remove", "dead"} \/ p \in kept)

\* What a waiter knows of a lock that has not changed since is true.
VerdictIsCurrent ==
  \A p \in Sidecars : current[p] =>
    /\ dirExists
    /\ pc[p] \in {"stat", "judge"} => seenPid[p] = pidFile
    /\ pc[p] = "reap" => \A q \in Sidecars : pidFile = q => pc[q] \in Gone

Ownership == OwnerIsInside /\ VerdictIsCurrent

LEMMA OwnerStep ==
  ASSUME TypeOK, OwnerIsInside, [Next]_vars
  PROVE  OwnerIsInside'
<1> USE SidecarsAssumption DEF TypeOK, OwnerIsInside
<1>1. ASSUME NEW p \in Sidecars, WaitStep(p)
      PROVE  OwnerIsInside'
  BY <1>1 DEF WaitStep, Mkdir, Eexist, ReadPid, Stat, JudgeStale, JudgeWait, Reap, ReapFails,
              RemovalFails, RemoveDir, Goto, lockVars, history
<1>2. ASSUME NEW p \in Sidecars, HoldStep(p)
      PROVE  OwnerIsInside'
  BY <1>2 DEF HoldStep, Publish, PublishFails, OpenSucceeds, OpenTransient, OpenFails,
              Opened, ReadToken, RemoveLock, RemoveLockFails, RemovalFails, RemoveDir,
              CooldownOver, Goto, lockVars, history
<1>3. ASSUME NEW p \in Sidecars, Crash(p) \/ DeadlinePasses(p)
      PROVE  OwnerIsInside'
  BY <1>3 DEF Crash, DeadlinePasses, Goto, lockVars, history
<1>4. CASE Tick \/ UNCHANGED vars
  BY <1>4 DEF Tick, vars, lockVars, history
<1> QED BY <1>1, <1>2, <1>3, <1>4 DEF Next

\* A pid judged dead stays dead, and a lock that changes makes every waiter's
\* verdict outdated.
LEMMA VerdictStep ==
  ASSUME TypeOK, VerdictIsCurrent, [Next]_vars
  PROVE  VerdictIsCurrent'
<1> USE DEF TypeOK, VerdictIsCurrent, Gone
<1>1. ASSUME NEW p \in Sidecars, WaitStep(p)
      PROVE  VerdictIsCurrent'
  <2>1. CASE Mkdir(p) \/ Reap(p)
    BY <2>1 DEF Mkdir, Reap, RemoveDir, LockChanges
  <2>2. CASE Eexist(p)
    BY <2>2 DEF Eexist, Goto, lockVars, waiterVars, history
  <2>3. CASE ReadPid(p)
    BY <2>3 DEF ReadPid, Goto, lockVars
  <2>4. CASE Stat(p)
    BY <2>4 DEF Stat, Goto, EndTurn, lockVars, history
  <2>5. CASE JudgeStale(p)
    <3>1. current[p] => \A q \in Sidecars : pidFile = q => pc[q] \in Gone
      BY <2>5 DEF JudgeStale, Stale, HolderAlive, Alive
    <3> QED BY <2>5, <3>1 DEF JudgeStale, Goto, EndTurn, lockVars, history
  <2>6. CASE JudgeWait(p)
    BY <2>6 DEF JudgeWait, Goto, EndTurn, lockVars
  <2>7. CASE ReapFails(p)
    BY <2>7 DEF ReapFails, RemovalFails, LockChanges, Goto, waiterVars
  <2> QED BY <1>1, <2>1, <2>2, <2>3, <2>4, <2>5, <2>6, <2>7 DEF WaitStep
<1>2. ASSUME NEW p \in Sidecars, HoldStep(p)
      PROVE  VerdictIsCurrent'
  <2>1. CASE Publish(p) \/ RemoveLock(p)
    BY <2>1 DEF Publish, RemoveLock, RemoveDir, LockChanges
  <2>2. CASE PublishFails(p) \/ ReadToken(p) \/ CooldownOver(p)
    BY <2>2 DEF PublishFails, ReadToken, AfterRelease, CooldownOver, Goto, lockVars, waiterVars, history
  <2>3. CASE OpenSucceeds(p) \/ OpenTransient(p) \/ OpenFails(p)
    BY <2>3 DEF OpenSucceeds, OpenTransient, OpenFails, Opened, Goto, lockVars, waiterVars, history
  <2>4. CASE RemoveLockFails(p)
    BY <2>4 DEF RemoveLockFails, RemovalFails, LockChanges, AfterRelease, Goto, waiterVars
  <2> QED BY <1>2, <2>1, <2>2, <2>3, <2>4 DEF HoldStep
<1>3. ASSUME NEW p \in Sidecars, Crash(p)
      PROVE  VerdictIsCurrent'
  BY <1>3 DEF Crash, EndTurn, Goto, lockVars
<1>4. ASSUME NEW p \in Sidecars, DeadlinePasses(p)
      PROVE  VerdictIsCurrent'
  BY <1>4 DEF DeadlinePasses, lockVars, history
<1>5. CASE Tick \/ UNCHANGED vars
  BY <1>5 DEF Tick, vars, lockVars, waiterVars, history
<1> QED BY <1>1, <1>2, <1>3, <1>4, <1>5 DEF Next

LEMMA OwnershipAlways == Spec => [](TypeOK /\ Ownership)
<1>1. Init => Ownership
  BY SidecarsAssumption DEF Init, Ownership, OwnerIsInside, VerdictIsCurrent
<1>2. TypeOK /\ Ownership /\ [Next]_vars => Ownership'
  BY OwnerStep, VerdictStep DEF Ownership
<1> QED BY <1>1, <1>2, BindTypeCorrect, PTL DEF Spec

\* Whoever cools down, has bound or gave up left no lock of its own behind but
\* one it could not remove, whatever races took place.
THEOREM NoLockAtRest == Spec => []RestingHoldsNothing
<1>1. Ownership => RestingHoldsNothing
  BY DEF Ownership, OwnerIsInside, RestingHoldsNothing
<1> QED BY <1>1, OwnershipAlways, PTL

\* The published lock of a live process is removed by a waiter only when the
\* lock changed hands after that waiter had read the pid file.
THEOREM LiveHolderIsSpared == Spec => LiveHolderSpared
<1> DEFINE Spared ==
      \A p \in Sidecars :
        pc[p] = "reap" /\ pc'[p] = "try" /\ pidFile \in Sidecars /\ pidFile' # pidFile
          => lateReap' \/ ~Alive(pidFile)
<1>1. ASSUME TypeOK, Ownership, [Next]_vars
      PROVE  [Spared]_vars
  <2> SUFFICES ASSUME ~UNCHANGED vars, NEW p \in Sidecars,
                      pc[p] = "reap", pc'[p] = "try", pidFile \in Sidecars,
                      pidFile' # pidFile
               PROVE  lateReap' \/ ~Alive(pidFile)
    OBVIOUS
  <2>1. CASE Reap(p) \/ ReapFails(p)
    <3>1. dirExists
      BY <1>1 DEF Ownership, OwnerIsInside
    <3>2. CASE current[p]
      BY <1>1, <3>2 DEF Ownership, VerdictIsCurrent, Alive
    <3>3. CASE ~current[p]
      BY <2>1, <3>1, <3>3 DEF Reap, ReapFails
    <3> QED BY <3>2, <3>3
  <2>2. ASSUME NEW q \in Sidecars, WaitStep(q), ~Reap(p), ~ReapFails(p)
        PROVE  FALSE
    <3>1. CASE q = p
      BY <2>2, <3>1 DEF WaitStep, Mkdir, Eexist, ReadPid, Stat, JudgeStale, JudgeWait
    <3>2. CASE q # p
      BY <1>1, <2>2, <3>2 DEF TypeOK, WaitStep, Mkdir, Eexist, ReadPid, Stat, JudgeStale,
                              JudgeWait, Reap, ReapFails, Goto
    <3> QED BY <3>1, <3>2
  <2>3. ASSUME NEW q \in Sidecars, HoldStep(q)
        PROVE  FALSE
    BY <1>1, <2>3 DEF TypeOK, HoldStep, Publish, PublishFails, OpenSucceeds, OpenTransient,
                      OpenFails, Opened, ReadToken, RemoveLock, RemoveLockFails,
                      CooldownOver, Goto
  <2>4. ASSUME NEW q \in Sidecars, Crash(q) \/ DeadlinePasses(q)
        PROVE  FALSE
    BY <1>1, <2>4 DEF TypeOK, Crash, DeadlinePasses, Goto
  <2>5. CASE Tick
    BY <2>5 DEF Tick
  <2> QED BY <1>1, <2>1, <2>2, <2>3, <2>4, <2>5 DEF Next
<1>2. Spec => [][Spared]_vars
  BY <1>1, OwnershipAlways, PTL DEF Spec
<1> QED BY <1>2 DEF LiveHolderSpared

-----------------------------------------------------------------------------
(* Mutual exclusion, as long as no waiter was late and no creator slow.    *)

OneHolder == \A p, q \in Holders : p = q

HolderHasLock ==
  \A p \in Holders :
    dirExists /\ pidFile = IF pc[p] = "publish" THEN NoPid ELSE p

\* A waiter about to remove the lock it judged has no holder to rob.
ReapersRobNobody ==
  \A p \in Sidecars : pc[p] = "reap" /\ current[p] => Holders = {}

PromptPublish == \A p \in Sidecars : pc[p] = "publish" => age # 2

Exclusive == OneHolder /\ HolderHasLock /\ ReapersRobNobody /\ PromptPublish

ExclusiveInv == lateReap \/ slowPublish \/ Exclusive

LEMMA WaitExclusive ==
  ASSUME TypeOK, Ownership, Exclusive, NEW p \in Sidecars, WaitStep(p), ~lateReap'
  PROVE  Exclusive'
<1> USE SidecarsAssumption DEF Holders, Holding
<1>0. OneHolder /\ HolderHasLock /\ ReapersRobNobody /\ PromptPublish
  BY DEF Exclusive
<1>1. CASE Mkdir(p)
  <2>1. Holders = {}
    BY <1>0, <1>1 DEF Mkdir, HolderHasLock
  <2>2. Holders' = {p}
    BY <2>1, <1>1 DEF Mkdir, Goto, TypeOK
  <2>3. OneHolder' /\ HolderHasLock'
    BY <2>2, <1>1 DEF Mkdir, Goto, TypeOK, OneHolder, HolderHasLock
  <2>4. ReapersRobNobody' /\ PromptPublish'
    BY <1>1 DEF Mkdir, LockChanges, ReapersRobNobody, PromptPublish
  <2> QED BY <2>3, <2>4 DEF Exclusive
<1>2. CASE Reap(p)
  <2>1. Holders = {}
    BY <1>0, <1>2 DEF Reap, ReapersRobNobody, HolderHasLock
  <2>2. Holders' = {}
    BY <2>1, <1>2 DEF Reap, Goto, TypeOK
  <2> QED BY <2>2 DEF Exclusive, OneHolder, HolderHasLock, ReapersRobNobody, PromptPublish
<1>3. CASE Eexist(p) \/ ReadPid(p) \/ Stat(p) \/ JudgeStale(p) \/ JudgeWait(p)
  <2>1. /\ UNCHANGED lockVars
        /\ \A q \in Sidecars : q # p => pc'[q] = pc[q] /\ current'[q] = current[q]
        /\ pc'[p] \in {"read", "stat", "judge", "try", "reap", "failed"}
        /\ pc[p] \notin Holding
    BY <1>3 DEF Eexist, ReadPid, Stat, JudgeStale, JudgeWait, Goto, TypeOK, lockVars, history
  <2>2. Holders' = Holders
    BY <2>1
  <2>3. OneHolder' /\ HolderHasLock' /\ PromptPublish'
    BY <1>0, <2>1, <2>2 DEF OneHolder, HolderHasLock, PromptPublish, lockVars
  <2>4. pc'[p] = "reap" /\ current'[p] => Holders = {}
    <3> SUFFICES ASSUME pc'[p] = "reap", current'[p], NEW h \in Holders
                 PROVE  FALSE
      OBVIOUS
    <3>1. JudgeStale(p) /\ current[p]
      BY <1>3 DEF Eexist, ReadPid, Stat, JudgeStale, JudgeWait, Goto, TypeOK, history
    <3>2. seenPid[p] = pidFile /\ Stale(p, age)
      BY <3>1 DEF Ownership, VerdictIsCurrent, JudgeStale, AgeNow
    <3>3. CASE pc[h] = "publish"
      BY <1>0, <3>2, <3>3 DEF HolderHasLock, PromptPublish, Stale, Grace, TypeOK
    <3>4. CASE pc[h] # "publish"
      BY <1>0, <3>2, <3>4 DEF HolderHasLock, Stale, HolderAlive, Alive, Gone
    <3> QED BY <3>3, <3>4
  <2>5. ReapersRobNobody'
    BY <1>0, <2>1, <2>2, <2>4 DEF ReapersRobNobody
  <2> QED BY <2>3, <2>5 DEF Exclusive
<1>4. CASE ReapFails(p)
  <2>1. /\ Holders' = Holders /\ pc'[p] = "try"
        /\ \A q \in Sidecars : q # p => pc'[q] = pc[q]
    BY <1>4 DEF ReapFails, Goto, TypeOK
  <2>2. CASE UNCHANGED <<pidFile, age, current>>
    BY <1>0, <1>4, <2>1, <2>2 DEF ReapFails, RemovalFails, Exclusive, OneHolder, HolderHasLock,
                                  ReapersRobNobody, PromptPublish
  <2>3. CASE pidFile' # pidFile /\ age' = 0 /\ LockChanges
    <3>1. current[p]
      BY <1>4, <2>3 DEF ReapFails, TypeOK
    <3>2. Holders = {}
      BY <1>0, <1>4, <3>1 DEF ReapFails, ReapersRobNobody
    <3> QED BY <2>1, <2>3, <3>2 DEF Exclusive, OneHolder, HolderHasLock, ReapersRobNobody,
                                    PromptPublish
  <2> QED BY <1>4, <2>2, <2>3 DEF ReapFails, RemovalFails
<1> QED BY <1>1, <1>2, <1>3, <1>4 DEF WaitStep

LEMMA HoldExclusive ==
  ASSUME TypeOK, Ownership, Exclusive, NEW p \in Sidecars, HoldStep(p)
  PROVE  Exclusive'
<1> USE SidecarsAssumption DEF Holders, Holding
<1>0. OneHolder /\ HolderHasLock /\ ReapersRobNobody /\ PromptPublish
  BY DEF Exclusive
<1>1. CASE Publish(p)
  <2>1. Holders = {p} /\ Holders' = {p}
    BY <1>0, <1>1 DEF Publish, Goto, TypeOK, OneHolder
  <2>2. OneHolder' /\ HolderHasLock'
    BY <2>1, <1>1 DEF Publish, Goto, TypeOK, OneHolder, HolderHasLock
  <2>3. ReapersRobNobody' /\ PromptPublish'
    BY <1>1 DEF Publish, LockChanges, ReapersRobNobody, PromptPublish
  <2> QED BY <2>2, <2>3 DEF Exclusive
<1>2. CASE PublishFails(p)
  <2>1. Holders' = {}
    BY <1>0, <1>2 DEF PublishFails, Goto, TypeOK, OneHolder
  <2>2. PromptPublish'
    BY <1>0, <1>2 DEF PublishFails, Goto, TypeOK, PromptPublish, lockVars
  <2> QED BY <2>1, <2>2 DEF Exclusive, OneHolder, HolderHasLock, ReapersRobNobody
<1>3. CASE OpenSucceeds(p) \/ OpenTransient(p) \/ OpenFails(p)
  <2>1. Holders' = Holders
    BY <1>3 DEF OpenSucceeds, OpenTransient, OpenFails, Opened, Goto, TypeOK
  <2> QED BY <1>0, <1>3, <2>1 DEF OpenSucceeds, OpenTransient, OpenFails, Opened, Goto, TypeOK,
            lockVars, history, Exclusive, OneHolder, HolderHasLock, ReapersRobNobody, PromptPublish
<1>4. CASE ReadToken(p)
  <2>1. pidFile = p /\ Goto(p, "remove")
    BY <1>0, <1>4 DEF ReadToken, HolderHasLock
  <2>2. Holders' = Holders
    BY <1>4, <2>1 DEF ReadToken, Goto, TypeOK
  <2> QED BY <1>0, <1>4, <2>1, <2>2 DEF ReadToken, Goto, TypeOK,
            lockVars, history, Exclusive, OneHolder, HolderHasLock, ReapersRobNobody, PromptPublish
<1>5. CASE RemoveLock(p)
  <2>1. Holders' = {}
    BY <1>0, <1>5 DEF RemoveLock, AfterRelease, Goto, TypeOK, OneHolder
  <2>2. PromptPublish'
    BY <1>5 DEF RemoveLock, RemoveDir, PromptPublish
  <2> QED BY <2>1, <2>2 DEF Exclusive, OneHolder, HolderHasLock, ReapersRobNobody
<1>6. CASE CooldownOver(p)
  <2>1. Holders' = Holders
    BY <1>6 DEF CooldownOver, Goto, TypeOK
  <2> QED BY <1>0, <1>6, <2>1 DEF CooldownOver, Goto, TypeOK,
            lockVars, history, Exclusive, OneHolder, HolderHasLock, ReapersRobNobody, PromptPublish
<1>7. CASE RemoveLockFails(p)
  <2>1. Holders' = {}
    BY <1>0, <1>7 DEF RemoveLockFails, AfterRelease, Goto, TypeOK, OneHolder
  <2>2. PromptPublish'
    BY <2>1 DEF PromptPublish
  <2> QED BY <2>1, <2>2 DEF Exclusive, OneHolder, HolderHasLock, ReapersRobNobody
<1> QED BY <1>1, <1>2, <1>3, <1>4, <1>5, <1>6, <1>7 DEF HoldStep

LEMMA ClockExclusive ==
  ASSUME TypeOK, Exclusive, ~slowPublish',
         Tick \/ \E p \in Sidecars : Crash(p) \/ DeadlinePasses(p)
  PROVE  Exclusive'
<1> USE DEF Holders, Holding
<1>0. OneHolder /\ HolderHasLock /\ ReapersRobNobody /\ PromptPublish
  BY DEF Exclusive
<1>1. CASE Tick
  <2>1. Holders' = Holders
    BY <1>1 DEF Tick
  <2>2. OneHolder' /\ HolderHasLock' /\ ReapersRobNobody'
    BY <1>0, <1>1, <2>1 DEF Tick, OneHolder, HolderHasLock, ReapersRobNobody
  <2>3. ASSUME NEW p \in Sidecars, pc'[p] = "publish", age' = 2
        PROVE  FALSE
    <3>1. age = 1 /\ pc[p] = "publish"
      BY <1>1, <2>3 DEF Tick, TypeOK
    <3>2. slowPublish'
      BY <1>1, <3>1 DEF Tick
    <3> QED BY <3>2
  <2> QED BY <2>2, <2>3 DEF Exclusive, PromptPublish
<1>2. ASSUME NEW p \in Sidecars, Crash(p)
      PROVE  Exclusive'
  <2>1. /\ UNCHANGED lockVars
        /\ Holders' = Holders \ {p}
        /\ \A q \in Sidecars : q # p => pc'[q] = pc[q] /\ current'[q] = current[q]
        /\ pc'[p] = "dead"
    BY <1>2 DEF Crash, Goto, TypeOK
  <2> QED BY <1>0, <2>1 DEF Exclusive, OneHolder, HolderHasLock, ReapersRobNobody,
                            PromptPublish, lockVars
<1>3. ASSUME NEW p \in Sidecars, DeadlinePasses(p)
      PROVE  Exclusive'
  <2>1. UNCHANGED <<lockVars, pc, current>> /\ Holders' = Holders
    BY <1>3 DEF DeadlinePasses, history
  <2> QED BY <1>0, <2>1 DEF Exclusive, OneHolder, HolderHasLock, ReapersRobNobody,
                            PromptPublish, lockVars
<1> QED BY <1>1, <1>2, <1>3

\* What was late or slow once remains so.
LEMMA RacesAreRemembered ==
  ASSUME [Next]_vars
  PROVE  (lateReap => lateReap') /\ (slowPublish => slowPublish')
<1>1. ASSUME NEW p \in Sidecars, WaitStep(p) \/ Crash(p) \/ DeadlinePasses(p)
      PROVE  (lateReap => lateReap') /\ (slowPublish => slowPublish')
  <2>1. CASE Reap(p)
    BY <2>1 DEF Reap
  <2>2. CASE ReapFails(p)
    BY <2>2, Zenon DEF ReapFails
  <2> QED BY <1>1, <2>1, <2>2 DEF WaitStep, Mkdir, Eexist, ReadPid, Stat, JudgeStale, JudgeWait, Crash,
                            DeadlinePasses, history
<1>2. ASSUME NEW p \in Sidecars, HoldStep(p)
      PROVE  (lateReap => lateReap') /\ (slowPublish => slowPublish')
  BY <1>2 DEF HoldStep, Publish, PublishFails, OpenSucceeds, OpenTransient, OpenFails, Opened,
              ReadToken, RemoveLock, RemoveLockFails, CooldownOver, history
<1>3. CASE Tick
  BY <1>3 DEF Tick
<1>4. CASE UNCHANGED vars
  BY <1>4 DEF vars, history
<1> QED BY <1>1, <1>2, <1>3, <1>4 DEF Next

LEMMA ExclusiveStep == TypeOK /\ Ownership /\ ExclusiveInv /\ [Next]_vars => ExclusiveInv'
<1> SUFFICES ASSUME TypeOK, Ownership, ExclusiveInv, [Next]_vars, ~lateReap', ~slowPublish'
             PROVE  Exclusive'
  BY DEF ExclusiveInv
<1>1. Exclusive
  BY RacesAreRemembered DEF ExclusiveInv
<1>2. CASE UNCHANGED vars
  BY <1>1, <1>2 DEF vars, lockVars, history, Holders, Exclusive, OneHolder, HolderHasLock,
                    ReapersRobNobody, PromptPublish
<1> QED BY <1>1, <1>2, WaitExclusive, HoldExclusive, ClockExclusive DEF Next

\* At most one process has the store open to bind, for any number of
\* processes, crashes, failed writes and retries, unless a waiter removed a
\* lock it had not judged or a live creator overran the publication grace.
THEOREM BindIsExclusive == Spec => []ExclusiveUnlessRaced
<1>1. Init => ExclusiveInv
  BY DEF Init, ExclusiveInv, Exclusive, OneHolder, HolderHasLock, ReapersRobNobody,
         PromptPublish, Holders, Holding
<1>2. ExclusiveInv => ExclusiveUnlessRaced
  BY DEF ExclusiveInv, Exclusive, OneHolder, ExclusiveUnlessRaced, Holders, Holding
<1>3. Spec => []ExclusiveInv
  BY <1>1, ExclusiveStep, OwnershipAlways, PTL DEF Spec
<1> QED BY <1>2, <1>3, PTL

(* The bind mutex is a lock that only the dead lose. *)

LockView == <<dirExists, Owners, Opening, Left>>
LockVars == <<dirExists, Owners, Opening, Left, Raced>>

\* What one process does to the lock as others see it: nothing, while the
\* processes that own it, have the store open or are gone remain the same.
LEMMA Unnoticed ==
  ASSUME UNCHANGED dirExists,
         \A q \in Sidecars : /\ Owns(q)' <=> Owns(q)
                             /\ pc'[q] = "open" <=> pc[q] = "open"
                             /\ pc'[q] \in Gone <=> pc[q] \in Gone
  PROVE  UNCHANGED LockView
<1>1. Owners' = Owners
  BY DEF Owners
<1>2. Opening' = Opening
  BY DEF Opening
<1>3. Left' = Left
  BY DEF Left, Alive
<1> QED BY <1>1, <1>2, <1>3 DEF LockView

\* A process that dies or gives up, and may leave the lock with no name on it.
LEMMA GoesAway ==
  ASSUME NEW p \in Sidecars, pc[p] \notin Gone, pc'[p] \in Gone, TypeOK,
         UNCHANGED dirExists,
         \A q \in Sidecars : q # p => pc'[q] = pc[q] /\ (Owns(q)' <=> Owns(q)),
         Owns(p)' => Owns(p)
  PROVE  Lock!GoAway(p)
<1>1. Left' = Left \cup {p}
  <2>1. \A q \in Sidecars : pc'[q] \in Gone <=> (pc[q] \in Gone \/ q = p)
    OBVIOUS
  <2> QED BY <2>1 DEF Left, Alive
<1>2. Opening' = Opening \ {p}
  <2>1. \A q \in Sidecars : pc'[q] = "open" <=> (pc[q] = "open" /\ q # p)
    BY DEF Gone
  <2> QED BY <2>1 DEF Opening
<1>3. Owners' = Owners \/ Owners' = Owners \ {p}
  <2>1. CASE Owns(p)' <=> Owns(p)
    <3>1. \A q \in Sidecars : Owns(q)' <=> Owns(q)
      BY <2>1
    <3> QED BY <3>1 DEF Owners
  <2>2. CASE ~Owns(p)'
    <3>1. \A q \in Sidecars : Owns(q)' <=> (Owns(q) /\ q # p)
      BY <2>2
    <3> QED BY <3>1 DEF Owners
  <2> QED BY <2>1, <2>2
<1>4. p \notin Left
  BY DEF Left, Alive
<1> QED BY <1>1, <1>2, <1>3, <1>4 DEF Lock!GoAway

\* The directory goes: nobody owns the lock.
LEMMA NobodyOwns ==
  ASSUME ~dirExists'
  PROVE  Owners' = {}
<1>1. \A q \in Sidecars : ~Owns(q)'
  BY DEF Owns
<1> QED BY <1>1 DEF Owners

\* Whoever owns a lock that is still as the waiter judged it is gone.
LEMMA ReapedAreLeft ==
  ASSUME Ownership, Exclusive, NEW p \in Sidecars, pc[p] = "reap", current[p]
  PROVE  Owners \subseteq Left
<1>1. Holders = {}
  BY DEF Exclusive, ReapersRobNobody
<1>2. \A q \in Sidecars : Owns(q) => pc[q] \in Gone
  BY <1>1 DEF Owns, Holders, Holding, Ownership, VerdictIsCurrent
<1> QED BY <1>2 DEF Owners, Left, Alive

LEMMA WaitKeepsLock ==
  ASSUME TypeOK, Ownership, Exclusive, ~lateReap', NEW p \in Sidecars, WaitStep(p)
  PROVE  Lock!Keep \/ UNCHANGED LockView
<1> USE SidecarsAssumption
<1>0. pc \in [Sidecars -> Pc] /\ pidFile \in Pids
  BY DEF TypeOK
<1>1. CASE Mkdir(p)
  <2>1. ~dirExists /\ dirExists' /\ pidFile' = NoPid /\ pc[p] = "try"
    BY <1>1 DEF Mkdir
  <2>2. pc'[p] = "publish" /\ \A q \in Sidecars : q # p => pc'[q] = pc[q]
    BY <1>0, <1>1 DEF Mkdir, Goto
  <2>3. \A q \in Sidecars : q # p => pc[q] # "publish"
    BY <2>1 DEF Exclusive, HolderHasLock, Holders, Holding
  <2>4. Owners' = {p}
    <3>1. \A q \in Sidecars : Owns(q)' <=> q = p
      BY <2>1, <2>2, <2>3 DEF Owns
    <3> QED BY <3>1 DEF Owners
  <2>5. Opening' = Opening
    <3>1. \A q \in Sidecars : pc'[q] = "open" <=> pc[q] = "open"
      BY <2>1, <2>2
    <3> QED BY <3>1 DEF Opening
  <2>6. Left' = Left
    <3>1. \A q \in Sidecars : pc'[q] \in Gone <=> pc[q] \in Gone
      BY <2>1, <2>2 DEF Gone
    <3> QED BY <3>1 DEF Left, Alive
  <2>7. p \notin Left
    BY <2>1 DEF Left, Alive, Gone
  <2>8. dirExists \in BOOLEAN /\ dirExists' = TRUE
    BY <1>1 DEF Mkdir, TypeOK
  <2>9. Lock!Acquire(p)
    BY <2>1, <2>4, <2>5, <2>6, <2>7, <2>8 DEF Lock!Acquire
  <2> QED BY <2>9 DEF Lock!Keep
<1>2. CASE Eexist(p) \/ ReadPid(p) \/ Stat(p) \/ JudgeStale(p)
  <2>1. UNCHANGED <<dirExists, pidFile>>
    BY <1>2 DEF Eexist, ReadPid, Stat, JudgeStale, lockVars
  <2>2. /\ pc[p] \in Waiting /\ pc'[p] \in Waiting
        /\ \A q \in Sidecars : q # p => pc'[q] = pc[q]
    BY <1>0, <1>2 DEF Eexist, ReadPid, Stat, JudgeStale, Goto, Waiting
  <2> QED BY <2>1, <2>2, Unnoticed DEF Owns, Waiting, Gone
<1>3. CASE JudgeWait(p)
  <2>1. UNCHANGED <<dirExists, pidFile>> /\ pc[p] = "judge"
    BY <1>3 DEF JudgeWait, lockVars
  <2>2. /\ pc'[p] \in {"failed", "try"}
        /\ \A q \in Sidecars : q # p => pc'[q] = pc[q]
    BY <1>0, <1>3 DEF JudgeWait, Goto
  <2>3. CASE pc'[p] = "try"
    BY <2>1, <2>2, <2>3, Unnoticed DEF Owns, Gone
  <2>4. CASE pc'[p] = "failed"
    <3>1. Lock!GoAway(p)
      BY <2>1, <2>2, <2>4, GoesAway DEF Owns, Gone
    <3> QED BY <3>1 DEF Lock!Keep
  <2> QED BY <2>2, <2>3, <2>4
<1>4. CASE Reap(p)
  <2>1. /\ dirExists' = FALSE /\ pidFile' = NoPid /\ pc[p] = "reap" /\ pc'[p] = "try"
        /\ \A q \in Sidecars : q # p => pc'[q] = pc[q]
    BY <1>0, <1>4 DEF Reap, RemoveDir, Goto
  <2>2. Owners' = {}
    BY <2>1, NobodyOwns
  <2>3. Opening' = Opening
    <3>1. \A q \in Sidecars : pc'[q] = "open" <=> pc[q] = "open"
      BY <2>1
    <3> QED BY <3>1 DEF Opening
  <2>4. Left' = Left
    <3>1. \A q \in Sidecars : pc'[q] \in Gone <=> pc[q] \in Gone
      BY <2>1 DEF Gone
    <3> QED BY <3>1 DEF Left, Alive
  <2>5. CASE dirExists
    <3>1. current[p]
      BY <1>4, <2>5 DEF Reap, TypeOK
    <3>2. Owners \subseteq Left
      BY <2>1, <3>1, ReapedAreLeft
    <3>3. Lock!Revoke
      BY <2>1, <2>2, <2>3, <2>4, <2>5, <3>2 DEF Lock!Revoke
    <3> QED BY <3>3 DEF Lock!Keep
  <2>6. CASE ~dirExists
    <3>1. Owners = {}
      BY <2>6 DEF Owners, Owns
    <3>2. dirExists' = dirExists
      BY <2>1, <2>6 DEF TypeOK
    <3> QED BY <2>2, <2>3, <2>4, <3>1, <3>2 DEF LockView
  <2> QED BY <2>5, <2>6
<1>5. CASE ReapFails(p)
  <2>1. /\ dirExists /\ dirExists' = dirExists /\ pc[p] = "reap" /\ pc'[p] = "try"
        /\ \A q \in Sidecars : q # p => pc'[q] = pc[q]
    BY <1>0, <1>5 DEF ReapFails, RemovalFails, Goto
  <2>2. CASE pidFile' = pidFile
    BY <2>1, <2>2, Unnoticed DEF Owns, Gone
  <2>3. CASE pidFile' # pidFile
    <3>1. current[p] /\ pidFile' = NoPid
      BY <1>5, <2>3 DEF ReapFails, RemovalFails, TypeOK
    <3>2. Owners \subseteq Left
      BY <2>1, <3>1, ReapedAreLeft
    <3>3. Owners' = {}
      <4>1. \A q \in Sidecars : pc[q] # "publish"
        BY <2>1, <3>1 DEF Exclusive, ReapersRobNobody, Holders, Holding
      <4>2. \A q \in Sidecars : ~Owns(q)'
        BY <2>1, <3>1, <4>1 DEF Owns
      <4> QED BY <4>2 DEF Owners
    <3>4. Opening' = Opening
      <4>1. \A q \in Sidecars : pc'[q] = "open" <=> pc[q] = "open"
        BY <2>1
      <4> QED BY <4>1 DEF Opening
    <3>5. Left' = Left
      <4>1. \A q \in Sidecars : pc'[q] \in Gone <=> pc[q] \in Gone
        BY <2>1 DEF Gone
      <4> QED BY <4>1 DEF Left, Alive
    <3>6. Lock!Revoke
      BY <2>1, <3>2, <3>3, <3>4, <3>5 DEF Lock!Revoke, TypeOK
    <3> QED BY <3>6 DEF Lock!Keep
  <2> QED BY <2>2, <2>3
<1> QED BY <1>1, <1>2, <1>3, <1>4, <1>5 DEF WaitStep

LEMMA HoldKeepsLock ==
  ASSUME TypeOK, Ownership, Exclusive, NEW p \in Sidecars, HoldStep(p)
  PROVE  Lock!Keep \/ UNCHANGED LockView
<1> USE SidecarsAssumption
<1>0. pc \in [Sidecars -> Pc] /\ pidFile \in Pids
  BY DEF TypeOK
<1>a. pc[p] \in Holding => dirExists /\ \A q \in Sidecars : Owns(q) <=> q = p
  BY DEF Owns, Exclusive, OneHolder, HolderHasLock, Holders, Holding
<1>b. pc[p] \in Holding => Owners = {p}
  BY <1>a DEF Owners
<1>c. pc[p] \in Holding => p \notin Left
  BY DEF Left, Alive, Holding, Gone
<1>1. CASE Publish(p)
  <2>1. /\ dirExists' = dirExists /\ pidFile' = p /\ pc[p] = "publish" /\ pc'[p] = "open"
        /\ \A q \in Sidecars : q # p => pc'[q] = pc[q]
    BY <1>0, <1>1 DEF Publish, Goto
  <2>2. Owners = {p} /\ p \notin Left
    BY <1>b, <1>c, <2>1 DEF Holding
  <2>3. Owners' = Owners
    <3>1. \A q \in Sidecars : Owns(q)' <=> q = p
      BY <1>a, <2>1 DEF Owns, Holding
    <3> QED BY <2>2, <3>1 DEF Owners
  <2>4. Opening' = Opening \cup {p} /\ p \notin Opening
    <3>1. \A q \in Sidecars : pc'[q] = "open" <=> (pc[q] = "open" \/ q = p)
      BY <2>1
    <3> QED BY <2>1, <3>1 DEF Opening
  <2>5. Left' = Left
    <3>1. \A q \in Sidecars : pc'[q] \in Gone <=> pc[q] \in Gone
      BY <2>1 DEF Gone
    <3> QED BY <3>1 DEF Left, Alive
  <2>6. Lock!Enter(p)
    BY <2>1, <2>2, <2>3, <2>4, <2>5 DEF Lock!Enter
  <2> QED BY <2>6 DEF Lock!Keep
<1>2. CASE PublishFails(p)
  <2>1. /\ UNCHANGED <<dirExists, pidFile>> /\ pc[p] = "publish" /\ pc'[p] = "failed"
        /\ \A q \in Sidecars : q # p => pc'[q] = pc[q]
    BY <1>0, <1>2 DEF PublishFails, Goto, lockVars
  <2>2. Lock!GoAway(p)
    BY <2>1, GoesAway DEF Owns, Gone
  <2> QED BY <2>2 DEF Lock!Keep
<1>3. CASE OpenSucceeds(p) \/ OpenTransient(p) \/ OpenFails(p)
  <2>1. /\ UNCHANGED <<dirExists, pidFile>> /\ pc[p] = "open" /\ pc'[p] = "unlock"
        /\ \A q \in Sidecars : q # p => pc'[q] = pc[q]
    BY <1>0, <1>3 DEF OpenSucceeds, OpenTransient, OpenFails, Opened, Goto, lockVars
  <2>2. Owners' = Owners
    <3>1. \A q \in Sidecars : Owns(q)' <=> Owns(q)
      BY <2>1 DEF Owns
    <3> QED BY <3>1 DEF Owners
  <2>3. Opening' = Opening \ {p} /\ p \in Opening
    <3>1. \A q \in Sidecars : pc'[q] = "open" <=> (pc[q] = "open" /\ q # p)
      BY <2>1
    <3> QED BY <2>1, <3>1 DEF Opening
  <2>4. Left' = Left
    <3>1. \A q \in Sidecars : pc'[q] \in Gone <=> pc[q] \in Gone
      BY <2>1 DEF Gone
    <3> QED BY <3>1 DEF Left, Alive
  <2>5. Lock!Exit(p)
    BY <2>1, <2>2, <2>3, <2>4 DEF Lock!Exit
  <2> QED BY <2>5 DEF Lock!Keep
<1>4. CASE ReadToken(p)
  <2>1. /\ UNCHANGED <<dirExists, pidFile>> /\ pc[p] = "unlock"
        /\ \A q \in Sidecars : q # p => pc'[q] = pc[q]
    BY <1>0, <1>4 DEF ReadToken, Goto, lockVars
  <2>2. pidFile = p
    BY <2>1 DEF Exclusive, HolderHasLock, Holders, Holding
  <2>3. pc'[p] = "remove"
    BY <1>0, <1>4, <2>2 DEF ReadToken, Goto
  <2> QED BY <2>1, <2>3, Unnoticed DEF Owns, Gone
<1>5. CASE RemoveLock(p)
  <2>1. /\ dirExists' = FALSE /\ pidFile' = NoPid /\ pc[p] = "remove"
        /\ pc'[p] \in {"bound", "cooldown", "failed"}
        /\ \A q \in Sidecars : q # p => pc'[q] = pc[q]
    BY <1>0, <1>5 DEF RemoveLock, RemoveDir, Goto, AfterRelease
  <2>2. Owners = {p} /\ p \notin Left
    BY <1>b, <1>c, <2>1 DEF Holding
  <2>3. Owners' = {}
    BY <2>1, NobodyOwns
  <2>4. Opening' = Opening /\ p \notin Opening
    <3>1. \A q \in Sidecars : pc'[q] = "open" <=> pc[q] = "open"
      BY <2>1
    <3> QED BY <2>1, <3>1 DEF Opening
  <2>5. Left' = Left \/ Left' = Left \cup {p}
    <3>1. CASE pc'[p] = "failed"
      <4>1. \A q \in Sidecars : pc'[q] \in Gone <=> (pc[q] \in Gone \/ q = p)
        BY <2>1, <3>1 DEF Gone
      <4> QED BY <4>1 DEF Left, Alive
    <3>2. CASE pc'[p] # "failed"
      <4>1. \A q \in Sidecars : pc'[q] \in Gone <=> pc[q] \in Gone
        BY <2>1, <3>2 DEF Gone
      <4> QED BY <4>1 DEF Left, Alive
    <3> QED BY <3>1, <3>2
  <2>6. Lock!Release(p)
    BY <2>1, <2>2, <2>3, <2>4, <2>5 DEF Lock!Release
  <2> QED BY <2>6 DEF Lock!Keep
<1>6. CASE CooldownOver(p)
  <2>1. /\ UNCHANGED <<dirExists, pidFile>> /\ pc[p] = "cooldown" /\ pc'[p] = "try"
        /\ \A q \in Sidecars : q # p => pc'[q] = pc[q]
    BY <1>0, <1>6 DEF CooldownOver, Goto, lockVars
  <2> QED BY <2>1, Unnoticed DEF Owns, Gone
<1>7. CASE RemoveLockFails(p)
  <2>1. /\ dirExists /\ dirExists' = dirExists /\ pidFile' \in {pidFile, NoPid}
        /\ pc[p] = "remove" /\ pc'[p] \in {"bound", "cooldown", "failed"}
        /\ \A q \in Sidecars : q # p => pc'[q] = pc[q]
    BY <1>0, <1>7 DEF RemoveLockFails, RemovalFails, Goto, AfterRelease
  <2>2. pidFile = p /\ \A q \in Sidecars : pc[q] # "publish"
    BY <2>1 DEF Exclusive, HolderHasLock, OneHolder, Holders, Holding
  <2>3. CASE pc'[p] = "failed"
    <3>1. \A q \in Sidecars : q # p => (Owns(q)' <=> Owns(q))
      BY <2>1, <2>2 DEF Owns
    <3>2. Owns(p)' => Owns(p)
      BY <2>1, <2>2 DEF Owns
    <3>3. Lock!GoAway(p)
      BY <2>1, <2>3, <3>1, <3>2, GoesAway DEF Gone
    <3> QED BY <3>3 DEF Lock!Keep
  <2>4. CASE pc'[p] # "failed" /\ pidFile' = pidFile
    BY <2>1, <2>2, <2>4, Unnoticed DEF Owns, Gone
  <2>5. CASE pc'[p] # "failed" /\ pidFile' # pidFile
    <3>1. Owners = {p} /\ p \notin Left
      BY <1>b, <1>c, <2>1 DEF Holding
    <3>2. Owners' = {}
      <4>1. \A q \in Sidecars : ~Owns(q)'
        BY <2>1, <2>2, <2>5 DEF Owns
      <4> QED BY <4>1 DEF Owners
    <3>3. Opening' = Opening /\ p \notin Opening
      <4>1. \A q \in Sidecars : pc'[q] = "open" <=> pc[q] = "open"
        BY <2>1
      <4> QED BY <2>1, <4>1 DEF Opening
    <3>4. Left' = Left
      <4>1. \A q \in Sidecars : pc'[q] \in Gone <=> pc[q] \in Gone
        BY <2>1, <2>5 DEF Gone
      <4> QED BY <4>1 DEF Left, Alive
    <3>5. Lock!Release(p)
      BY <2>1, <3>1, <3>2, <3>3, <3>4 DEF Lock!Release, TypeOK
    <3> QED BY <3>5 DEF Lock!Keep
  <2> QED BY <2>3, <2>4, <2>5
<1> QED BY <1>1, <1>2, <1>3, <1>4, <1>5, <1>6, <1>7 DEF HoldStep

LEMMA ClockKeepsLock ==
  ASSUME TypeOK,
         Tick \/ UNCHANGED vars \/ \E p \in Sidecars : Crash(p) \/ DeadlinePasses(p)
  PROVE  Lock!Keep \/ UNCHANGED LockView
<1>1. CASE Tick \/ UNCHANGED vars \/ \E p \in Sidecars : DeadlinePasses(p)
  <2>1. UNCHANGED <<dirExists, pidFile, pc>>
    BY <1>1 DEF Tick, vars, lockVars, DeadlinePasses
  <2> QED BY <2>1, Unnoticed DEF Owns
<1>2. ASSUME NEW p \in Sidecars, Crash(p)
      PROVE  Lock!Keep
  <2>1. /\ UNCHANGED <<dirExists, pidFile>> /\ pc[p] \notin Gone /\ pc'[p] = "dead"
        /\ \A q \in Sidecars : q # p => pc'[q] = pc[q]
    BY <1>2 DEF Crash, Alive, Goto, lockVars, TypeOK
  <2>2. Lock!GoAway(p)
    BY <2>1, GoesAway DEF Owns, Gone
  <2> QED BY <2>2 DEF Lock!Keep
<1> QED BY <1>1, <1>2

\* The processes together keep the promise of a lock: one owner, who alone may
\* have the store open, and who loses the lock to another only when dead -
\* until one of the two races takes place.
THEOREM BindActsAsLock == Spec => ActsAsLock
<1>1. Init => Lock!Init
  <2> SUFFICES ASSUME Init PROVE Lock!Init
    OBVIOUS
  <2>1. \A p \in Sidecars : ~Owns(p) /\ pc[p] # "open" /\ Alive(p)
    BY DEF Init, Owns, Alive, Gone
  <2>2. Owners = {} /\ Opening = {} /\ Left = {}
    BY <2>1 DEF Owners, Opening, Left
  <2>3. Raced = FALSE
    BY DEF Init, Raced
  <2> QED BY <2>2, <2>3 DEF Init, Lock!Init
<1>2. TypeOK /\ Ownership /\ ExclusiveInv /\ [Next]_vars => [Lock!Next]_LockVars
  <2> SUFFICES ASSUME TypeOK, Ownership, ExclusiveInv, [Next]_vars
               PROVE  Lock!Next \/ UNCHANGED <<LockView, Raced>>
    BY DEF LockView, LockVars
  <2>1. CASE Raced'
    BY <2>1 DEF Raced, Lock!Next
  <2>2. CASE ~Raced'
    <3>1. ~lateReap' /\ ~Raced /\ Exclusive
      BY <2>2, RacesAreRemembered DEF Raced, ExclusiveInv
    <3>2. Raced' = Raced
      BY <2>2, <3>1 DEF Raced
    <3>3. Lock!Keep \/ UNCHANGED LockView
      BY <3>1, WaitKeepsLock, HoldKeepsLock, ClockKeepsLock DEF Next
    <3> QED BY <3>1, <3>2, <3>3 DEF Lock!Next
  <2> QED BY <2>1, <2>2
<1>3. Ownership /\ ExclusiveInv => Lock!Exclusion
  <2> SUFFICES ASSUME Ownership, Exclusive, NEW p \in Sidecars, pc[p] = "open"
               PROVE  Owners = {p}
    BY DEF ExclusiveInv, Raced, Lock!Exclusion, Opening
  <2>1. \A q \in Sidecars : Owns(q) <=> q = p
    BY SidecarsAssumption DEF Owns, Exclusive, OneHolder, HolderHasLock, Holders, Holding
  <2> QED BY <2>1 DEF Owners
<1>4. Init => ExclusiveInv
  BY DEF Init, ExclusiveInv, Exclusive, OneHolder, HolderHasLock, ReapersRobNobody,
         PromptPublish, Holders, Holding
<1>5. Spec => []ExclusiveInv
  BY <1>4, ExclusiveStep, OwnershipAlways, PTL DEF Spec
<1>6. Spec => Lock!Spec
  BY <1>1, <1>2, <1>5, OwnershipAlways, PTL DEF Spec, Lock!Spec, Lock!lock, LockVars
<1> QED BY <1>3, <1>5, <1>6, OwnershipAlways, PTL DEF ActsAsLock

-----------------------------------------------------------------------------
(* The branch of a session and what is derived from it *)

(* Numbers *)

\* A set of numbers has a least element: < is well-founded on Nat.
LEMMA LeastExists ==
  ASSUME NEW T \in SUBSET Nat, T # {}
  PROVE  \E x \in T : \A y \in T : x <= y
<1>1. PICK x \in T : \A y \in T : <<y, x>> \notin OpToRel(<, Nat)
  BY NatLessThanWellFounded, WFMin
<1>2. ASSUME NEW y \in T PROVE x <= y
  <2>1. ~(y < x)
    BY <1>1 DEF OpToRel
  <2> QED BY <2>1
<1> QED BY <1>2

\* Max of FiniteSetsExt, of a set with a bound.
LEMMA MaxIsGreatest ==
  ASSUME NEW n \in Nat, NEW S \in SUBSET (0..n), S # {}
  PROVE  /\ Max(S) \in S
         /\ \A y \in S : y <= Max(S)
<1> DEFINE T == {k \in Nat : n - k \in S}
<1>1. T # {}
  <2>1. PICK y \in S : TRUE
    OBVIOUS
  <2>2. n - y \in T
    BY <2>1
  <2> QED BY <2>2
<1>2. PICK k \in T : \A j \in T : k <= j
  BY <1>1, LeastExists
<1>3. n - k \in S
  BY <1>2
<1>4. \A y \in S : n - y \in T
  OBVIOUS
<1>5. \A y \in S : y <= n - k
  BY <1>2, <1>4
<1>6. \E x \in S : \A y \in S : x >= y
  BY <1>3, <1>5
<1>7. Max(S) \in S /\ \A y \in S : Max(S) >= y
  BY <1>6 DEF Max
<1> QED BY <1>7

\* Min of FiniteSetsExt, of two numbers.
LEMMA MinOfTwo ==
  ASSUME NEW a \in Nat, NEW b \in Nat
  PROVE  Min({a, b}) \in Nat /\ Min({a, b}) <= a /\ Min({a, b}) <= b
<1>1. \E x \in {a, b} : \A y \in {a, b} : x =< y
  <2>1. CASE a <= b BY <2>1
  <2>2. CASE b <= a BY <2>2
  <2> QED BY <2>1, <2>2
<1>2. Min({a, b}) \in {a, b} /\ \A y \in {a, b} : Min({a, b}) =< y
  BY <1>1 DEF Min
<1> QED BY <1>2

\* A part of 1..n has at most n elements.
LEMMA PartOfInterval ==
  ASSUME NEW n \in Nat, NEW S \in SUBSET (1..n)
  PROVE  IsFiniteSet(S) /\ Cardinality(S) \in 0..n
<1>1. IsFiniteSet(1..n) /\ Cardinality(1..n) = n
  BY FS_Interval
<1>2. IsFiniteSet(S) /\ Cardinality(S) <= n
  BY <1>1, FS_Subset
<1>3. Cardinality(S) \in Nat
  BY <1>2, FS_CardinalityType
<1> QED BY <1>2, <1>3

\* A larger part counts more.
LEMMA StrictPart ==
  ASSUME NEW n \in Nat, NEW S \in SUBSET (1..n), NEW T \in SUBSET S
  PROVE  /\ Cardinality(T) <= Cardinality(S)
         /\ T # S => Cardinality(T) < Cardinality(S)
<1>1. /\ IsFiniteSet(S) /\ Cardinality(S) \in Nat
      /\ T \in SUBSET (1..n) /\ Cardinality(T) \in Nat
  BY PartOfInterval
<1>2. Cardinality(T) <= Cardinality(S) /\ (Cardinality(S) = Cardinality(T) => S = T)
  BY <1>1, FS_Subset
<1> QED BY <1>1, <1>2

\* Parts that share nothing add up.
LEMMA DisjointParts ==
  ASSUME NEW n \in Nat, NEW S \in SUBSET (1..n), NEW T \in SUBSET (1..n),
         S \cap T = {}
  PROVE  Cardinality(S \cup T) = Cardinality(S) + Cardinality(T)
<1>1. IsFiniteSet(S) /\ Cardinality(S) \in Nat /\ IsFiniteSet(T) /\ Cardinality(T) \in Nat
  BY PartOfInterval
<1>2. Cardinality(S \cup T) = Cardinality(S) + Cardinality(T) - Cardinality(S \cap T)
  BY <1>1, FS_Union
<1>3. Cardinality(S \cap T) = 0
  BY FS_EmptySet
<1> QED BY <1>1, <1>2, <1>3

\* The elements of S, d further on.
Shift(S, d) == {k + d : k \in S}

\* They are as many as before.
LEMMA ShiftedPart ==
  ASSUME NEW n \in Nat, NEW d \in Nat, NEW S \in SUBSET (1..n)
  PROVE  Cardinality(Shift(S, d)) = Cardinality(S)
<1> DEFINE f == [k \in S |-> k + d]
<1>1. f \in Bijection(S, Shift(S, d))
  <2>1. f \in Injection(S, Shift(S, d))
    BY DEF Injection, Shift, IsInjective
  <2>2. f \in Surjection(S, Shift(S, d))
    BY DEF Surjection, Shift
  <2> QED BY <2>1, <2>2 DEF Bijection
<1>2. ExistsBijection(S, Shift(S, d))
  BY <1>1 DEF ExistsBijection
<1>3. IsFiniteSet(S)
  BY PartOfInterval
<1> QED BY <1>2, <1>3, FS_Bijection

(* Occurrences and ids *)

\* The positions of m among the first n of s.
Occurrences(s, n, m) == {k \in 1..n : s[k] = m}

\* s and t agree up to position n.
Agree(s, t, n) == n \in 0..Len(s) /\ n \in 0..Len(t) /\ \A k \in 1..n : s[k] = t[k]

\* Count counts them, over a beginning of s,
LEMMA CountUpTo ==
  ASSUME NEW s \in Seq(Messages), NEW n \in 0..Len(s), NEW m
  PROVE  Count(SubSeq(s, 1, n), m) = Cardinality(Occurrences(s, n, m))
<1>1. /\ SubSeq(s, 1, n) \in Seq(Messages)
      /\ Len(SubSeq(s, 1, n)) = n
      /\ \A k \in 1..n : SubSeq(s, 1, n)[k] = s[k]
  OBVIOUS
<1>2. {i \in DOMAIN SubSeq(s, 1, n) : SubSeq(s, 1, n)[i] = m} = Occurrences(s, n, m)
  BY <1>1 DEF Occurrences
<1> QED BY <1>2 DEF Count

\* over a stretch from the middle,
LEMMA CountFrom ==
  ASSUME NEW s \in Seq(Messages), NEW k \in 0..Len(s), NEW n \in k..Len(s), NEW m
  PROVE  Count(SubSeq(s, k + 1, n), m) =
           Cardinality(Occurrences(s, n, m) \ Occurrences(s, k, m))
<1> DEFINE t == SubSeq(s, k + 1, n)
           S == {i \in DOMAIN t : t[i] = m}
<1>1. /\ t \in Seq(Messages) /\ Len(t) = n - k
      /\ \A i \in 1..(n - k) : t[i] = s[k + i]
  OBVIOUS
<1>2. S \in SUBSET (1..(n - k))
  BY <1>1
<1> HIDE DEF t
<1>3. Shift(S, k) = Occurrences(s, n, m) \ Occurrences(s, k, m)
  <2>1. ASSUME NEW j \in Shift(S, k)
        PROVE  j \in Occurrences(s, n, m) \ Occurrences(s, k, m)
    BY <1>1 DEF Shift, Occurrences
  <2>2. ASSUME NEW j \in Occurrences(s, n, m) \ Occurrences(s, k, m)
        PROVE  j \in Shift(S, k)
    <3>1. j \in (k + 1)..n /\ s[j] = m
      BY DEF Occurrences
    <3>2. j - k \in S /\ j = (j - k) + k
      BY <3>1, <1>1
    <3> QED BY <3>2 DEF Shift
  <2> QED BY <2>1, <2>2
<1>4. Cardinality(Shift(S, k)) = Cardinality(S)
  <2>1. n - k \in Nat /\ k \in Nat
    OBVIOUS
  <2> QED BY <1>2, <2>1, ShiftedPart
<1> QED BY <1>3, <1>4 DEF Count, t

\* and over the two together.
LEMMA CountSplits ==
  ASSUME NEW s \in Seq(Messages), NEW k \in 0..Len(s), NEW n \in k..Len(s), NEW m
  PROVE  Count(SubSeq(s, 1, k), m) + Count(SubSeq(s, k + 1, n), m) = Count(SubSeq(s, 1, n), m)
<1> DEFINE S == Occurrences(s, k, m)
           T == Occurrences(s, n, m) \ Occurrences(s, k, m)
<1>1. S \in SUBSET (1..n) /\ T \in SUBSET (1..n) /\ S \cap T = {} /\ S \cup T = Occurrences(s, n, m)
  BY DEF Occurrences
<1>2. n \in Nat /\ k \in 0..Len(s) /\ n \in 0..Len(s)
  OBVIOUS
<1>3. Count(SubSeq(s, 1, k), m) = Cardinality(S)
  BY <1>2, CountUpTo
<1>4. Count(SubSeq(s, 1, n), m) = Cardinality(S \cup T)
  BY <1>1, <1>2, CountUpTo
<1>5. Count(SubSeq(s, k + 1, n), m) = Cardinality(T)
  BY CountFrom
<1> HIDE DEF S, T
<1>6. n \in Nat /\ S \in SUBSET (1..n) /\ T \in SUBSET (1..n) /\ S \cap T = {}
  BY <1>1, <1>2
<1>7. Cardinality(S \cup T) = Cardinality(S) + Cardinality(T)
  BY <1>6, DisjointParts, Zenon
<1> QED BY <1>3, <1>4, <1>5, <1>7

\* What the id of a position is made of.
LEMMA TrueEntriesAre ==
  ASSUME NEW s \in Seq(Messages)
  PROVE  /\ TrueEntries(s) \in Seq(Messages \X Nat)
         /\ Len(TrueEntries(s)) = Len(s) /\ DOMAIN TrueEntries(s) = 1..Len(s)
         /\ \A i \in 1..Len(s) :
              /\ TrueEntries(s)[i] = <<s[i], Cardinality(Occurrences(s, i, s[i]))>>
              /\ TrueEntries(s)[i][1] = s[i]
<1>1. /\ DOMAIN TrueEntries(s) = 1..Len(s)
      /\ \A i \in 1..Len(s) :
           TrueEntries(s)[i] = <<s[i], Cardinality(Occurrences(s, i, s[i]))>>
  BY CountUpTo DEF TrueEntries
<1>2. ASSUME NEW i \in 1..Len(s)
      PROVE  Cardinality(Occurrences(s, i, s[i])) \in Nat
  <2>1. i \in Nat /\ Occurrences(s, i, s[i]) \in SUBSET (1..i)
    BY DEF Occurrences
  <2> QED BY <2>1, PartOfInterval
<1>3. ASSUME NEW i \in 1..Len(s) PROVE TrueEntries(s)[i] \in Messages \X Nat
  <2>1. s[i] \in Messages
    OBVIOUS
  <2>2. Cardinality(Occurrences(s, i, s[i])) \in Nat
    BY <1>2
  <2>3. <<s[i], Cardinality(Occurrences(s, i, s[i]))>> \in Messages \X Nat
    BY <2>1, <2>2
  <2>4. TrueEntries(s)[i] = <<s[i], Cardinality(Occurrences(s, i, s[i]))>>
    BY <1>1
  <2> QED BY <2>3, <2>4, Zenon
<1>4. TrueEntries(s) \in [1..Len(s) -> Messages \X Nat]
  BY <1>1, <1>3 DEF TrueEntries
<1> QED BY <1>1, <1>4

\* The messages of the ids are those they were made for.
LEMMA MessagesOfTrueEntries ==
  ASSUME NEW s \in Seq(Messages)
  PROVE  MessagesOf(TrueEntries(s)) = s
<1>1. DOMAIN MessagesOf(TrueEntries(s)) = 1..Len(s)
      /\ \A i \in 1..Len(s) : MessagesOf(TrueEntries(s))[i] = s[i]
  BY TrueEntriesAre DEF MessagesOf
<1>2. MessagesOf(TrueEntries(s)) = [i \in 1..Len(s) |-> s[i]]
  BY <1>1 DEF MessagesOf
<1> QED BY <1>2

\* MessagesOf keeps length and positions.
LEMMA MessagesOfType ==
  ASSUME NEW es \in Seq(Messages \X Nat)
  PROVE  /\ MessagesOf(es) \in Seq(Messages) /\ Len(MessagesOf(es)) = Len(es)
         /\ \A i \in 1..Len(es) : MessagesOf(es)[i] = es[i][1]
<1>1. DOMAIN MessagesOf(es) = 1..Len(es)
      /\ \A i \in 1..Len(es) : MessagesOf(es)[i] = es[i][1] /\ es[i] \in Messages \X Nat
  BY DEF MessagesOf
<1>2. MessagesOf(es) \in [1..Len(es) -> Messages]
  BY <1>1 DEF MessagesOf
<1>3. Len(es) \in Nat
  OBVIOUS
<1>4. MessagesOf(es) \in Seq(Messages)
  BY <1>2, <1>3
<1>5. Len(MessagesOf(es)) = Len(es)
  BY <1>1, <1>3, <1>4
<1> QED BY <1>1, <1>4, <1>5, Zenon

\* Equal ids, equal positions.
LEMMA IdsDiffer ==
  ASSUME NEW s \in Seq(Messages), NEW i \in 1..Len(s), NEW j \in 1..Len(s),
         TrueEntries(s)[i] = TrueEntries(s)[j]
  PROVE  i = j
<1>1. SUFFICES ASSUME NEW a \in 1..Len(s), NEW b \in 1..Len(s), a < b,
                      TrueEntries(s)[a] = TrueEntries(s)[b]
               PROVE  FALSE
  <2>1. CASE i < j BY <2>1, <1>1
  <2>2. CASE j < i BY <2>2, <1>1
  <2> QED BY <2>1, <2>2
<1> DEFINE A == Occurrences(s, a, s[a])
           B == Occurrences(s, b, s[b])
<1>2. s[a] = s[b] /\ Cardinality(A) = Cardinality(B)
  BY <1>1, TrueEntriesAre
<1>3. b \in Nat /\ B \in SUBSET (1..b) /\ A \in SUBSET B /\ b \in B /\ b \notin A
  BY <1>1, <1>2 DEF Occurrences
<1>4. A # B
  BY <1>3
<1>5. Cardinality(A) \in Nat /\ Cardinality(B) \in Nat
  <2>1. a \in Nat /\ A \in SUBSET (1..a)
    BY DEF Occurrences
  <2> QED BY <1>3, <2>1, PartOfInterval
<1>6. Cardinality(A) < Cardinality(B)
  BY <1>3, <1>4, StrictPart
<1> QED BY <1>2, <1>5, <1>6

\* An id depends on what comes before it alone.
LEMMA AgreeOnIds ==
  ASSUME NEW s \in Seq(Messages), NEW t \in Seq(Messages), NEW n \in Nat, Agree(s, t, n),
         NEW i \in 1..n
  PROVE  TrueEntries(s)[i] = TrueEntries(t)[i] /\ s[i] = t[i]
<1>1. i \in 1..Len(s) /\ i \in 1..Len(t) /\ s[i] = t[i]
  BY DEF Agree
<1>2. Occurrences(s, i, s[i]) = Occurrences(t, i, t[i])
  BY <1>1 DEF Agree, Occurrences
<1> QED BY <1>1, <1>2, TrueEntriesAre

(* Ordinals *)

\* The raw messages that begin among the first n positions.
Begins(s, n) == {j \in 1..n : BeginsRaw(s, j)}

\* The ordinal is their number, after the base.
LEMMA OrdinalIs ==
  ASSUME NEW s, NEW b \in Nat, NEW n \in Nat
  PROVE  /\ Ordinal(b, s, n) = b + Ordinal(0, s, n)
         /\ Ordinal(0, s, n) = Cardinality(Begins(s, n))
         /\ Ordinal(0, s, n) \in 0..n
         /\ Ordinal(b, s, n) \in Nat
<1>1. Begins(s, n) \in SUBSET (1..n)
  BY DEF Begins
<1>2. Cardinality(Begins(s, n)) \in 0..n
  BY <1>1, PartOfInterval
<1>3. Ordinal(b, s, n) = b + Cardinality(Begins(s, n)) /\ Ordinal(0, s, n) = 0 + Cardinality(Begins(s, n))
  BY DEF Ordinal, Begins
<1> QED BY <1>2, <1>3

\* Ordinals never fall, and grow where a raw message begins.
LEMMA OrdinalsGrow ==
  ASSUME NEW s, NEW i \in Nat, NEW j \in Nat, i <= j
  PROVE  /\ Ordinal(0, s, i) <= Ordinal(0, s, j)
         /\ \A k \in (i + 1)..j : BeginsRaw(s, k) => Ordinal(0, s, i) < Ordinal(0, s, j)
<1>1. Begins(s, j) \in SUBSET (1..j) /\ Begins(s, i) \in SUBSET Begins(s, j)
  BY DEF Begins
<1>2. Cardinality(Begins(s, i)) <= Cardinality(Begins(s, j))
  BY <1>1, StrictPart
<1>3. ASSUME NEW k \in (i + 1)..j, BeginsRaw(s, k)
      PROVE  Cardinality(Begins(s, i)) < Cardinality(Begins(s, j))
  <2>1. k \in Begins(s, j) /\ k \notin Begins(s, i)
    BY <1>3 DEF Begins
  <2>2. Begins(s, i) # Begins(s, j)
    BY <2>1
  <2> QED BY <1>1, <2>2, StrictPart
<1>4. Ordinal(0, s, i) = Cardinality(Begins(s, i)) /\ Ordinal(0, s, j) = Cardinality(Begins(s, j))
  BY OrdinalIs
<1> QED BY <1>2, <1>3, <1>4

\* The first message begins a raw message.
LEMMA FirstBegins == ASSUME NEW s PROVE BeginsRaw(s, 1)
  BY DEF BeginsRaw, AfterTool

\* Ordinals count from one.
LEMMA OrdinalsArePositive ==
  ASSUME NEW s, NEW n \in Nat, n >= 1
  PROVE  Ordinal(0, s, n) >= 1 /\ Ordinal(0, s, 1) = 1
<1>1. Ordinal(0, s, 0) = 0 /\ Ordinal(0, s, 1) \in 0..1 /\ Ordinal(0, s, n) \in Nat
  BY OrdinalIs
<1>2. 1 \in (0 + 1)..n /\ 1 \in (0 + 1)..1 /\ 0 \in Nat /\ 1 \in Nat /\ 0 <= n /\ 0 <= 1
  OBVIOUS
<1>3. Ordinal(0, s, 0) < Ordinal(0, s, n) /\ Ordinal(0, s, 0) < Ordinal(0, s, 1)
  BY <1>2, FirstBegins, OrdinalsGrow
<1> QED BY <1>1, <1>3

\* How messages fall into raw messages depends on what comes before them,
LEMMA AgreeOnRaw ==
  ASSUME NEW s, NEW t, NEW n \in Nat, Agree(s, t, n), NEW i \in 1..n
  PROVE  /\ AfterTool(s, i) <=> AfterTool(t, i)
         /\ BeginsRaw(s, i) <=> BeginsRaw(t, i)
         /\ Own(s, i) <=> Own(t, i)
         /\ s[i] = t[i]
<1>1. s[i] = t[i] /\ (i > 1 => s[i - 1] = t[i - 1])
  BY DEF Agree
<1> QED BY <1>1 DEF AfterTool, BeginsRaw, Own

\* and so do their ordinals.
LEMMA AgreeOnOrdinals ==
  ASSUME NEW s, NEW t, NEW n \in Nat, Agree(s, t, n), NEW i \in 0..n
  PROVE  Ordinal(0, s, i) = Ordinal(0, t, i)
<1>1. \A j \in 1..i : j \in 1..n
  OBVIOUS
<1>2. Begins(s, i) = Begins(t, i)
  BY <1>1, AgreeOnRaw DEF Begins
<1> QED BY <1>2, OrdinalIs

\* What d \o s holds, and where.
LEMMA JoinAgrees ==
  ASSUME NEW d \in Seq(Messages), NEW s \in Seq(Messages)
  PROVE  /\ d \o s \in Seq(Messages) /\ Len(d \o s) = Len(d) + Len(s)
         /\ Agree(d, d \o s, Len(d))
         /\ \A j \in 1..Len(s) : (d \o s)[Len(d) + j] = s[j]
  BY DEF Agree

\* The first message of s begins a raw message also after d.
Seam(d, s) == d # <<>> => BeginsRaw(d \o s, Len(d) + 1)

\* Where the tail s begins a raw message, it falls into raw messages as if it stood alone,
LEMMA RawJoins ==
  ASSUME NEW d \in Seq(Messages), NEW s \in Seq(Messages), Seam(d, s), NEW j \in 1..Len(s)
  PROVE  /\ BeginsRaw(d \o s, Len(d) + j) <=> BeginsRaw(s, j)
         /\ Own(d \o s, Len(d) + j) <=> Own(s, j)
         /\ s[j] \in Tools => (AfterTool(d \o s, Len(d) + j) <=> AfterTool(s, j))
<1>1. (d \o s)[Len(d) + j] = s[j] /\ (j > 1 => (d \o s)[Len(d) + j - 1] = s[j - 1])
  OBVIOUS
<1>2. CASE j > 1
  <2>1. Len(d) + j > 1
    BY <1>2
  <2>2. AfterTool(d \o s, Len(d) + j) <=> AfterTool(s, j)
    BY <1>1, <1>2, <2>1 DEF AfterTool
  <2> QED BY <1>1, <2>2 DEF BeginsRaw, Own
<1>3. CASE j = 1 /\ d = <<>>
  BY <1>1, <1>3 DEF BeginsRaw, AfterTool, Own
<1>4. CASE j = 1 /\ d # <<>>
  BY <1>1, <1>4, RolesAssumption DEF BeginsRaw, AfterTool, Own, Seam
<1> QED BY <1>2, <1>3, <1>4

\* and has its ordinals if it counts on from the last of d,
LEMMA OrdinalsJoin ==
  ASSUME NEW d \in Seq(Messages), NEW s \in Seq(Messages), Seam(d, s), NEW j \in 1..Len(s)
  PROVE  Ordinal(Ordinal(0, d, Len(d)), s, j) = Ordinal(0, d \o s, Len(d) + j)
<1> DEFINE w == d \o s
           n == Len(d)
           A == Begins(w, n)
           B == Begins(s, j)
<1>1. n \in Nat /\ j \in Nat /\ n + j \in Nat /\ Agree(d, w, n)
  BY JoinAgrees
<1>2. Ordinal(0, d, n) = Ordinal(0, w, n)
  BY <1>1, AgreeOnOrdinals
<1>3. /\ A \in SUBSET (1..(n + j)) /\ B \in SUBSET (1..j)
      /\ Shift(B, n) \in SUBSET (1..(n + j)) /\ A \cap Shift(B, n) = {}
  BY <1>1 DEF Begins, Shift
<1>4. Begins(w, n + j) = A \cup Shift(B, n)
  <2>1. \A k \in 1..j : BeginsRaw(w, n + k) <=> BeginsRaw(s, k)
    BY RawJoins
  <2>2. ASSUME NEW k \in Begins(w, n + j) PROVE k \in A \cup Shift(B, n)
    <3>1. k \in 1..(n + j) /\ BeginsRaw(w, k)
      BY DEF Begins
    <3>2. CASE k <= n
      BY <1>1, <3>1, <3>2 DEF Begins
    <3>3. CASE k > n
      <4>1. k - n \in 1..j /\ k = n + (k - n) /\ k = (k - n) + n
        BY <1>1, <3>1, <3>3
      <4>2. k - n \in B
        BY <2>1, <3>1, <4>1 DEF Begins
      <4> QED BY <4>1, <4>2 DEF Shift
    <3> QED BY <3>1, <3>2, <3>3, <1>1
  <2>3. ASSUME NEW k \in A PROVE k \in Begins(w, n + j)
    BY <1>1 DEF Begins
  <2>4. ASSUME NEW k \in Shift(B, n) PROVE k \in Begins(w, n + j)
    <3>1. PICK l \in B : k = l + n
      BY DEF Shift
    <3>2. l \in 1..j /\ BeginsRaw(s, l)
      BY DEF Begins
    <3>3. BeginsRaw(w, n + l) /\ k = n + l /\ k \in 1..(n + j)
      BY <1>1, <2>1, <3>1, <3>2
    <3> QED BY <3>3 DEF Begins
  <2> QED BY <2>2, <2>3, <2>4
<1>5. Cardinality(Begins(w, n + j)) = Cardinality(A) + Cardinality(B)
  <2>1. Cardinality(Shift(B, n)) = Cardinality(B)
    BY <1>1, <1>3, ShiftedPart
  <2>2. Cardinality(A \cup Shift(B, n)) = Cardinality(A) + Cardinality(Shift(B, n))
    BY <1>1, <1>3, DisjointParts
  <2> QED BY <1>4, <2>1, <2>2
<1>6. Ordinal(0, w, n) \in Nat /\ Ordinal(0, w, n) = Cardinality(A)
  BY <1>1, OrdinalIs
<1>7. Ordinal(0, s, j) \in Nat /\ Ordinal(0, s, j) = Cardinality(B)
  BY <1>1, OrdinalIs
<1>8. Ordinal(Ordinal(0, d, n), s, j) = Ordinal(0, w, n) + Cardinality(B)
  BY <1>1, <1>2, <1>6, <1>7, OrdinalIs
<1>9. Ordinal(0, w, n + j) = Cardinality(Begins(w, n + j))
  BY <1>1, OrdinalIs
<1> QED BY <1>5, <1>6, <1>8, <1>9

\* and its ids too if none of its messages came before.
LEMMA IdsJoin ==
  ASSUME NEW d \in Seq(Messages), NEW s \in Seq(Messages), NEW j \in 1..Len(s),
         \A i \in 1..Len(s), k \in 1..Len(d) : s[i] # d[k]
  PROVE  TrueEntries(d \o s)[Len(d) + j] = TrueEntries(s)[j]
<1> DEFINE w == d \o s
           n == Len(d)
           A == Occurrences(s, j, s[j])
<1>1. /\ n \in Nat /\ j \in Nat /\ w \in Seq(Messages) /\ n + j \in 1..Len(w)
      /\ \A k \in 1..n : w[k] = d[k]
      /\ \A k \in 1..Len(s) : w[n + k] = s[k]
  OBVIOUS
<1>2. A \in SUBSET (1..j)
  BY DEF Occurrences
<1>3. Occurrences(w, n + j, s[j]) = Shift(A, n)
  <2>1. ASSUME NEW k \in Occurrences(w, n + j, s[j]) PROVE k \in Shift(A, n)
    <3>1. k \in 1..(n + j) /\ w[k] = s[j]
      BY DEF Occurrences
    <3>2. ~(k <= n)
      BY <1>1, <3>1
    <3>3. k - n \in 1..j /\ k = n + (k - n) /\ k = (k - n) + n
      BY <1>1, <3>1, <3>2
    <3>4. k - n \in 1..Len(s) /\ s[k - n] = s[j]
      BY <1>1, <3>1, <3>3
    <3> QED BY <3>3, <3>4 DEF Shift, Occurrences
  <2>2. ASSUME NEW k \in Shift(A, n) PROVE k \in Occurrences(w, n + j, s[j])
    <3>1. PICK l \in A : k = l + n
      BY DEF Shift
    <3>2. l \in 1..j /\ s[l] = s[j]
      BY DEF Occurrences
    <3>3. l \in 1..Len(s) /\ k = n + l /\ k \in 1..(n + j)
      BY <1>1, <3>1, <3>2
    <3>4. w[k] = s[j]
      BY <1>1, <3>2, <3>3
    <3> QED BY <3>3, <3>4 DEF Occurrences
  <2> QED BY <2>1, <2>2
<1>4. Cardinality(Shift(A, n)) = Cardinality(A)
  BY <1>1, <1>2, ShiftedPart
<1>5. TrueEntries(w)[n + j] = <<w[n + j], Cardinality(Occurrences(w, n + j, w[n + j]))>>
  BY <1>1, TrueEntriesAre
<1>6. TrueEntries(s)[j] = <<s[j], Cardinality(A)>>
  BY TrueEntriesAre
<1> QED BY <1>1, <1>3, <1>4, <1>5, <1>6

(* What a request makes of the entries *)

\* commonPrefixLength: what is kept is shared.
LEMMA KeptAgrees ==
  ASSUME NEW es \in Seq(Messages \X Nat), NEW s \in Seq(Messages)
  PROVE  /\ Kept(es, s) \in 0..Len(es) /\ Kept(es, s) \in 0..Len(s)
         /\ SubSeq(MessagesOf(es), 1, Kept(es, s)) = SubSeq(s, 1, Kept(es, s))
         /\ Agree(MessagesOf(es), s, Kept(es, s))
<1> DEFINE ms == MessagesOf(es)
           m  == Min({Len(es), Len(s)})
           S  == {n \in 0..m : SubSeq(ms, 1, n) = SubSeq(s, 1, n)}
<1>1. ms \in Seq(Messages) /\ Len(ms) = Len(es)
  BY MessagesOfType
<1>2. Len(es) \in Nat /\ Len(s) \in Nat
  OBVIOUS
<1>3. m \in Nat /\ m <= Len(es) /\ m <= Len(s)
  BY <1>2, MinOfTwo
<1> HIDE DEF m, ms
<1>4. SubSeq(ms, 1, 0) = <<>> /\ SubSeq(s, 1, 0) = <<>>
  BY SubSeqEmpty
<1>5. S \in SUBSET (0..m) /\ 0 \in S
  BY <1>3, <1>4
<1>6. Max(S) \in S
  BY <1>3, <1>5, MaxIsGreatest
<1>7. Kept(es, s) = Max(S)
  BY DEF Kept, ms, m
<1>8. /\ Kept(es, s) \in 0..m
      /\ SubSeq(ms, 1, Kept(es, s)) = SubSeq(s, 1, Kept(es, s))
  BY <1>6, <1>7
<1>9. ASSUME NEW k \in 1..Kept(es, s) PROVE ms[k] = s[k]
  <2>1. Kept(es, s) \in 0..Len(ms) /\ Kept(es, s) \in 0..Len(s)
    BY <1>1, <1>2, <1>3, <1>8
  <2>2. SubSeq(ms, 1, Kept(es, s))[k] = ms[k] /\ SubSeq(s, 1, Kept(es, s))[k] = s[k]
    BY <1>1, <2>1
  <2> QED BY <1>8, <2>2
<1> QED BY <1>1, <1>2, <1>3, <1>8, <1>9 DEF ms, Agree

\* assignEntries gives the ids of a numbering from scratch.
LEMMA AssignedIsTrue ==
  ASSUME NEW es \in Seq(Messages \X Nat), NEW s \in Seq(Messages),
         es = TrueEntries(MessagesOf(es)), NEW n \in 0..Len(es), n \in 0..Len(s),
         Agree(MessagesOf(es), s, n)
  PROVE  Assigned(es, n, s) = TrueEntries(s)
<1> DEFINE ms == MessagesOf(es)
           head == SubSeq(es, 1, n)
           l == Len(s) - n
           tail == [i \in 1..l |->
                     <<s[n + i], Count(MessagesOf(head), s[n + i])
                                   + Count(SubSeq(s, n + 1, n + i), s[n + i])>>]
           whole == TrueEntries(s)
<1>1. Assigned(es, n, s) = head \o tail
  BY DEF Assigned
<1>2. /\ l \in Nat /\ Len(s) = n + l /\ DOMAIN tail = 1..l
      /\ \A i \in 1..l :
           tail[i] = <<s[n + i], Count(MessagesOf(head), s[n + i])
                                   + Count(SubSeq(s, n + 1, n + i), s[n + i])>>
  OBVIOUS
<1>3. tail = [i \in 1..l |-> tail[i]]
  OBVIOUS
<1>4. ms \in Seq(Messages) /\ Len(ms) = Len(es) /\ \A i \in 1..Len(es) : ms[i] = es[i][1]
  BY MessagesOfType
<1>5. head \in Seq(Messages \X Nat) /\ Len(head) = n /\ \A i \in 1..n : head[i] = es[i]
  OBVIOUS
<1>6. /\ whole \in Seq(Messages \X Nat) /\ Len(whole) = Len(s)
      /\ \A i \in 1..Len(s) : whole[i] \in Messages \X Nat
  BY TrueEntriesAre
<1> HIDE DEF head, tail, l, ms
<1>7. SubSeq(s, 1, n) \in Seq(Messages) /\ Len(SubSeq(s, 1, n)) = n
      /\ \A i \in 1..n : SubSeq(s, 1, n)[i] = s[i]
  OBVIOUS
<1>8. MessagesOf(head) = SubSeq(s, 1, n)
  <2>1. MessagesOf(head) \in Seq(Messages) /\ Len(MessagesOf(head)) = n
        /\ \A i \in 1..n : MessagesOf(head)[i] = head[i][1]
    BY <1>5, MessagesOfType
  <2>2. ASSUME NEW i \in 1..n PROVE MessagesOf(head)[i] = SubSeq(s, 1, n)[i]
    <3>1. i \in 1..Len(es) /\ ms[i] = s[i]
      BY <1>4 DEF Agree, ms
    <3> QED BY <1>4, <1>5, <1>7, <2>1, <3>1
  <2> QED BY <1>7, <2>1, <2>2, SeqEqual
<1>9. ASSUME NEW i \in 1..l
      PROVE  tail[i] = whole[n + i] /\ n + i \in 1..Len(s)
  <2> DEFINE m == s[n + i]
  <2>1. n \in 0..Len(s) /\ n + i \in n..Len(s) /\ n + i \in 1..Len(s) /\ n + i \in 0..Len(s)
    BY <1>2
  <2>2. Count(SubSeq(s, 1, n), m) + Count(SubSeq(s, n + 1, n + i), m) = Count(SubSeq(s, 1, n + i), m)
    BY <2>1, CountSplits
  <2>3. Count(SubSeq(s, 1, n + i), m) = Cardinality(Occurrences(s, n + i, m))
    BY <2>1, CountUpTo
  <2>4. whole[n + i] = <<m, Cardinality(Occurrences(s, n + i, m))>>
    BY <2>1, TrueEntriesAre
  <2>5. tail[i] = <<m, Count(SubSeq(s, 1, n), m) + Count(SubSeq(s, n + 1, n + i), m)>>
    BY <1>2, <1>8
  <2> QED BY <2>1, <2>2, <2>3, <2>4, <2>5
<1>10. ASSUME NEW i \in 1..n PROVE head[i] = whole[i]
  <2>1. n \in Nat /\ TrueEntries(ms)[i] = whole[i]
    BY <1>4, AgreeOnIds DEF ms
  <2>2. es = TrueEntries(ms)
    BY DEF ms
  <2> QED BY <1>5, <2>1, <2>2
<1>11. tail \in Seq(Messages \X Nat) /\ Len(tail) = l
  <2>1. \A i \in 1..l : tail[i] \in Messages \X Nat
    BY <1>6, <1>9
  <2>2. tail \in [1..l -> Messages \X Nat]
    BY <1>3, <2>1
  <2> QED BY <1>2, <2>2
<1> HIDE DEF whole
<1> DEFINE cat == head \o tail
<1>12. /\ cat \in Seq(Messages \X Nat) /\ Len(cat) = n + l
       /\ \A i \in 1..(n + l) : cat[i] = IF i <= n THEN head[i] ELSE tail[i - n]
  BY <1>2, <1>5, <1>11, ConcatProperties
<1> HIDE DEF cat
<1>13. ASSUME NEW i \in 1..Len(s) PROVE cat[i] = whole[i]
  <2>0. i \in 1..(n + l) /\ n \in Nat /\ l \in Nat
    BY <1>2
  <2>1. CASE i <= n
    <3>1. i \in 1..n /\ cat[i] = head[i]
      BY <1>12, <2>0, <2>1
    <3> QED BY <1>10, <3>1
  <2>2. CASE i > n
    <3>1. i - n \in 1..l /\ n + (i - n) = i /\ ~(i <= n)
      BY <1>2, <2>0, <2>2
    <3>2. cat[i] = tail[i - n]
      BY <1>12, <2>0, <3>1
    <3>3. tail[i - n] = whole[n + (i - n)]
      BY <1>9, <3>1
    <3> QED BY <3>1, <3>2, <3>3
  <2> QED BY <2>0, <2>1, <2>2
<1>14. cat = whole
  <2>1. Len(cat) = Len(whole) /\ Len(cat) = Len(s)
    BY <1>2, <1>6, <1>12
  <2>2. \A i \in 1..Len(cat) : cat[i] = whole[i]
    BY <1>13, <2>1
  <2> QED BY <1>6, <1>12, <2>1, <2>2, SeqEqual
<1> QED BY <1>1, <1>14 DEF whole, cat

(* Rows *)

\* A user message follows the run of tool results that begins at i.
TakenOver(s, i) ==
  \E u \in (i + 1)..Len(s) : s[u] \in Users /\ \A k \in i..(u - 1) : s[k] \in Tools

\* What a made-up row stands for.
LEMMA SynthIs ==
  ASSUME NEW s \in Seq(Messages), NEW i \in 1..Len(s)
  PROVE  Synth(s, i) <=> s[i] \in Tools /\ ~AfterTool(s, i) /\ ~TakenOver(s, i)
<1> SUFFICES ASSUME s[i] \in Tools
             PROVE  LET next == Max(RunOf(s, i)) + 1 IN
                      (next \in DOMAIN s /\ s[next] \in Users) <=> TakenOver(s, i)
  BY DEF Synth
<1> DEFINE R == RunOf(s, i)
           M == Max(R)
<1>1. R \in SUBSET (0..Len(s)) /\ i \in R /\ Len(s) \in Nat
  BY DEF RunOf
<1>2. M \in R /\ \A y \in R : y <= M
  BY <1>1, MaxIsGreatest
<1>3. /\ M \in i..Len(s) /\ \A k \in i..M : s[k] \in Tools
      /\ \A y \in i..Len(s) : (\A k \in i..y : s[k] \in Tools) => y <= M
  BY <1>2 DEF RunOf
<1> HIDE DEF M
<1>4. ASSUME M + 1 \in DOMAIN s, s[M + 1] \in Users PROVE TakenOver(s, i)
  <2>1. M + 1 \in (i + 1)..Len(s) /\ \A k \in i..((M + 1) - 1) : s[k] \in Tools
    BY <1>3, <1>4
  <2> QED BY <1>4, <2>1 DEF TakenOver
<1>5. ASSUME TakenOver(s, i) PROVE M + 1 \in DOMAIN s /\ s[M + 1] \in Users
  <2>1. PICK u \in (i + 1)..Len(s) : s[u] \in Users /\ \A k \in i..(u - 1) : s[k] \in Tools
    BY <1>5 DEF TakenOver
  <2>2. u - 1 \in i..Len(s) /\ u - 1 <= M
    BY <1>3, <2>1
  <2>3. s[u] \notin Tools
    BY <2>1, RolesAssumption
  <2>4. ~(u <= M)
    BY <1>3, <2>3
  <2>5. u = M + 1
    BY <1>3, <2>2, <2>4
  <2> QED BY <2>1, <2>5
<1> QED BY <1>4, <1>5 DEF M

\* What is made up in a longer sequence is made up in a shorter one.
LEMMA SynthShrinks ==
  ASSUME NEW s \in Seq(Messages), NEW t \in Seq(Messages), Agree(s, t, Len(s)),
         NEW i \in 1..Len(s), Synth(t, i)
  PROVE  Synth(s, i)
<1>1. Len(s) \in Nat /\ Len(s) <= Len(t) /\ i \in 1..Len(t) /\ \A k \in 1..Len(s) : s[k] = t[k]
  BY DEF Agree
<1>2. t[i] \in Tools /\ ~AfterTool(t, i) /\ ~TakenOver(t, i)
  BY <1>1, SynthIs
<1>3. s[i] \in Tools /\ ~AfterTool(s, i)
  BY <1>1, <1>2, AgreeOnRaw
<1>4. ASSUME TakenOver(s, i) PROVE FALSE
  <2>1. PICK u \in (i + 1)..Len(s) : s[u] \in Users /\ \A k \in i..(u - 1) : s[k] \in Tools
    BY <1>4 DEF TakenOver
  <2>2. u \in (i + 1)..Len(t) /\ t[u] \in Users
    BY <1>1, <2>1
  <2>3. \A k \in i..(u - 1) : t[k] \in Tools
    BY <1>1, <2>1
  <2> QED BY <1>2, <2>2, <2>3 DEF TakenOver
<1> QED BY <1>3, <1>4, SynthIs

\* Made-up rows of a tail are those it has alone.
LEMMA SynthJoins ==
  ASSUME NEW d \in Seq(Messages), NEW s \in Seq(Messages), Seam(d, s), NEW j \in 1..Len(s)
  PROVE  Synth(d \o s, Len(d) + j) <=> Synth(s, j)
<1> DEFINE w == d \o s
           n == Len(d)
<1>1. /\ w \in Seq(Messages) /\ Len(w) = n + Len(s) /\ n \in Nat /\ Len(s) \in Nat
      /\ \A k \in 1..Len(s) : w[n + k] = s[k]
  BY JoinAgrees
<1>2. n + j \in 1..Len(w)
  BY <1>1
<1>3. s[j] \in Tools => (AfterTool(w, n + j) <=> AfterTool(s, j))
  BY RawJoins
<1>4. TakenOver(w, n + j) <=> TakenOver(s, j)
  <2> HIDE DEF w, n
  <2>1. ASSUME TakenOver(w, n + j) PROVE TakenOver(s, j)
    <3>1. PICK u \in (n + j + 1)..Len(w) :
            w[u] \in Users /\ \A k \in (n + j)..(u - 1) : w[k] \in Tools
      BY <2>1 DEF TakenOver
    <3>2. u - n \in (j + 1)..Len(s) /\ u = n + (u - n)
      BY <1>1, <3>1
    <3>3. s[u - n] = w[n + (u - n)]
      BY <1>1, <3>2
    <3>4. ASSUME NEW k \in j..((u - n) - 1) PROVE s[k] \in Tools
      <4>1. k \in 1..Len(s) /\ n + k \in (n + j)..(u - 1)
        BY <1>1, <3>1, <3>2
      <4> QED BY <1>1, <3>1, <4>1
    <3> QED BY <3>1, <3>2, <3>3, <3>4 DEF TakenOver
  <2>2. ASSUME TakenOver(s, j) PROVE TakenOver(w, n + j)
    <3>1. PICK u \in (j + 1)..Len(s) : s[u] \in Users /\ \A k \in j..(u - 1) : s[k] \in Tools
      BY <2>2 DEF TakenOver
    <3>2. n + u \in (n + j + 1)..Len(w) /\ w[n + u] \in Users
      BY <1>1, <3>1
    <3>3. ASSUME NEW k \in (n + j)..((n + u) - 1) PROVE w[k] \in Tools
      <4>1. k - n \in j..(u - 1) /\ k - n \in 1..Len(s) /\ k = n + (k - n)
        BY <1>1, <3>1
      <4> QED BY <1>1, <3>1, <4>1
    <3> QED BY <3>2, <3>3 DEF TakenOver
  <2> QED BY <2>1, <2>2
<1>5. w[n + j] = s[j]
  BY <1>1
<1>6. Synth(w, n + j) <=> w[n + j] \in Tools /\ ~AfterTool(w, n + j) /\ ~TakenOver(w, n + j)
  BY <1>1, <1>2, SynthIs
<1>7. Synth(s, j) <=> s[j] \in Tools /\ ~AfterTool(s, j) /\ ~TakenOver(s, j)
  BY SynthIs
<1> QED BY <1>3, <1>4, <1>5, <1>6, <1>7

\* What was made up before the seam stays so, whatever follows.
LEMMA SynthBeforeSeam ==
  ASSUME NEW d \in Seq(Messages), NEW s \in Seq(Messages), Seam(d, s), s # <<>>,
         NEW i \in 1..Len(d)
  PROVE  Synth(d \o s, i) <=> Synth(d, i)
<1> DEFINE w == d \o s
           n == Len(d)
<1>1. /\ w \in Seq(Messages) /\ Len(w) = n + Len(s) /\ n \in Nat /\ Len(s) \in Nat
      /\ Agree(d, w, n) /\ i \in 1..Len(w) /\ i \in 1..n
  BY JoinAgrees
<1>2. ASSUME Synth(d, i), ~Synth(w, i) PROVE FALSE
  <2>1. d[i] \in Tools /\ ~AfterTool(d, i) /\ ~TakenOver(d, i)
    BY <1>2, SynthIs
  <2>2. w[i] \in Tools /\ ~AfterTool(w, i)
    BY <1>1, <2>1, AgreeOnRaw
  <2>3. TakenOver(w, i)
    BY <1>1, <1>2, <2>2, SynthIs
  <2>4. PICK u \in (i + 1)..Len(w) : w[u] \in Users /\ \A k \in i..(u - 1) : w[k] \in Tools
    BY <2>3 DEF TakenOver
  <2>5. ~(u <= n)
    <3>1. \A k \in 1..n : w[k] = d[k]
      BY <1>1 DEF Agree
    <3> QED BY <1>1, <2>1, <2>4, <3>1 DEF TakenOver
  <2>6. w[n] \in Tools /\ (w[n + 1] \in Users \/ w[n + 1] \in Tools)
    BY <1>1, <2>4, <2>5
  <2>7. AfterTool(w, n + 1) /\ w[n + 1] \notin Assistants
    BY <1>1, <2>6, RolesAssumption DEF AfterTool
  <2>8. d # <<>>
    BY <1>1
  <2> QED BY <2>7, <2>8 DEF Seam, BeginsRaw
<1>3. ASSUME Synth(w, i) PROVE Synth(d, i)
  BY <1>1, <1>3, SynthShrinks
<1> QED BY <1>2, <1>3

\* A row that may stand in the index of s for position i.
RowAt(r, s, i) ==
  \/ Own(s, i) /\ r = <<TrueEntries(s)[i], "own", Ordinal(0, s, i)>>
  \/ s[i] \in Tools /\ ~AfterTool(s, i)
       /\ r = <<TrueEntries(s)[i], "synth", Ordinal(0, s, i)>>

\* Every row is one of s, or was made up for tool results of it.
RowsIn(rows, s) == \A r \in rows : \E i \in 1..Len(s) : RowAt(r, s, i)

\* rawMessagesFor, over positions.
LEMMA RawIs ==
  ASSUME NEW s \in Seq(Messages), NEW b
  PROVE  Raw(b, TrueEntries(s)) =
           {<<TrueEntries(s)[i], "own", Ordinal(b, s, i)>> : i \in {j \in 1..Len(s) : Own(s, j)}}
             \cup
           {<<TrueEntries(s)[i], "synth", Ordinal(b, s, i)>> : i \in {j \in 1..Len(s) : Synth(s, j)}}
  BY MessagesOfTrueEntries DEF Raw

\* A row of a shared position is a row of both.
LEMMA AgreeOnRows ==
  ASSUME NEW s \in Seq(Messages), NEW t \in Seq(Messages), NEW n \in Nat, Agree(s, t, n),
         NEW i \in 1..n, NEW r, RowAt(r, s, i)
  PROVE  RowAt(r, t, i) /\ i \in 1..Len(t)
<1>1. TrueEntries(s)[i] = TrueEntries(t)[i]
  BY AgreeOnIds
<1>2. i \in 0..n /\ i \in 1..Len(t)
  BY DEF Agree
<1>3. Ordinal(0, s, i) = Ordinal(0, t, i)
  BY <1>2, AgreeOnOrdinals
<1>4. s[i] = t[i] /\ (AfterTool(s, i) <=> AfterTool(t, i)) /\ (Own(s, i) <=> Own(t, i))
  BY AgreeOnRaw
<1> QED BY <1>1, <1>2, <1>3, <1>4 DEF RowAt

\* The rows of a tail are rows of the whole.
LEMMA RawOfTail ==
  ASSUME NEW d \in Seq(Messages), NEW s \in Seq(Messages), Seam(d, s),
         \A i \in 1..Len(s), k \in 1..Len(d) : s[i] # d[k],
         NEW r \in Raw(Ordinal(0, d, Len(d)), TrueEntries(s))
  PROVE  \E j \in 1..Len(s) : RowAt(r, d \o s, Len(d) + j)
<1> DEFINE w == d \o s
           n == Len(d)
           o == Ordinal(0, d, n)
<1>1. PICK j \in 1..Len(s) :
        \/ Own(s, j) /\ r = <<TrueEntries(s)[j], "own", Ordinal(o, s, j)>>
        \/ Synth(s, j) /\ r = <<TrueEntries(s)[j], "synth", Ordinal(o, s, j)>>
  BY RawIs
<1>2. Ordinal(o, s, j) = Ordinal(0, w, n + j)
  BY OrdinalsJoin
<1>3. TrueEntries(s)[j] = TrueEntries(w)[n + j]
  BY IdsJoin
<1>4. (Own(w, n + j) <=> Own(s, j)) /\ w[n + j] = s[j]
      /\ (s[j] \in Tools => (AfterTool(w, n + j) <=> AfterTool(s, j)))
  BY RawJoins, JoinAgrees
<1>5. Synth(s, j) => s[j] \in Tools /\ ~AfterTool(s, j)
  BY DEF Synth
<1>6. RowAt(r, w, n + j)
  BY <1>1, <1>2, <1>3, <1>4, <1>5 DEF RowAt
<1> QED BY <1>6

\* indexMessagesAfterOrdinal adds rows of the conversation and no others.
LEMMA IndexedAreRows ==
  ASSUME NEW d \in Seq(Messages), NEW s \in Seq(Messages), Seam(d, s),
         \A i \in 1..Len(s), k \in 1..Len(d) : s[i] # d[k],
         NEW v \in Seq(Messages), Agree(d \o s, v, Len(d \o s)),
         NEW rows, RowsIn(rows, v)
  PROVE  RowsIn(Indexed(rows, Ordinal(0, d, Len(d)), TrueEntries(s)), v)
<1>1. ASSUME NEW r \in Raw(Ordinal(0, d, Len(d)), TrueEntries(s))
      PROVE  \E i \in 1..Len(v) : RowAt(r, v, i)
  <2>1. PICK j \in 1..Len(s) : RowAt(r, d \o s, Len(d) + j)
    BY RawOfTail
  <2>2. /\ d \o s \in Seq(Messages) /\ Len(d \o s) \in Nat
        /\ Len(d) + j \in 1..Len(d \o s)
    BY JoinAgrees
  <2> QED BY <2>1, <2>2, AgreeOnRows
<1> QED BY <1>1 DEF RowsIn, Indexed

\* Rows of one position and kind are one row.
LEMMA RowsAreOne ==
  ASSUME NEW s \in Seq(Messages), NEW i \in 1..Len(s), NEW j \in 1..Len(s),
         NEW q, NEW r, RowAt(q, s, i), RowAt(r, s, j), q[1] = r[1], q[2] = r[2]
  PROVE  q = r
<1>1. q[1] = TrueEntries(s)[i] /\ r[1] = TrueEntries(s)[j]
  BY DEF RowAt
<1>2. i = j
  BY <1>1, IdsDiffer
<1> QED BY <1>2 DEF RowAt

\* After a request the index has the rows of the whole, if it had those of what
\* came before the tail.
LEMMA IndexedIsComplete ==
  ASSUME NEW d \in Seq(Messages), NEW s \in Seq(Messages), Seam(d, s),
         \A i \in 1..Len(s), k \in 1..Len(d) : s[i] # d[k],
         NEW rows, RowsIn(rows, d \o s),
         \A i \in 1..Len(d) :
           /\ Own(d \o s, i) => <<TrueEntries(d \o s)[i], "own", Ordinal(0, d \o s, i)>> \in rows
           /\ Synth(d \o s, i) => <<TrueEntries(d \o s)[i], "synth", Ordinal(0, d \o s, i)>> \in rows
  PROVE  Raw(0, TrueEntries(d \o s)) \subseteq
           Indexed(rows, Ordinal(0, d, Len(d)), TrueEntries(s))
<1> DEFINE w == d \o s
           n == Len(d)
           o == Ordinal(0, d, n)
<1>1. w \in Seq(Messages) /\ Len(w) = n + Len(s) /\ n \in Nat /\ Len(s) \in Nat
  BY JoinAgrees
<1>2. SUFFICES ASSUME NEW r \in Raw(0, TrueEntries(w)), r \notin rows
               PROVE  r \in Indexed(rows, o, TrueEntries(s))
  BY DEF Indexed
<1>0. ASSUME NEW i \in 1..n
      PROVE  /\ Own(w, i) => <<TrueEntries(w)[i], "own", Ordinal(0, w, i)>> \in rows
             /\ Synth(w, i) => <<TrueEntries(w)[i], "synth", Ordinal(0, w, i)>> \in rows
  OBVIOUS
<1> HIDE DEF w
<1>3. PICK i \in 1..Len(w) :
        \/ Own(w, i) /\ r = <<TrueEntries(w)[i], "own", Ordinal(0, w, i)>>
        \/ Synth(w, i) /\ r = <<TrueEntries(w)[i], "synth", Ordinal(0, w, i)>>
  BY <1>1, RawIs
<1>4. ~(i <= n)
  <2>1. ASSUME i <= n PROVE FALSE
    <3>1. i \in 1..n
      BY <1>1, <2>1
    <3> QED BY <1>0, <1>2, <1>3, <3>1
  <2> QED BY <2>1
<1>5. i - n \in 1..Len(s) /\ i = n + (i - n)
  BY <1>1, <1>4
<1>6. PICK j \in 1..Len(s) : i = n + j
  BY <1>5
<1>7. /\ Ordinal(o, s, j) = Ordinal(0, w, i) /\ TrueEntries(s)[j] = TrueEntries(w)[i]
      /\ Own(w, i) <=> Own(s, j)
      /\ Synth(w, i) <=> Synth(s, j)
  BY <1>6, OrdinalsJoin, IdsJoin, RawJoins, SynthJoins DEF w
<1>8. r \in Raw(o, TrueEntries(s))
  BY <1>3, <1>7, RawIs
<1>9. RowAt(r, w, i)
  BY <1>3 DEF RowAt, Synth
<1>10. ASSUME NEW q \in rows PROVE <<q[1], q[2]>> # <<r[1], r[2]>>
  <2>1. PICK k \in 1..Len(w) : RowAt(q, w, k)
    BY DEF RowsIn, w
  <2>2. q # r
    BY <1>2
  <2>3. ~(q[1] = r[1] /\ q[2] = r[2])
    BY <1>1, <1>9, <2>1, <2>2, RowsAreOne
  <2> QED BY <2>3
<1> QED BY <1>8, <1>10 DEF Indexed

(* The store against a branch *)

TagsIn(ids, s)    == \A t \in ids : \E i \in 1..Len(s) : t = TrueEntries(s)[i]
CoveredIn(cs, s)  == \A c \in cs : \E i \in 1..Len(s) : s[i] = c[2] /\ Ordinal(0, s, i) = c[1]
\* Every raw message of s has its row.
RowsAllIn(rows, s) == Raw(0, TrueEntries(s)) \subseteq rows

\* The index, the tags and the compartments are those of s.
StoreAgrees(rows, ids, cs, s) ==
  RowsIn(rows, s) /\ RowsAllIn(rows, s) /\ TagsIn(ids, s) /\ CoveredIn(cs, s)

\* A prefix shares all its positions.
LEMMA PrefixAgrees ==
  ASSUME NEW s \in Seq(Messages), NEW t \in Seq(Messages), IsPrefix(s, t)
  PROVE  Agree(s, t, Len(s))
<1>1. Len(s) <= Len(t) /\ SubSeq(s, 1, Len(s)) = SubSeq(t, 1, Len(s))
  BY DEF IsPrefix
<1>2. \A k \in 1..Len(s) : SubSeq(s, 1, Len(s))[k] = s[k] /\ SubSeq(t, 1, Len(s))[k] = t[k]
  BY <1>1
<1>3. Len(s) \in 0..Len(s) /\ Len(s) \in 0..Len(t)
  BY <1>1
<1> QED BY <1>1, <1>2, <1>3 DEF Agree

\* The rows of a position are there.
LEMMA RowsHeld ==
  ASSUME NEW s \in Seq(Messages), NEW rows, RowsAllIn(rows, s), NEW i \in 1..Len(s)
  PROVE  /\ Own(s, i) => <<TrueEntries(s)[i], "own", Ordinal(0, s, i)>> \in rows
         /\ Synth(s, i) => <<TrueEntries(s)[i], "synth", Ordinal(0, s, i)>> \in rows
  BY RawIs DEF RowsAllIn

\* What carries over between sequences that agree long enough.
LEMMA AgreeOnTagsAndCover ==
  ASSUME NEW s \in Seq(Messages), NEW t \in Seq(Messages), NEW n \in Nat, Agree(s, t, n),
         NEW i \in 1..n
  PROVE  /\ i \in 1..Len(t) /\ s[i] = t[i] /\ TrueEntries(s)[i] = TrueEntries(t)[i]
         /\ Ordinal(0, s, i) = Ordinal(0, t, i)
<1>1. i \in 0..n /\ i \in 1..Len(t)
  BY DEF Agree
<1> QED BY <1>1, AgreeOnIds, AgreeOnOrdinals

\* A request that adds to the branch.
LEMMA StoreGrows ==
  ASSUME NEW d \in Seq(Messages), NEW s \in Seq(Messages), Seam(d, s),
         \A i \in 1..Len(s), k \in 1..Len(d) : s[i] # d[k],
         NEW v \in Seq(Messages), IsPrefix(v, d \o s), d # <<>> => IsPrefix(d, v),
         NEW rows, NEW ids, NEW cs, StoreAgrees(rows, ids, cs, v)
  PROVE  StoreAgrees(Indexed(rows, Ordinal(0, d, Len(d)), TrueEntries(s)), ids, cs, d \o s)
<1> DEFINE w == d \o s
           n == Len(d)
           o == Ordinal(0, d, n)
<1>1. w \in Seq(Messages) /\ n \in Nat /\ Len(v) \in Nat /\ Len(w) \in Nat
  BY JoinAgrees
<1>2. Agree(v, w, Len(v)) /\ Agree(w, w, Len(w))
  <2>1. Agree(v, w, Len(v))
    BY <1>1, PrefixAgrees
  <2>2. Agree(w, w, Len(w))
    BY <1>1 DEF Agree
  <2> QED BY <2>1, <2>2
<1> HIDE DEF w, n, o
<1>3. RowsIn(rows, w)
  BY <1>1, <1>2, AgreeOnRows DEF RowsIn, StoreAgrees
<1>4. RowsIn(Indexed(rows, o, TrueEntries(s)), w)
  BY <1>1, <1>2, <1>3, IndexedAreRows DEF w, n, o
<1>5. ASSUME NEW i \in 1..n
      PROVE  /\ Own(w, i) => <<TrueEntries(w)[i], "own", Ordinal(0, w, i)>> \in rows
             /\ Synth(w, i) => <<TrueEntries(w)[i], "synth", Ordinal(0, w, i)>> \in rows
  <2>1. d # <<>>
    BY DEF n
  <2>2. Len(d) <= Len(v)
    BY <2>1 DEF IsPrefix, n
  <2>3. i \in 1..Len(v)
    BY <1>1, <2>2 DEF n
  <2>4. TrueEntries(v)[i] = TrueEntries(w)[i] /\ Ordinal(0, v, i) = Ordinal(0, w, i)
    BY <1>1, <1>2, <2>3, AgreeOnTagsAndCover
  <2>5. (Own(v, i) <=> Own(w, i)) /\ (Synth(w, i) => Synth(v, i))
    BY <1>1, <1>2, <2>3, AgreeOnRaw, SynthShrinks
  <2> QED BY <2>3, <2>4, <2>5, RowsHeld DEF StoreAgrees
<1>6. RowsAllIn(Indexed(rows, o, TrueEntries(s)), w)
  BY <1>3, <1>5, IndexedIsComplete DEF RowsAllIn, w, n, o
<1>7. TagsIn(ids, w) /\ CoveredIn(cs, w)
  <2>1. ASSUME NEW i \in 1..Len(v)
        PROVE  /\ i \in 1..Len(w) /\ v[i] = w[i] /\ TrueEntries(v)[i] = TrueEntries(w)[i]
               /\ Ordinal(0, v, i) = Ordinal(0, w, i)
    BY <1>1, <1>2, AgreeOnTagsAndCover
  <2>2. TagsIn(ids, v) => TagsIn(ids, w)
    BY <2>1 DEF TagsIn
  <2>3. CoveredIn(cs, v) => CoveredIn(cs, w)
    BY <2>1 DEF CoveredIn
  <2> QED BY <2>2, <2>3 DEF StoreAgrees
<1> QED BY <1>4, <1>6, <1>7 DEF StoreAgrees, w, n, o

\* A request that comes late and holds less than the branch.
LEMMA StoreStays ==
  ASSUME NEW d \in Seq(Messages), NEW s \in Seq(Messages), Seam(d, s),
         \A i \in 1..Len(s), k \in 1..Len(d) : s[i] # d[k],
         NEW v \in Seq(Messages), IsPrefix(d \o s, v),
         NEW rows, NEW ids, NEW cs, StoreAgrees(rows, ids, cs, v)
  PROVE  StoreAgrees(Indexed(rows, Ordinal(0, d, Len(d)), TrueEntries(s)), ids, cs, v)
<1>1. d \o s \in Seq(Messages)
  BY JoinAgrees
<1>2. Agree(d \o s, v, Len(d \o s))
  BY <1>1, PrefixAgrees
<1>3. RowsIn(Indexed(rows, Ordinal(0, d, Len(d)), TrueEntries(s)), v)
  BY <1>2, IndexedAreRows DEF StoreAgrees
<1>4. rows \subseteq Indexed(rows, Ordinal(0, d, Len(d)), TrueEntries(s))
  BY DEF Indexed
<1> QED BY <1>3, <1>4 DEF StoreAgrees, RowsAllIn

\* A rewind: what lies below the floor is what the two branches share.
LEMMA BelowFloor ==
  ASSUME NEW v \in Seq(Messages), NEW m \in 0..(Len(v) - 1), NEW i \in 1..Len(v),
         Ordinal(0, v, i) < Ordinal(0, v, m + 1)
  PROVE  i \in 1..m
<1>1. ASSUME ~(i <= m) PROVE FALSE
  <2>1. m + 1 \in Nat /\ i \in Nat /\ m + 1 <= i
    BY <1>1
  <2>2. Ordinal(0, v, m + 1) <= Ordinal(0, v, i)
    BY <2>1, OrdinalsGrow
  <2>3. Ordinal(0, v, m + 1) \in Nat /\ Ordinal(0, v, i) \in Nat
    BY <2>1, OrdinalIs
  <2> QED BY <2>2, <2>3
<1> QED BY <1>1

\* A snapshot s arrives after ms, of which it shares the first n; d came before.
\* left and gone are the rows that stay and the ids that go.
Rewinding(d, ms, s, n, floor, rows, cs, left, gone) ==
  /\ Seam(d, ms) /\ Seam(d, s) /\ s # <<>>
  /\ \A i \in 1..Len(s), k \in 1..Len(d) : s[i] # d[k]
  /\ \A i \in 1..Len(ms), k \in 1..Len(d) : ms[i] # d[k]
  /\ n \in 0..(Len(ms) - 1) /\ Agree(ms, s, n)
  /\ floor = Ordinal(0, d \o ms, Len(d) + n + 1)
  /\ \A c \in cs : c[1] < floor
  /\ left = {r \in rows : r[3] < floor}
  /\ gone = {TrueEntries(ms)[i] : i \in (n + 1)..Len(ms)}

\* A request that rewinds leaves the store to the new branch.
LEMMA StoreRewinds ==
  ASSUME NEW d \in Seq(Messages), NEW ms \in Seq(Messages), NEW s \in Seq(Messages),
         NEW n, NEW floor, NEW rows, NEW ids, NEW cs, NEW left, NEW gone,
         Rewinding(d, ms, s, n, floor, rows, cs, left, gone),
         StoreAgrees(rows, ids, cs, d \o ms)
  PROVE  StoreAgrees(Indexed(left, Ordinal(0, d, Len(d)), TrueEntries(s)), ids \ gone, cs, d \o s)
<1>0. /\ Seam(d, ms) /\ Seam(d, s) /\ s # <<>>
      /\ \A i \in 1..Len(s), k \in 1..Len(d) : s[i] # d[k]
      /\ \A i \in 1..Len(ms), k \in 1..Len(d) : ms[i] # d[k]
      /\ n \in 0..(Len(ms) - 1) /\ Agree(ms, s, n)
      /\ floor = Ordinal(0, d \o ms, Len(d) + n + 1)
      /\ \A c \in cs : c[1] < floor
      /\ left = {r \in rows : r[3] < floor}
      /\ gone = {TrueEntries(ms)[i] : i \in (n + 1)..Len(ms)}
  BY DEF Rewinding
<1> USE <1>0
<1> DEFINE w == d \o s
           v == d \o ms
           m == Len(d) + n
           o == Ordinal(0, d, Len(d))
<1>1. /\ w \in Seq(Messages) /\ Len(w) = Len(d) + Len(s) /\ v \in Seq(Messages)
      /\ Len(v) = Len(d) + Len(ms) /\ Len(d) \in Nat /\ Len(s) \in Nat /\ Len(ms) \in Nat
      /\ m \in 0..(Len(v) - 1) /\ m \in Nat /\ ms # <<>>
  BY JoinAgrees
<1>2. Agree(v, w, m) /\ Agree(w, w, Len(w))
  <2>1. n \in 0..Len(s) /\ \A k \in 1..n : ms[k] = s[k]
    BY DEF Agree
  <2>2. ASSUME NEW k \in 1..m PROVE v[k] = w[k]
    <3>1. CASE k <= Len(d)
      BY <1>1, <3>1
    <3>2. CASE k > Len(d)
      <4>1. PICK j \in 1..n : k = Len(d) + j
        <5>1. k - Len(d) \in 1..n /\ k = Len(d) + (k - Len(d))
          BY <1>1, <3>2
        <5> QED BY <5>1
      <4>2. j \in 1..Len(ms) /\ j \in 1..Len(s)
        BY <1>1, <2>1
      <4>3. v[k] = ms[j]
        BY <4>1, <4>2, JoinAgrees
      <4>4. w[k] = s[j]
        BY <4>1, <4>2, JoinAgrees
      <4> HIDE DEF v, w
      <4> QED BY <2>1, <4>3, <4>4
    <3>3. k \in Nat /\ Len(d) \in Nat
      BY <1>1
    <3> HIDE DEF v, w
    <3> QED BY <3>1, <3>2, <3>3
  <2>3. m \in 0..Len(v) /\ m \in 0..Len(w) /\ Len(w) \in 0..Len(w)
    BY <1>1, <2>1
  <2> HIDE DEF v, w, m
  <2> QED BY <2>2, <2>3 DEF Agree
<1>3. floor = Ordinal(0, v, m + 1)
  OBVIOUS
<1> HIDE DEF v, w, m
<1>4. ASSUME NEW i \in 1..Len(v), Ordinal(0, v, i) < floor
      PROVE  i \in 1..m
  BY <1>1, <1>3, <1>4, BelowFloor
<1>5. RowsIn(left, w)
  <2>1. ASSUME NEW r \in left PROVE \E i \in 1..Len(w) : RowAt(r, w, i)
    <3>1. PICK i \in 1..Len(v) : RowAt(r, v, i)
      BY DEF StoreAgrees, RowsIn, v
    <3>2. r[3] = Ordinal(0, v, i)
      BY <3>1 DEF RowAt
    <3>3. i \in 1..m
      BY <1>4, <3>2
    <3> QED BY <1>1, <1>2, <3>1, <3>3, AgreeOnRows
  <2> QED BY <2>1 DEF RowsIn
<1>6. RowsIn(Indexed(left, o, TrueEntries(s)), w)
  BY <1>1, <1>2, <1>5, IndexedAreRows DEF w
<1>7. ASSUME NEW i \in 1..Len(d)
      PROVE  /\ Own(w, i) => <<TrueEntries(w)[i], "own", Ordinal(0, w, i)>> \in left
             /\ Synth(w, i) => <<TrueEntries(w)[i], "synth", Ordinal(0, w, i)>> \in left
  <2>1. i \in 1..m /\ i \in 1..Len(v) /\ i \in Nat /\ m + 1 \in Nat
    BY <1>1 DEF m
  <2>2. TrueEntries(v)[i] = TrueEntries(w)[i] /\ Ordinal(0, v, i) = Ordinal(0, w, i)
    BY <1>1, <1>2, <2>1, AgreeOnTagsAndCover
  <2>3. Own(v, i) <=> Own(w, i)
    BY <1>1, <1>2, <2>1, AgreeOnRaw
  <2>4. Synth(w, i) <=> Synth(v, i)
    BY <1>1, SynthBeforeSeam DEF v, w
  <2>5. BeginsRaw(v, Len(d) + 1)
    BY DEF Seam, v
  <2>6. i <= m + 1 /\ Len(d) + 1 \in (i + 1)..(m + 1)
    BY <1>1 DEF m
  <2>7. Ordinal(0, v, i) < floor
    BY <1>3, <2>1, <2>5, <2>6, OrdinalsGrow
  <2>8. /\ Own(v, i) => <<TrueEntries(v)[i], "own", Ordinal(0, v, i)>> \in rows
        /\ Synth(v, i) => <<TrueEntries(v)[i], "synth", Ordinal(0, v, i)>> \in rows
    BY <1>1, <2>1, RowsHeld DEF StoreAgrees, v
  <2> QED BY <2>2, <2>3, <2>4, <2>7, <2>8
<1>8. RowsAllIn(Indexed(left, o, TrueEntries(s)), w)
  BY <1>5, <1>7, IndexedIsComplete DEF RowsAllIn, w
<1>9. TagsIn(ids \ gone, w)
  <2>1. ASSUME NEW t \in ids \ gone PROVE \E i \in 1..Len(w) : t = TrueEntries(w)[i]
    <3>1. PICK i \in 1..Len(v) : t = TrueEntries(v)[i]
      BY DEF StoreAgrees, TagsIn, v
    <3>2. ASSUME ~(i <= m) PROVE FALSE
      <4>1. PICK j \in (n + 1)..Len(ms) : i = Len(d) + j
        <5>1. i - Len(d) \in (n + 1)..Len(ms) /\ i = Len(d) + (i - Len(d))
          BY <1>1, <3>2 DEF m
        <5> QED BY <5>1
      <4>2. j \in 1..Len(ms)
        BY <1>1
      <4>3. TrueEntries(v)[i] = TrueEntries(ms)[j]
        BY <4>1, <4>2, IdsJoin DEF v
      <4> QED BY <3>1, <4>1, <4>3
    <3>3. i \in 1..m
      BY <1>1, <3>2
    <3> QED BY <1>1, <1>2, <3>1, <3>3, AgreeOnTagsAndCover
  <2> QED BY <2>1 DEF TagsIn
<1> HIDE <1>0
<1>10. CoveredIn(cs, w)
  <2>1. ASSUME NEW c \in cs
        PROVE  \E i \in 1..Len(w) : w[i] = c[2] /\ Ordinal(0, w, i) = c[1]
    <3>1. PICK i \in 1..Len(v) : v[i] = c[2] /\ Ordinal(0, v, i) = c[1]
      BY DEF StoreAgrees, CoveredIn, v
    <3>2. i \in 1..m
      BY <1>0, <1>4, <3>1
    <3>3. i \in 1..Len(w) /\ v[i] = w[i] /\ Ordinal(0, v, i) = Ordinal(0, w, i)
      BY <1>1, <1>2, <3>2, AgreeOnTagsAndCover
    <3> QED BY <3>1, <3>3
  <2> QED BY <2>1 DEF CoveredIn
<1> QED BY <1>6, <1>8, <1>9, <1>10 DEF StoreAgrees, w

(* The invariant *)

\* Types of what the proof counts with.
IngestTypes ==
  /\ transcript \in Seq(Messages) /\ dropped \in Seq(Messages) /\ branch \in Seq(Messages)
  /\ posted \subseteq Seq(Messages)
  /\ entries \in [Processes -> Seq(Messages \X Nat)]
  /\ base \in [Processes -> Nat]

\* Every process has the ids that a numbering from scratch gives.
Identified == \A p \in Processes : entries[p] = TrueEntries(MessagesOf(entries[p]))

\* No message of a tail came before it, while that is not a mishap.
NothingRepeated ==
  "repeated" \notin excuses =>
    \A p \in Processes : \A i \in 1..Len(entries[p]), k \in 1..Len(dropped) :
      MessagesOf(entries[p])[i] # dropped[k]

\* What a process holds of a tail begins at a raw message.
TailsFit == \A p \in Processes : entries[p] # <<>> => Seam(dropped, MessagesOf(entries[p]))

\* A process counts on from an ordinal only when something was reconciled.
BasesSeen == \A p \in Processes : base[p] # 0 => branch # <<>>

\* The inductive invariant.
IngestInv ==
  /\ IngestTypes /\ Identified /\ NothingRepeated
  /\ Clear => StoreAgrees(source, tags, covered, branch) /\ TailsFit /\ BasesSeen

\* It holds of the empty store.
LEMMA IngestInitially == IngestInit => IngestInv
<1> SUFFICES ASSUME IngestInit PROVE IngestInv
  OBVIOUS
<1>1. <<>> \in Seq(Messages) /\ <<>> \in Seq(Messages \X Nat)
  BY EmptySeq
<1>2. IngestTypes
  BY <1>1 DEF IngestInit, IngestTypes
<1>3. TrueEntries(<<>>) = <<>> /\ MessagesOf(<<>>) = <<>>
  BY DEF TrueEntries, MessagesOf
<1>4. Identified /\ NothingRepeated /\ TailsFit /\ BasesSeen
  BY <1>3 DEF IngestInit, Identified, NothingRepeated, TailsFit, BasesSeen
<1>5. Raw(0, TrueEntries(<<>>)) = {}
  BY <1>3 DEF Raw
<1>6. StoreAgrees(source, tags, covered, branch)
  BY <1>5 DEF IngestInit, StoreAgrees, RowsIn, RowsAllIn, TagsIn, CoveredIn
<1> QED BY <1>2, <1>4, <1>6 DEF IngestInv

\* The end of the compartments is one of their ordinals.
LEMMA EndOfCover ==
  ASSUME branch \in Seq(Messages), CoveredIn(covered, branch)
  PROVE  /\ LastEnd \in Nat
         /\ \A c \in covered : c[1] <= LastEnd
         /\ covered = {} => LastEnd = 0
         /\ covered # {} => branch # <<>>
<1> DEFINE S == {c[1] : c \in covered}
<1>1. ASSUME NEW c \in covered PROVE c[1] \in 0..Len(branch) /\ branch # <<>>
  <2>1. PICK i \in 1..Len(branch) : Ordinal(0, branch, i) = c[1]
    BY DEF CoveredIn
  <2>2. Ordinal(0, branch, i) \in 0..i
    BY OrdinalIs
  <2> QED BY <2>1, <2>2
<1>2. S \in SUBSET (0..Len(branch)) /\ Len(branch) \in Nat
  BY <1>1
<1>3. CASE covered = {}
  BY <1>3 DEF LastEnd
<1>4. CASE covered # {}
  <2>1. S # {}
    BY <1>4
  <2>2. Max(S) \in S /\ \A y \in S : y <= Max(S)
    BY <1>2, <2>1, MaxIsGreatest
  <2>3. LastEnd = Max(S)
    BY <1>4 DEF LastEnd
  <2>4. LastEnd \in Nat /\ \A c \in covered : c[1] <= LastEnd
    BY <1>2, <2>2, <2>3
  <2> QED BY <1>1, <1>4, <2>4
<1> QED BY <1>3, <1>4

\* The ordinal a tail counts on from.
LEMMA DroppedEndType ==
  ASSUME dropped \in Seq(Messages)
  PROVE  DroppedEnd \in Nat /\ (dropped = <<>> => DroppedEnd = 0)
<1>1. Len(dropped) \in Nat /\ (dropped = <<>> => Len(dropped) = 0)
  OBVIOUS
<1>2. DroppedEnd \in 0..Len(dropped)
  BY <1>1, OrdinalIs DEF DroppedEnd
<1> QED BY <1>1, <1>2

(* What a request does to the entries *)

\* Either way of taking a snapshot in gives it its ids.
LEMMA EntriesAssigned ==
  ASSUME IngestTypes, Identified, NEW p \in Processes, NEW s \in Seq(Messages)
  PROVE  /\ Assigned(entries[p], Kept(entries[p], s), s) = TrueEntries(s)
         /\ Assigned(<<>>, 0, s) = TrueEntries(s)
<1>1. entries[p] \in Seq(Messages \X Nat) /\ entries[p] = TrueEntries(MessagesOf(entries[p]))
  BY DEF IngestTypes, Identified
<1>2. /\ Kept(entries[p], s) \in 0..Len(entries[p]) /\ Kept(entries[p], s) \in 0..Len(s)
      /\ Agree(MessagesOf(entries[p]), s, Kept(entries[p], s))
  BY <1>1, KeptAgrees
<1>3. Assigned(entries[p], Kept(entries[p], s), s) = TrueEntries(s)
  BY <1>1, <1>2, AssignedIsTrue
<1>4. Assigned(<<>>, 0, s) = TrueEntries(s)
  <2>1. <<>> \in Seq(Messages \X Nat) /\ MessagesOf(<<>>) = <<>> /\ TrueEntries(<<>>) = <<>>
    BY EmptySeq DEF MessagesOf, TrueEntries
  <2>2. 0 \in 0..Len(<<>>) /\ 0 \in 0..Len(s) /\ Agree(MessagesOf(<<>>), s, 0)
    BY <2>1 DEF Agree
  <2>3. <<>> = TrueEntries(MessagesOf(<<>>))
    BY <2>1
  <2> HIDE DEF MessagesOf, TrueEntries
  <2> QED BY <2>1, <2>2, <2>3, AssignedIsTrue
<1> QED BY <1>3, <1>4

\* A request leaves its process with the ids of the snapshot.
LEMMA IngestIdentifies ==
  ASSUME IngestTypes, Identified, NEW p \in Processes, NEW s \in Seq(Messages),
         entries' = [entries EXCEPT ![p] = TrueEntries(s)]
  PROVE  /\ Identified' /\ entries' \in [Processes -> Seq(Messages \X Nat)]
         /\ MessagesOf(entries'[p]) = s /\ Len(entries'[p]) = Len(s)
         /\ \A q \in Processes \ {p} : entries'[q] = entries[q]
<1>1. /\ TrueEntries(s) \in Seq(Messages \X Nat) /\ MessagesOf(TrueEntries(s)) = s
      /\ Len(TrueEntries(s)) = Len(s)
  BY TrueEntriesAre, MessagesOfTrueEntries
<1>2. entries'[p] = TrueEntries(s) /\ \A q \in Processes \ {p} : entries'[q] = entries[q]
  BY DEF IngestTypes
<1>3. entries' \in [Processes -> Seq(Messages \X Nat)]
  BY <1>1 DEF IngestTypes
<1>4. ASSUME NEW q \in Processes
      PROVE  entries'[q] = TrueEntries(MessagesOf(entries'[q]))
  <2>1. CASE q = p
    BY <1>1, <1>2, <2>1
  <2>2. CASE q # p
    BY <1>2, <2>2 DEF Identified
  <2> QED BY <2>1, <2>2
<1> QED BY <1>1, <1>2, <1>3, <1>4 DEF Identified

(* Steps *)

\* The store and what the processes hold are left alone, or less is held.
LEMMA HostStep ==
  ASSUME IngestInv, Clear,
         (\E m \in Messages : Say(m)) \/ (\E n \in 0..MaxLength : Rewind(n)) \/ Post
  PROVE  IngestInv'
<1>1. transcript' \in Seq(Messages)
  <2>1. transcript \in Seq(Messages)
    BY DEF IngestInv, IngestTypes
  <2>2. ASSUME NEW m \in Messages, Say(m) PROVE transcript' \in Seq(Messages)
    BY <2>1, <2>2 DEF Say
  <2>3. ASSUME NEW n \in 0..MaxLength, Rewind(n) PROVE transcript' \in Seq(Messages)
    <3>1. n \in 0..Len(transcript) /\ transcript' = SubSeq(transcript, 1, n)
      BY <2>1, <2>3, BoundsAssumption DEF Rewind
    <3> QED BY <2>1, <3>1
  <2>4. CASE Post
    BY <2>1, <2>4 DEF Post, hostVars
  <2> QED BY <2>2, <2>3, <2>4
<1>2. posted' \subseteq Seq(Messages)
  BY DEF Say, Rewind, Post, IngestInv, IngestTypes
<1>3. UNCHANGED <<dropped, entries, base, source, tags, covered, branch, excuses>>
  BY DEF Say, Rewind, Post, hostVars, storeVars
<1>4. IngestTypes'
  BY <1>1, <1>2, <1>3 DEF IngestInv, IngestTypes
<1>5. Identified' /\ NothingRepeated' /\ (Clear' <=> Clear)
  BY <1>3 DEF IngestInv, Identified, NothingRepeated, Clear
<1>6. StoreAgrees(source, tags, covered, branch)' /\ TailsFit' /\ BasesSeen'
  BY <1>3 DEF IngestInv, TailsFit, BasesSeen
<1> QED BY <1>4, <1>5, <1>6 DEF IngestInv

\* A process that is replaced.
LEMMA FreshStep ==
  ASSUME IngestInv, Clear, NEW p \in Processes,
         entries' = [entries EXCEPT ![p] = <<>>], base' = [base EXCEPT ![p] = LastEnd],
         tags' \subseteq tags,
         UNCHANGED <<transcript, dropped, posted, source, covered, branch, excuses>>
  PROVE  IngestInv'
<1>1. IngestTypes /\ Identified /\ NothingRepeated /\ TailsFit /\ BasesSeen
      /\ StoreAgrees(source, tags, covered, branch)
  BY DEF IngestInv
<1>2. LastEnd \in Nat /\ (LastEnd # 0 => branch # <<>>)
  BY <1>1, EndOfCover DEF IngestTypes, StoreAgrees
<1>3. <<>> \in Seq(Messages \X Nat) /\ MessagesOf(<<>>) = <<>> /\ TrueEntries(<<>>) = <<>>
  BY EmptySeq DEF MessagesOf, TrueEntries
<1>4. /\ entries'[p] = <<>> /\ base'[p] = LastEnd
      /\ \A q \in Processes \ {p} : entries'[q] = entries[q] /\ base'[q] = base[q]
  BY <1>1 DEF IngestTypes
<1>5. IngestTypes'
  BY <1>1, <1>2, <1>3 DEF IngestTypes
<1>6. Identified'
  BY <1>1, <1>3, <1>4 DEF Identified
<1>7. NothingRepeated'
  <2>1. ASSUME "repeated" \notin excuses, NEW q \in Processes,
               NEW i \in 1..Len(entries'[q]), NEW k \in 1..Len(dropped)
        PROVE  MessagesOf(entries'[q])[i] # dropped[k]
    <3>1. q # p
      BY <1>4
    <3> QED BY <1>1, <1>4, <2>1, <3>1 DEF NothingRepeated
  <2> QED BY <2>1 DEF NothingRepeated
<1>8. TailsFit'
  BY <1>1, <1>4 DEF TailsFit
<1>9. BasesSeen'
  BY <1>1, <1>2, <1>4 DEF BasesSeen
<1>10. StoreAgrees(source, tags, covered, branch)'
  BY <1>1 DEF StoreAgrees, TagsIn
<1> QED BY <1>5, <1>6, <1>7, <1>8, <1>9, <1>10 DEF IngestInv

\* A restored tail: nobody holds anything yet.
LEMMA RestoreStep ==
  ASSUME IngestInv, RestoreTail
  PROVE  IngestInv'
<1>1. IngestTypes /\ BasesSeen /\ StoreAgrees(source, tags, covered, branch) /\ covered # {}
  BY DEF IngestInv, RestoreTail
<1>2. LastEnd \in Nat /\ branch # <<>>
  BY <1>1, EndOfCover DEF IngestTypes, StoreAgrees
<1>3. <<>> \in Seq(Messages \X Nat) /\ MessagesOf(<<>>) = <<>> /\ TrueEntries(<<>>) = <<>>
  BY EmptySeq DEF MessagesOf, TrueEntries
<1>4. transcript' \in Seq(Messages) /\ dropped' \in Seq(Messages)
  BY <1>1 DEF RestoreTail, IngestTypes
<1>5. /\ entries' = [q \in Processes |-> <<>>] /\ base' = [q \in Processes |-> LastEnd]
      /\ posted' = {} /\ UNCHANGED <<source, tags, covered, branch, excuses>>
  BY DEF RestoreTail, storeVars
<1>6. IngestTypes'
  BY <1>1, <1>2, <1>3, <1>4, <1>5 DEF IngestTypes
<1>7. Identified' /\ NothingRepeated' /\ TailsFit'
  BY <1>3, <1>5 DEF Identified, NothingRepeated, TailsFit
<1>8. BasesSeen' /\ StoreAgrees(source, tags, covered, branch)'
  BY <1>1, <1>2, <1>5 DEF BasesSeen
<1> QED BY <1>6, <1>7, <1>8 DEF IngestInv

\* A restart, and a death in the middle of a rewind.
LEMMA RestartStep ==
  ASSUME IngestInv, NEW p \in Processes, Restart(p) \/ DiesRewinding(p)
  PROVE  IngestInv'
<1>1. tags' \subseteq tags
  BY DEF Restart, DiesRewinding, TagsLeft, storeVars
<1>2. /\ Clear /\ entries' = [entries EXCEPT ![p] = <<>>]
      /\ base' = [base EXCEPT ![p] = LastEnd]
      /\ UNCHANGED <<transcript, dropped, posted, source, covered, branch, excuses>>
  BY DEF Restart, DiesRewinding, storeVars, hostVars
<1> QED BY <1>1, <1>2, FreshStep

\* Choosing a chunk writes nothing.
LEMMA PrepareStep ==
  ASSUME IngestInv, HistorianPrepare
  PROVE  IngestInv'
<1>1. UNCHANGED <<hostVars, posted, entries, base, storeVars, branch, excuses>>
  BY DEF HistorianPrepare
<1>2. /\ UNCHANGED <<transcript, dropped, posted, entries, base>>
      /\ UNCHANGED <<source, tags, covered, branch, excuses>>
  BY <1>1 DEF hostVars, storeVars
<1>3. IngestTypes' /\ Identified' /\ NothingRepeated'
  BY <1>2 DEF IngestInv, IngestTypes, Identified, NothingRepeated
<1>4. Clear => StoreAgrees(source, tags, covered, branch)' /\ TailsFit' /\ BasesSeen'
  BY <1>2 DEF IngestInv, TailsFit, BasesSeen
<1> QED BY <1>2, <1>3, <1>4 DEF IngestInv, Clear

\* The ids of what a process holds are those of the conversation.
LEMMA HeldIds ==
  ASSUME IngestInv, "repeated" \notin excuses,
         NEW p \in Processes, NEW j \in 1..Len(entries[p])
  PROVE  entries[p][j] = TrueEntries(dropped \o MessagesOf(entries[p]))[Len(dropped) + j]
<1>1. /\ entries[p] \in Seq(Messages \X Nat) /\ dropped \in Seq(Messages)
      /\ entries[p] = TrueEntries(MessagesOf(entries[p]))
  BY DEF IngestInv, IngestTypes, Identified
<1>2. MessagesOf(entries[p]) \in Seq(Messages) /\ Len(MessagesOf(entries[p])) = Len(entries[p])
  BY <1>1, MessagesOfType
<1>3. \A i \in 1..Len(MessagesOf(entries[p])), k \in 1..Len(dropped) :
        MessagesOf(entries[p])[i] # dropped[k]
  BY <1>2 DEF IngestInv, NothingRepeated
<1> DEFINE ms == MessagesOf(entries[p])
<1>4. ms \in Seq(Messages) /\ j \in 1..Len(ms)
  BY <1>2
<1> HIDE DEF ms
<1>5. TrueEntries(dropped \o ms)[Len(dropped) + j] = TrueEntries(ms)[j]
  BY <1>1, <1>3, <1>4, IdsJoin DEF ms
<1> QED BY <1>1, <1>5 DEF ms

\* The tags of what the engine holds are ids of the branch.
LEMMA RenderStep ==
  ASSUME IngestInv, Render
  PROVE  IngestInv'
<1>1. /\ Clear /\ Synced /\ tags' = tags \cup Range(entries["engine"])
      /\ UNCHANGED <<transcript, dropped, posted, entries, base>>
      /\ UNCHANGED <<source, covered, branch, excuses>>
  BY DEF Render, hostVars
<1>2. IngestTypes' /\ Identified' /\ NothingRepeated' /\ TailsFit' /\ BasesSeen'
  BY <1>1 DEF IngestInv, IngestTypes, Identified, NothingRepeated, TailsFit, BasesSeen
<1>3. StoreAgrees(source, tags, covered, branch)
  BY <1>1 DEF IngestInv
<1>4. ASSUME NEW t \in Range(entries["engine"])
      PROVE  \E i \in 1..Len(branch) : t = TrueEntries(branch)[i]
  <2>1. /\ entries["engine"] \in Seq(Messages \X Nat) /\ dropped \in Seq(Messages)
        /\ "engine" \in Processes
    BY DEF IngestInv, IngestTypes, Processes
  <2>2. PICK j \in 1..Len(entries["engine"]) : t = entries["engine"][j]
    BY <2>1, <1>4 DEF Range
  <2>3. branch = dropped \o MessagesOf(entries["engine"])
    BY <1>1 DEF Synced, Conversation
  <2>4. t = TrueEntries(branch)[Len(dropped) + j]
    BY <1>1, <2>1, <2>2, <2>3, HeldIds DEF Clear
  <2>5. /\ MessagesOf(entries["engine"]) \in Seq(Messages)
        /\ Len(MessagesOf(entries["engine"])) = Len(entries["engine"])
    BY <2>1, MessagesOfType
  <2>6. Len(branch) = Len(dropped) + Len(entries["engine"])
    BY <2>1, <2>3, <2>5, JoinAgrees
  <2>7. Len(dropped) + j \in 1..Len(branch)
    BY <2>1, <2>6
  <2> QED BY <2>4, <2>7
<1>5. TagsIn(tags', branch)
  BY <1>1, <1>3, <1>4 DEF TagsIn, StoreAgrees
<1>6. StoreAgrees(source, tags, covered, branch)'
  BY <1>1, <1>3, <1>5 DEF StoreAgrees
<1> QED BY <1>2, <1>6 DEF IngestInv

\* The compartments of a chunk are those of the branch, or its process was stale.
LEMMA PublishStep ==
  ASSUME IngestInv, HistorianPublish
  PROVE  IngestInv'
<1> DEFINE ms == MessagesOf(entries["other"])
           new == {<<Ordinal(base["other"], ms, i), ms[i]>> :
                     i \in {j \in DOMAIN ms : Ordinal(base["other"], ms, j) \in (LastEnd + 1)..chunk}}
<1>1. /\ Clear /\ covered' = covered \cup new
      /\ UNCHANGED <<transcript, dropped, posted, entries, base>>
      /\ UNCHANGED <<source, tags, branch>>
      /\ excuses' = IF base["other"] = DroppedEnd /\ IsPrefix(dropped \o ms, branch)
                    THEN excuses ELSE excuses \cup {"stale"}
  BY DEF HistorianPublish, hostVars
<1>2. "repeated" \in excuses' <=> "repeated" \in excuses
  BY <1>1
<1>3. IngestTypes' /\ Identified' /\ NothingRepeated' /\ TailsFit' /\ BasesSeen'
  <2>1. IngestTypes'
    BY <1>1 DEF IngestInv, IngestTypes
  <2>2. Identified'
    BY <1>1 DEF IngestInv, Identified
  <2>3. NothingRepeated'
    BY <1>1, <1>2 DEF IngestInv, NothingRepeated
  <2>4. TailsFit' /\ BasesSeen'
    BY <1>1 DEF IngestInv, TailsFit, BasesSeen
  <2> QED BY <2>1, <2>2, <2>3, <2>4
<1>4. ASSUME Clear' PROVE StoreAgrees(source, tags, covered, branch)'
  <2>1. base["other"] = DroppedEnd /\ IsPrefix(dropped \o ms, branch)
    BY <1>1, <1>4 DEF Clear
  <2>2. StoreAgrees(source, tags, covered, branch)
    BY <1>1 DEF IngestInv
  <2>3. /\ entries["other"] \in Seq(Messages \X Nat) /\ dropped \in Seq(Messages)
        /\ "other" \in Processes /\ branch \in Seq(Messages)
    BY DEF IngestInv, IngestTypes, Processes
  <2>4. ms \in Seq(Messages) /\ Len(ms) = Len(entries["other"])
    BY <2>3, MessagesOfType
  <2>5. ASSUME NEW i \in 1..Len(ms)
        PROVE  \E k \in 1..Len(branch) :
                 branch[k] = ms[i] /\ Ordinal(0, branch, k) = Ordinal(base["other"], ms, i)
    <3> HIDE DEF ms
    <3>1. Seam(dropped, ms)
      <4>1. entries["other"] # <<>>
        BY <2>3, <2>4
      <4> QED BY <1>1, <2>3, <4>1 DEF IngestInv, TailsFit, ms
    <3>2. Ordinal(base["other"], ms, i) = Ordinal(0, dropped \o ms, Len(dropped) + i)
      BY <2>1, <2>3, <2>4, <3>1, OrdinalsJoin DEF DroppedEnd
    <3>3. /\ dropped \o ms \in Seq(Messages) /\ Len(dropped \o ms) = Len(dropped) + Len(ms)
          /\ (dropped \o ms)[Len(dropped) + i] = ms[i]
      BY <2>3, <2>4, JoinAgrees
    <3>4. Agree(dropped \o ms, branch, Len(dropped \o ms))
      BY <2>1, <2>3, <3>3, PrefixAgrees DEF ms
    <3> DEFINE w == dropped \o ms
               k == Len(dropped) + i
    <3>5. /\ Len(w) \in Nat /\ k \in 1..Len(w)
          /\ w \in Seq(Messages) /\ Agree(w, branch, Len(w))
      BY <2>3, <2>4, <3>3, <3>4
    <3> HIDE DEF w, k
    <3>6. k \in 1..Len(branch) /\ w[k] = branch[k] /\ Ordinal(0, w, k) = Ordinal(0, branch, k)
      BY <2>3, <3>5, AgreeOnTagsAndCover
    <3> QED BY <3>2, <3>3, <3>6 DEF w, k
  <2>6. DOMAIN ms = 1..Len(ms)
    BY <2>4
  <2>7. CoveredIn(covered', branch)
    <3>1. ASSUME NEW c \in covered'
          PROVE  \E k \in 1..Len(branch) : branch[k] = c[2] /\ Ordinal(0, branch, k) = c[1]
      <4>1. CASE c \in covered
        BY <2>2, <4>1 DEF StoreAgrees, CoveredIn
      <4>2. CASE c \in new
        <5>1. PICK i \in 1..Len(ms) : c = <<Ordinal(base["other"], ms, i), ms[i]>>
          BY <2>6, <4>2
        <5> QED BY <2>5, <5>1
      <4> QED BY <1>1, <3>1, <4>1, <4>2
    <3> QED BY <3>1 DEF CoveredIn
  <2> QED BY <1>1, <2>2, <2>7 DEF StoreAgrees
<1> QED BY <1>3, <1>4 DEF IngestInv

\* Derived state is reset: the snapshot is all there is.
LEMMA ResetStep ==
  ASSUME IngestInv, Clear, NEW p \in Processes, NEW s \in Seq(Messages), s # <<>>,
         IngestResets(p, s), transcript' = transcript, posted' \subseteq posted
  PROVE  IngestInv'
<1>1. /\ entries' = [entries EXCEPT ![p] = TrueEntries(s)]
      /\ base' = [base EXCEPT ![p] = 0]
      /\ source' = Indexed({}, 0, entries'[p]) /\ tags' = {} /\ covered' = {}
      /\ dropped' = <<>> /\ branch' = s /\ excuses' = excuses
  BY EntriesAssigned DEF IngestResets, IngestInv
<1>2. /\ Identified' /\ entries' \in [Processes -> Seq(Messages \X Nat)]
      /\ entries'[p] = TrueEntries(s)
  <2>1. IngestTypes /\ Identified
    BY DEF IngestInv
  <2>2. entries'[p] = TrueEntries(s)
    BY <1>1, <2>1 DEF IngestTypes
  <2> QED BY <1>1, <2>1, <2>2, IngestIdentifies
<1>3. IngestTypes'
  <2>1. <<>> \in Seq(Messages)
    OBVIOUS
  <2> QED BY <1>1, <1>2, <2>1 DEF IngestInv, IngestTypes
<1>4. NothingRepeated' /\ TailsFit' /\ BasesSeen'
  BY <1>1 DEF NothingRepeated, TailsFit, Seam, BasesSeen
<1>5. source' = Raw(0, TrueEntries(s))
  BY <1>1, <1>2 DEF Indexed
<1>6. RowsIn(source', s)
  <2>1. ASSUME NEW r \in Raw(0, TrueEntries(s))
        PROVE  \E i \in 1..Len(s) :
                 \/ Own(s, i) /\ r = <<TrueEntries(s)[i], "own", Ordinal(0, s, i)>>
                 \/ Synth(s, i) /\ r = <<TrueEntries(s)[i], "synth", Ordinal(0, s, i)>>
    BY <2>1, RawIs
  <2>2. ASSUME NEW r \in Raw(0, TrueEntries(s))
        PROVE  \E i \in 1..Len(s) : RowAt(r, s, i)
    BY <2>1, SynthIs DEF RowAt
  <2> QED BY <1>5, <2>2 DEF RowsIn
<1>7. StoreAgrees(source, tags, covered, branch)'
  BY <1>1, <1>5, <1>6 DEF StoreAgrees, RowsAllIn, TagsIn, CoveredIn
<1> QED BY <1>2, <1>3, <1>4, <1>7 DEF IngestInv

\* What it means that a request brings no mishap about.
LEMMA NoMishap ==
  ASSUME IngestInv, NEW p \in Processes, NEW s \in Seq(Messages), NewExcuses(p, s) = {}
  PROVE  /\ Removes(p, s) \/ IsPrefix(branch, dropped \o s)
              \/ (s # transcript /\ IsPrefix(dropped \o s, branch))
         /\ entries[p] = <<>> /\ base[p] # DroppedEnd =>
              dropped = <<>> /\ Head(branch) \notin Tools
         /\ dropped # <<>> => IsPrefix(dropped, branch) /\ BeginsRaw(dropped \o s, Len(dropped) + 1)
         /\ \A i \in 1..Len(s), k \in 1..Len(dropped) : s[i] # dropped[k]
         /\ entries[p] # <<>> =>
              /\ base[p] = DroppedEnd
              /\ Removes(p, s) => dropped \o MessagesOf(entries[p]) = branch
<1>1. dropped \in Seq(Messages) /\ DOMAIN s = 1..Len(s) /\ DOMAIN dropped = 1..Len(dropped)
  BY DEF IngestInv, IngestTypes
<1>2. "unwatched" \in Mishaps /\ "tail" \in Mishaps /\ "repeated" \in Mishaps
      /\ "lagging" \in Mishaps
  BY DEF Mishaps
<1>3. Removes(p, s) \/ IsPrefix(branch, dropped \o s)
        \/ (s # transcript /\ IsPrefix(dropped \o s, branch))
  BY <1>2 DEF NewExcuses
<1>4. entries[p] = <<>> /\ base[p] # DroppedEnd => dropped = <<>> /\ Head(branch) \notin Tools
  BY <1>2 DEF NewExcuses
<1>5. dropped # <<>> => IsPrefix(dropped, branch) /\ BeginsRaw(dropped \o s, Len(dropped) + 1)
  BY <1>2 DEF NewExcuses
<1>6. \A i \in 1..Len(s), k \in 1..Len(dropped) : s[i] # dropped[k]
  BY <1>1, <1>2 DEF NewExcuses
<1>7. entries[p] # <<>> =>
        base[p] = DroppedEnd /\ (Removes(p, s) => dropped \o MessagesOf(entries[p]) = branch)
  BY <1>2 DEF NewExcuses
<1> QED BY <1>3, <1>4, <1>5, <1>6, <1>7

\* A fresh process finds nothing to remove.
LEMMA FreshRemovesNothing ==
  ASSUME IngestInv, NEW p \in Processes, NEW s \in Seq(Messages), entries[p] = <<>>
  PROVE  ~Removes(p, s)
<1>1. entries[p] \in Seq(Messages \X Nat) /\ Len(entries[p]) = 0
  BY DEF IngestInv, IngestTypes
<1>2. Kept(entries[p], s) \in 0..Len(entries[p])
  BY <1>1, KeptAgrees
<1> QED BY <1>1, <1>2 DEF Removes

\* The row of the first message, if it is no tool result.
LEMMA FirstRow ==
  ASSUME NEW v \in Seq(Messages), v # <<>>, v[1] \notin Tools,
         NEW rows, RowsAllIn(rows, v)
  PROVE  <<<<v[1], 1>>, "own", 1>> \in rows
<1>1. 1 \in 1..Len(v)
  OBVIOUS
<1>2. Occurrences(v, 1, v[1]) = {1}
  BY DEF Occurrences
<1>3. Cardinality({1}) = 1
  BY FS_Singleton
<1>4. TrueEntries(v)[1] = <<v[1], 1>>
  <2>1. TrueEntries(v)[1] = <<v[1], Cardinality(Occurrences(v, 1, v[1]))>>
    BY <1>1, TrueEntriesAre
  <2> QED BY <1>2, <1>3, <2>1
<1>5. Ordinal(0, v, 1) = 1
  BY OrdinalsArePositive
<1>6. Own(v, 1)
  BY DEF Own
<1> QED BY <1>1, <1>4, <1>5, <1>6, RowsHeld

\* A request that brings no mishap about goes on where the branch says.
LEMMA Rebasing ==
  ASSUME IngestInv, Clear, NEW p \in Processes, NEW s \in Seq(Messages), s # <<>>,
         NewExcuses(p, s) = {}
  PROVE  Rebased(p, s) = DroppedEnd
<1>1. /\ dropped \in Seq(Messages) /\ branch \in Seq(Messages)
      /\ BasesSeen /\ StoreAgrees(source, tags, covered, branch)
  BY DEF IngestInv, IngestTypes
<1>2. CASE entries[p] # <<>>
  BY <1>2, NoMishap DEF Rebased
<1>3. CASE entries[p] = <<>>
  <2>1. IsPrefix(branch, dropped \o s) \/ IsPrefix(dropped \o s, branch)
    BY <1>3, FreshRemovesNothing, NoMishap
  <2>2. CASE base[p] # DroppedEnd
    <3>1. dropped = <<>> /\ Head(branch) \notin Tools
      BY <1>3, <2>2, NoMishap
    <3>2. DroppedEnd = 0
      BY <1>1, <3>1, DroppedEndType
    <3>3. branch # <<>>
      BY <1>1, <2>2, <3>2 DEF BasesSeen
    <3>4. dropped \o s = s
      BY <3>1
    <3>5. branch[1] = s[1]
      <4>1. Agree(branch, s, Len(branch)) \/ Agree(s, branch, Len(s))
        BY <1>1, <2>1, <3>4, PrefixAgrees
      <4> QED BY <1>1, <3>3, <4>1 DEF Agree
    <3>6. branch[1] \notin Tools
      BY <1>1, <3>1, <3>3
    <3>7. <<<<s[1], 1>>, "own", 1>> \in source
      BY <1>1, <3>3, <3>5, <3>6, FirstRow DEF StoreAgrees
    <3> QED BY <1>3, <3>2, <3>7 DEF Rebased
  <2>3. CASE base[p] = DroppedEnd
    <3>1. CASE <<<<s[1], 1>>, "own", 1>> \in source /\ dropped # <<>>
      <4> DEFINE r == <<<<s[1], 1>>, "own", 1>>
                 n == Len(dropped)
                 w == dropped \o s
      <4>1. PICK i \in 1..Len(branch) : RowAt(r, branch, i)
        BY <1>1, <3>1 DEF StoreAgrees, RowsIn
      <4>2. branch[i] = s[1] /\ Ordinal(0, branch, i) = 1
        <5>1. TrueEntries(branch)[i] = <<s[1], 1>> /\ Ordinal(0, branch, i) = 1
          BY <4>1 DEF RowAt
        <5>2. TrueEntries(branch)[i][1] = branch[i]
          BY <1>1, TrueEntriesAre
        <5> QED BY <5>1, <5>2
      <4>3. n \in Nat /\ n >= 1 /\ 1 \in 1..Len(s)
        BY <1>1, <3>1
      <4>4. /\ IsPrefix(dropped, branch) /\ BeginsRaw(w, n + 1)
            /\ \A k \in 1..n : s[1] # dropped[k]
        BY <3>1, <4>3, NoMishap
      <4>5. /\ w \in Seq(Messages) /\ Len(w) = n + Len(s) /\ Len(w) \in Nat
            /\ Agree(branch, w, Len(branch)) \/ Agree(w, branch, Len(w))
        <5>1. w \in Seq(Messages) /\ Len(w) = n + Len(s)
          BY <1>1, JoinAgrees
        <5>2. Agree(branch, w, Len(branch)) \/ Agree(w, branch, Len(w))
          BY <1>1, <2>1, <5>1, PrefixAgrees
        <5>3. Len(w) \in Nat
          BY <5>1
        <5> QED BY <5>1, <5>2, <5>3
      <4>6. Agree(dropped, branch, n)
        BY <1>1, <4>4, PrefixAgrees
      <4> HIDE DEF w, n, r
      <4>7. i \in (n + 1)..Len(branch)
        <5>1. CASE i <= n
          <6>1. i \in 1..n
            BY <4>3, <5>1
          <6>2. dropped[i] = branch[i]
            BY <4>6, <6>1 DEF Agree
          <6> QED BY <4>2, <4>4, <6>1, <6>2
        <5> QED BY <1>1, <4>3, <5>1
      <4>8. BeginsRaw(branch, n + 1)
        <5>1. n + 1 \in 1..Len(branch) /\ n + 1 \in 1..Len(w) /\ Len(branch) \in Nat
          BY <1>1, <4>3, <4>5, <4>7
        <5> QED BY <4>4, <4>5, <5>1, AgreeOnRaw
      <4>9. Ordinal(0, branch, n) >= 1 /\ Ordinal(0, branch, n) \in Nat
        BY <4>3, OrdinalsArePositive, OrdinalIs
      <4>10. Ordinal(0, branch, n) < Ordinal(0, branch, i)
        <5>1. i \in Nat /\ n <= i /\ n + 1 \in (n + 1)..i
          BY <4>3, <4>7
        <5> QED BY <4>3, <4>8, <5>1, OrdinalsGrow
      <4> QED BY <4>2, <4>9, <4>10
    <3>2. CASE dropped = <<>>
      BY <1>1, <2>3, <3>2, DroppedEndType DEF Rebased
    <3>3. CASE <<<<s[1], 1>>, "own", 1>> \notin source
      BY <2>3, <3>3 DEF Rebased
    <3> QED BY <3>1, <3>2, <3>3
  <2> QED BY <2>2, <2>3
<1> QED BY <1>2, <1>3

\* The base of a request.
LEMMA RebasedIsNat ==
  ASSUME IngestTypes, NEW p \in Processes, NEW s
  PROVE  Rebased(p, s) \in Nat
  BY DEF IngestTypes, Rebased

\* What a request leaves behind, mishap or not.
LEMMA ExtendTypes ==
  ASSUME IngestInv, Clear, NEW p \in Processes, NEW s \in Seq(Messages),
         IngestExtends(p, s), transcript' = transcript, posted' \subseteq posted
  PROVE  /\ IngestTypes' /\ Identified' /\ NothingRepeated'
         /\ entries'[p] = TrueEntries(s) /\ MessagesOf(entries'[p]) = s
         /\ \A q \in Processes \ {p} : entries'[q] = entries[q]
<1>1. IngestTypes /\ Identified /\ NothingRepeated
  BY DEF IngestInv
<1>2. /\ entries' = [entries EXCEPT ![p] = TrueEntries(s)]
      /\ base' = [base EXCEPT ![p] = Rebased(p, s)]
      /\ branch' = dropped \o s \/ branch' = branch
      /\ excuses' = excuses \cup NewExcuses(p, s) /\ dropped' = dropped
  BY <1>1, EntriesAssigned DEF IngestExtends
<1>3. /\ Identified' /\ entries' \in [Processes -> Seq(Messages \X Nat)]
      /\ MessagesOf(entries'[p]) = s /\ Len(entries'[p]) = Len(s)
      /\ \A q \in Processes \ {p} : entries'[q] = entries[q]
  BY <1>1, <1>2, IngestIdentifies
<1>4. base' \in [Processes -> Nat]
  BY <1>1, <1>2, RebasedIsNat DEF IngestTypes
<1>5. branch' \in Seq(Messages)
  BY <1>1, <1>2, JoinAgrees DEF IngestTypes
<1>6. IngestTypes'
  BY <1>1, <1>2, <1>3, <1>4, <1>5 DEF IngestTypes
<1>7. ASSUME "repeated" \notin excuses', NEW q \in Processes,
             NEW i \in 1..Len(entries'[q]), NEW k \in 1..Len(dropped)
      PROVE  MessagesOf(entries'[q])[i] # dropped[k]
  <2>1. CASE q = p
    <3>1. "repeated" \notin NewExcuses(p, s) /\ "repeated" \in Mishaps
      BY <1>2, <1>7 DEF Mishaps
    <3>2. i \in DOMAIN s /\ k \in DOMAIN dropped
      BY <1>1, <1>3, <2>1 DEF IngestTypes
    <3>3. s[i] # dropped[k]
      BY <3>1, <3>2 DEF NewExcuses
    <3> QED BY <1>3, <2>1, <3>3
  <2>2. CASE q # p
    BY <1>1, <1>2, <1>3, <1>7, <2>2 DEF NothingRepeated
  <2> QED BY <2>1, <2>2
<1>8. NothingRepeated'
  <2>1. dropped' = dropped
    BY <1>2
  <2> QED BY <1>7, <2>1, Zenon DEF NothingRepeated
<1>9. entries'[p] = TrueEntries(s)
  BY <1>1, <1>2 DEF IngestTypes
<1> QED BY <1>3, <1>6, <1>8, <1>9

\* The three ways in which a request without a mishap meets the branch.
LEMMA RemovingStep ==
  ASSUME IngestInv, Clear, NEW p \in Processes, NEW s \in Seq(Messages), s # <<>>,
         NewExcuses(p, s) = {}, Seam(dropped, s), Removes(p, s), ~CutsCompartments(p, s)
  PROVE  StoreAgrees(Indexed(RowsLeft(p, s), DroppedEnd, TrueEntries(s)), TagsLeft(p, s),
                     covered, dropped \o s)
<1> DEFINE ms == MessagesOf(entries[p])
           n  == Kept(entries[p], s)
<1>1. /\ dropped \in Seq(Messages) /\ branch \in Seq(Messages)
      /\ entries[p] \in Seq(Messages \X Nat) /\ entries[p] = TrueEntries(ms)
      /\ TailsFit /\ NothingRepeated /\ StoreAgrees(source, tags, covered, branch)
  BY DEF IngestInv, IngestTypes, Identified
<1>2. ms \in Seq(Messages) /\ Len(ms) = Len(entries[p])
  BY <1>1, MessagesOfType
<1>3. entries[p] # <<>>
  BY FreshRemovesNothing
<1>4. base[p] = DroppedEnd /\ branch = dropped \o ms
  BY <1>3, NoMishap
<1>5. n \in 0..(Len(ms) - 1) /\ Agree(ms, s, n)
  <2>1. n \in 0..Len(entries[p]) /\ Agree(ms, s, n)
    BY <1>1, KeptAgrees
  <2>2. n < Len(entries[p])
    BY DEF Removes
  <2>3. Len(entries[p]) \in Nat
    BY <1>1
  <2> HIDE DEF n
  <2> QED BY <1>2, <2>1, <2>2, <2>3
<1>6. Seam(dropped, ms)
  BY <1>1, <1>3 DEF TailsFit
<1>7. /\ \A i \in 1..Len(s), k \in 1..Len(dropped) : s[i] # dropped[k]
      /\ \A i \in 1..Len(ms), k \in 1..Len(dropped) : ms[i] # dropped[k]
  BY <1>1, <1>2, NoMishap DEF NothingRepeated, Clear
<1> HIDE DEF ms, n
<1>8. n \in Nat /\ n + 1 \in 1..Len(ms) /\ Len(dropped) \in Nat
  BY <1>1, <1>2, <1>5
<1>9. Floor(p, s) = Ordinal(0, dropped \o ms, Len(dropped) + n + 1)
  <2>1. Floor(p, s) = Ordinal(DroppedEnd, ms, n + 1)
    BY <1>4 DEF Floor, ms, n
  <2>2. Ordinal(DroppedEnd, ms, n + 1) = Ordinal(0, dropped \o ms, Len(dropped) + (n + 1))
    BY <1>1, <1>2, <1>6, <1>8, OrdinalsJoin DEF DroppedEnd
  <2>3. Len(dropped) + (n + 1) = Len(dropped) + n + 1
    BY <1>8
  <2> QED BY <2>1, <2>2, <2>3
<1>10. \A c \in covered : c[1] < Floor(p, s)
  <2>1. Floor(p, s) \in Nat
    BY <1>8, <1>9, OrdinalIs
  <2>2. LastEnd \in Nat /\ \A c \in covered : c[1] <= LastEnd
    BY <1>1, EndOfCover DEF StoreAgrees
  <2>3. LastEnd < Floor(p, s)
    BY <2>1, <2>2 DEF CutsCompartments
  <2>4. \A c \in covered : c[1] \in Nat
    <3>1. ASSUME NEW c \in covered PROVE c[1] \in Nat
      <4>1. PICK i \in 1..Len(branch) : Ordinal(0, branch, i) = c[1]
        BY <1>1 DEF StoreAgrees, CoveredIn
      <4>2. Ordinal(0, branch, i) \in Nat
        BY <4>1, OrdinalIs
      <4> QED BY <4>1, <4>2
    <3> QED BY <3>1
  <2> QED BY <2>1, <2>2, <2>3, <2>4
<1> DEFINE left == {r \in source : r[3] < Floor(p, s)}
           gone == {TrueEntries(ms)[i] : i \in (n + 1)..Len(ms)}
<1>11. RowsLeft(p, s) = left
  BY DEF RowsLeft
<1>12. TagsLeft(p, s) = tags \ gone
  BY <1>1, <1>2 DEF TagsLeft, Removed, n
<1>13. StoreAgrees(source, tags, covered, dropped \o ms)
  BY <1>1, <1>4
<1>14. /\ left = {r \in source : r[3] < Floor(p, s)}
       /\ gone = {TrueEntries(ms)[i] : i \in (n + 1)..Len(ms)}
  OBVIOUS
<1> HIDE DEF left, gone
<1>15. StoreAgrees(Indexed(left, Ordinal(0, dropped, Len(dropped)), TrueEntries(s)),
                   tags \ gone, covered, dropped \o s)
  <2>1. Rewinding(dropped, ms, s, n, Floor(p, s), source, covered, left, gone)
    BY <1>5, <1>6, <1>7, <1>9, <1>10, <1>14 DEF Rewinding
  <2> QED BY <1>1, <1>2, <1>13, <2>1, StoreRewinds
<1> QED BY <1>11, <1>12, <1>15 DEF DroppedEnd

\* Nothing is removed: the branch grows, or the request came late and is part of it.
LEMMA AddingStep ==
  ASSUME IngestInv, Clear, NEW p \in Processes, NEW s \in Seq(Messages), s # <<>>,
         NewExcuses(p, s) = {}, Seam(dropped, s), ~Removes(p, s),
         NEW v, v = IF IsPrefix(branch, dropped \o s) THEN dropped \o s ELSE branch
  PROVE  StoreAgrees(Indexed(RowsLeft(p, s), DroppedEnd, TrueEntries(s)), TagsLeft(p, s),
                     covered, v)
<1>1. /\ dropped \in Seq(Messages) /\ branch \in Seq(Messages)
      /\ entries[p] \in Seq(Messages \X Nat)
      /\ StoreAgrees(source, tags, covered, branch)
  BY DEF IngestInv, IngestTypes
<1>2. \A i \in 1..Len(s), k \in 1..Len(dropped) : s[i] # dropped[k]
  BY NoMishap
<1>3. RowsLeft(p, s) = source
  BY DEF RowsLeft
<1>4. TagsLeft(p, s) = tags
  <2>1. Kept(entries[p], s) \in 0..Len(entries[p])
    BY <1>1, KeptAgrees
  <2>2. ~(Kept(entries[p], s) < Len(entries[p]))
    BY DEF Removes
  <2>3. (Kept(entries[p], s) + 1)..Len(entries[p]) = {}
    <3>1. Len(entries[p]) \in Nat
      BY <1>1
    <3> QED BY <2>1, <2>2, <3>1
  <2> QED BY <2>3 DEF TagsLeft, Removed
<1>5. CASE IsPrefix(branch, dropped \o s)
  <2>1. dropped # <<>> => IsPrefix(dropped, branch)
    BY NoMishap
  <2> QED BY <1>1, <1>2, <1>3, <1>4, <1>5, <2>1, StoreGrows DEF DroppedEnd
<1>6. CASE ~IsPrefix(branch, dropped \o s)
  <2>1. IsPrefix(dropped \o s, branch)
    BY <1>6, NoMishap
  <2> QED BY <1>1, <1>2, <1>3, <1>4, <1>6, <2>1, StoreStays DEF DroppedEnd
<1> QED BY <1>5, <1>6

\* A request that resets nothing.
LEMMA ExtendStep ==
  ASSUME IngestInv, Clear, NEW p \in Processes, NEW s \in Seq(Messages), s # <<>>,
         IngestExtends(p, s), transcript' = transcript, posted' \subseteq posted
  PROVE  IngestInv'
<1>1. /\ IngestTypes' /\ Identified' /\ NothingRepeated'
      /\ entries'[p] = TrueEntries(s) /\ MessagesOf(entries'[p]) = s
      /\ \A q \in Processes \ {p} : entries'[q] = entries[q]
  BY ExtendTypes
<1>2. ASSUME Clear'
      PROVE  StoreAgrees(source, tags, covered, branch)' /\ TailsFit' /\ BasesSeen'
  <2>1. /\ ~CutsCompartments(p, s) /\ base' = [base EXCEPT ![p] = Rebased(p, s)]
        /\ tags' = TagsLeft(p, s)
        /\ source' = Indexed(RowsLeft(p, s), base'[p], entries'[p])
        /\ branch' = IF s = transcript \/ Removes(p, s) \/ IsPrefix(branch, dropped \o s)
                     THEN dropped \o s ELSE branch
        /\ excuses' = excuses \cup NewExcuses(p, s) /\ covered' = covered /\ dropped' = dropped
    BY DEF IngestExtends
  <2>2. NewExcuses(p, s) = {}
    BY <1>2, <2>1 DEF Clear
  <2>3. /\ dropped \in Seq(Messages) /\ branch \in Seq(Messages) /\ p \in DOMAIN base
        /\ TailsFit
    BY DEF IngestInv, IngestTypes
  <2>4. Seam(dropped, s)
    BY <2>2, NoMishap DEF Seam
  <2>5. base'[p] = DroppedEnd
    BY <2>1, <2>2, <2>3, Rebasing
  <2>6. source' = Indexed(RowsLeft(p, s), DroppedEnd, TrueEntries(s))
    BY <1>1, <2>1, <2>5
  <2>7. Removes(p, s) \/ IsPrefix(branch, dropped \o s)
           \/ (s # transcript /\ IsPrefix(dropped \o s, branch))
    BY <2>2, NoMishap
  <2>8. StoreAgrees(source', tags', covered', branch')
    <3>1. CASE Removes(p, s)
      <4>1. branch' = dropped \o s
        BY <2>1, <3>1
      <4> QED BY <2>1, <2>2, <2>4, <2>6, <3>1, <4>1, RemovingStep
    <3>2. CASE ~Removes(p, s)
      <4>1. branch' = IF IsPrefix(branch, dropped \o s) THEN dropped \o s ELSE branch
        BY <2>1, <2>7, <3>2
      <4> QED BY <2>1, <2>2, <2>4, <2>6, <3>2, <4>1, AddingStep
    <3> QED BY <3>1, <3>2
  <2>9. TailsFit'
    <3>1. ASSUME NEW q \in Processes, entries'[q] # <<>>
          PROVE  Seam(dropped, MessagesOf(entries'[q]))
      <4>1. CASE q = p
        BY <1>1, <2>4, <4>1
      <4>2. CASE q # p
        BY <1>1, <2>3, <3>1, <4>2 DEF TailsFit
      <4> QED BY <4>1, <4>2
    <3> QED BY <2>1, <3>1 DEF TailsFit
  <2>10. branch' # <<>>
    <3>1. dropped \o s \in Seq(Messages) /\ Len(dropped \o s) = Len(dropped) + Len(s)
      BY <2>3, JoinAgrees
    <3>2. Len(dropped) \in Nat /\ Len(s) \in Nat /\ Len(s) >= 1
      BY <2>3
    <3>3. dropped \o s # <<>>
      <4>1. Len(dropped \o s) >= 1
        BY <3>1, <3>2
      <4> QED BY <4>1
    <3>4. CASE branch' = dropped \o s
      BY <3>3, <3>4
    <3>5. CASE branch' = branch /\ IsPrefix(dropped \o s, branch)
      <4>1. Len(dropped \o s) <= Len(branch)
        BY <3>5 DEF IsPrefix
      <4>2. Len(branch) >= 1
        BY <2>3, <3>1, <3>2, <4>1
      <4> QED BY <3>5, <4>2
    <3> QED BY <2>1, <2>7, <3>4, <3>5
  <2>11. BasesSeen'
    BY <2>10 DEF BasesSeen
  <2> QED BY <2>8, <2>9, <2>11
<1> QED BY <1>1, <1>2 DEF IngestInv

\* Any request.
LEMMA IngestStep ==
  ASSUME IngestInv, NEW p \in Processes, NEW s \in Seq(Messages),
         Ingest(p, s), posted' \subseteq posted
  PROVE  IngestInv'
<1>1. Clear /\ s # <<>> /\ transcript' = transcript
  BY DEF Ingest
<1>2. CASE IngestResets(p, s)
  BY <1>1, <1>2, ResetStep
<1>3. CASE IngestExtends(p, s)
  BY <1>1, <1>3, ExtendStep
<1> QED BY <1>2, <1>3 DEF Ingest

\* Every step keeps the invariant.
LEMMA IngestNextKeeps == IngestInv /\ [IngestNext]_ingestVars => IngestInv'
<1> SUFFICES ASSUME IngestInv, [IngestNext]_ingestVars PROVE IngestInv'
  OBVIOUS
<1>1. CASE (\E m \in Messages : Say(m)) \/ (\E n \in 0..MaxLength : Rewind(n)) \/ Post
  <2>1. Clear
    BY <1>1 DEF Say, Rewind, Post
  <2> QED BY <1>1, <2>1, HostStep
<1>2. CASE RestoreTail
  BY <1>2, RestoreStep
<1>3. ASSUME NEW p \in Processes, Restart(p) \/ DiesRewinding(p) PROVE IngestInv'
  BY <1>3, RestartStep
<1>4. ASSUME NEW p \in Processes, IngestNow(p) PROVE IngestInv'
  <2>1. transcript \in Seq(Messages)
    BY DEF IngestInv, IngestTypes
  <2>2. Ingest(p, transcript) /\ posted' \subseteq posted
    BY <1>4 DEF IngestNow
  <2> QED BY <2>1, <2>2, IngestStep
<1>5. CASE IngestPosted
  <2>1. PICK s \in posted : Ingest("other", s) /\ posted' = posted \ {s}
    BY <1>5 DEF IngestPosted
  <2>2. s \in Seq(Messages) /\ "other" \in Processes
    BY DEF IngestInv, IngestTypes, Processes
  <2> QED BY <2>1, <2>2, IngestStep
<1>6. CASE Render
  BY <1>6, RenderStep
<1>7. CASE HistorianPrepare
  BY <1>7, PrepareStep
<1>8. CASE HistorianPublish
  BY <1>8, PublishStep
<1>9. CASE UNCHANGED ingestVars
  <2>1. UNCHANGED <<transcript, dropped, posted, entries, base, source, tags, covered, branch, excuses>>
    BY <1>9 DEF ingestVars, hostVars, storeVars
  <2> QED BY <2>1 DEF IngestInv, IngestTypes, Identified, NothingRepeated, Clear, TailsFit, BasesSeen
<1> QED BY <1>1, <1>2, <1>3, <1>4, <1>5, <1>6, <1>7, <1>8, <1>9 DEF IngestNext

\* The store agrees with the branch that was reconciled last, and the processes
\* with it, as long as no mishap happened: of every behaviour of the ingest.
THEOREM IngestInvariant == IngestSpec => []IngestInv
<1>1. IngestInit => IngestInv
  BY IngestInitially
<1>2. IngestInv /\ [IngestNext]_ingestVars => IngestInv'
  BY IngestNextKeeps
<1> QED BY <1>1, <1>2, PTL DEF IngestSpec

\* The ids of the engine's messages are a matter of their positions alone.
THEOREM IdsStayStable == IngestSpec => []IdsAreStable
<1>1. ASSUME IngestInv PROVE IdsAreStable
  <2> SUFFICES ASSUME Synced, "repeated" \notin excuses
               PROVE  entries["engine"] =
                        SubSeq(TrueEntries(Conversation), Len(dropped) + 1, Len(Conversation))
    BY DEF IdsAreStable
  <2> DEFINE es == entries["engine"]
             ts == TrueEntries(Conversation)
             n  == Len(dropped)
             l  == Len(Conversation)
  <2>1. /\ es \in Seq(Messages \X Nat) /\ dropped \in Seq(Messages)
        /\ "engine" \in Processes /\ transcript \in Seq(Messages)
    BY <1>1 DEF IngestInv, IngestTypes, Processes
  <2>2. MessagesOf(es) = transcript /\ Len(transcript) = Len(es)
    BY <2>1, MessagesOfType DEF Synced
  <2>3. Conversation \in Seq(Messages) /\ l = n + Len(es) /\ n \in Nat /\ Len(es) \in Nat
    <3>1. /\ Conversation \in Seq(Messages) /\ l = n + Len(transcript)
      BY <2>1, JoinAgrees DEF Conversation
    <3>2. n \in Nat /\ Len(es) \in Nat
      BY <2>1
    <3> QED BY <2>2, <3>1, <3>2
  <2>4. ts \in Seq(Messages \X Nat) /\ Len(ts) = l
    BY <2>3, TrueEntriesAre
  <2>5. ASSUME NEW j \in 1..Len(es) PROVE es[j] = ts[n + j]
    BY <1>1, <2>1, <2>2, HeldIds DEF Conversation
  <2> HIDE DEF es, ts, n, l
  <2>6. /\ SubSeq(ts, n + 1, l) \in Seq(Messages \X Nat) /\ Len(SubSeq(ts, n + 1, l)) = Len(es)
        /\ \A j \in 1..Len(es) : SubSeq(ts, n + 1, l)[j] = ts[n + j]
    BY <2>3, <2>4
  <2>7. es = SubSeq(ts, n + 1, l)
    BY <2>1, <2>5, <2>6, SeqEqual
  <2> QED BY <2>7 DEF es, ts, n, l
<1> QED BY <1>1, IngestInvariant, PTL

\* Once the engine has caught up, the index is that of the conversation.
THEOREM IndexIsOfBranch == IngestSpec => []IndexOfBranch
<1>1. ASSUME IngestInv PROVE IndexOfBranch
  <2> SUFFICES ASSUME Synced, excuses = {}
               PROVE  /\ Raw(0, TrueEntries(Conversation)) \subseteq source
                      /\ \A r \in source :
                           r[2] = "own" => r \in Raw(0, TrueEntries(Conversation))
    BY DEF IndexOfBranch
  <2>1. /\ Conversation \in Seq(Messages)
        /\ RowsIn(source, Conversation) /\ RowsAllIn(source, Conversation)
    BY <1>1 DEF IngestInv, IngestTypes, Synced, Clear, StoreAgrees
  <2>2. ASSUME NEW r \in source, r[2] = "own"
        PROVE  r \in Raw(0, TrueEntries(Conversation))
    <3>1. PICK i \in 1..Len(Conversation) : RowAt(r, Conversation, i)
      BY <2>1 DEF RowsIn
    <3>2. /\ Own(Conversation, i)
          /\ r = <<TrueEntries(Conversation)[i], "own", Ordinal(0, Conversation, i)>>
      BY <2>2, <3>1 DEF RowAt
    <3> QED BY <2>1, <3>2, RawIs
  <2> QED BY <2>1, <2>2 DEF RowsAllIn
<1> QED BY <1>1, IngestInvariant, PTL

\* Tags and compartments speak of the conversation alone.
THEOREM DerivedStateIsOfBranch == IngestSpec => []DerivedStateOfBranch
<1>1. ASSUME IngestInv PROVE DerivedStateOfBranch
  <2> SUFFICES ASSUME Synced, excuses = {}
               PROVE  /\ tags \subseteq Range(TrueEntries(Conversation))
                      /\ \A c \in covered : \E i \in DOMAIN Conversation :
                           Conversation[i] = c[2] /\ Ordinal(0, Conversation, i) = c[1]
    BY DEF DerivedStateOfBranch
  <2>1. /\ Conversation \in Seq(Messages)
        /\ TagsIn(tags, Conversation) /\ CoveredIn(covered, Conversation)
    BY <1>1 DEF IngestInv, IngestTypes, Synced, Clear, StoreAgrees
  <2>2. /\ DOMAIN TrueEntries(Conversation) = 1..Len(Conversation)
        /\ DOMAIN Conversation = 1..Len(Conversation)
    BY <2>1, TrueEntriesAre
  <2>3. tags \subseteq Range(TrueEntries(Conversation))
    BY <2>1, <2>2 DEF TagsIn, Range
  <2> QED BY <2>1, <2>2, <2>3 DEF CoveredIn
<1> QED BY <1>1, IngestInvariant, PTL
===============================================================================
