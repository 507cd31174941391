------------------------------- MODULE BindLock -------------------------------
(***************************************************************************)
(* The cross-process bind mutex of src/magic_hermes/bridge/runtime.mjs:    *)
(* openDatabaseWithLockGuard, acquireBindLock and releaseBindLock.  Every  *)
(* sidecar opens the shared store while it holds <dbPath>.bindlock, a      *)
(* directory made by mkdir with a pid file written into it afterwards.     *)
(*                                                                         *)
(* Each file-system call is a step of its own: between any two of them     *)
(* another process runs, dies, or seconds pass.  The pid and the random    *)
(* token in the pid file are together the identity of one acquisition; a   *)
(* process has at most one at a time, so the process stands for both.      *)
(***************************************************************************)
EXTENDS Integers, FiniteSets

CONSTANTS
  Sidecars,     \* the runtime processes that bind
  MaxAttempts,  \* bindAttempts()
  Stalls,       \* seconds may pass between the calls of one look at the lock
  NoPid         \* no pid file, or one that does not parse (yet)

ASSUME SidecarsAssumption == NoPid \notin Sidecars
ASSUME AttemptsAssumption == MaxAttempts \in Nat \ {0}
ASSUME StallsAssumption == Stalls \in BOOLEAN

VARIABLES
  dirExists,   \* the lock directory is there
  pidFile,     \* the process its pid file names, or NoPid
  age,         \* age of its mtime: 0 up to 5 s, 1 up to 30 s, 2 beyond
  pc,          \* where each process is
  attempt,     \* attempt number in openDatabaseWithLockGuard
  outcome,     \* what the last open attempt led to
  seenPid,     \* `holderPid` of a waiter
  seenAge,     \* age of the `mtimeMs` a waiter read, when it read it
  late,        \* the 90 s deadline of this acquisition has passed
  current,     \* history: the lock a waiter looked at is unchanged since
  lateReap,    \* history: a waiter removed a lock it had not looked at
  slowPublish, \* history: a live creator took over 30 s to write its pid
  kept         \* history: processes whose release failed to remove the lock

lockVars   == <<dirExists, pidFile, age>>
waiterVars == <<seenPid, seenAge, late>>
history    == <<current, lateReap, slowPublish, kept>>
vars == <<lockVars, pc, attempt, outcome, waiterVars, history>>

Pids    == Sidecars \cup {NoPid}
Waiting == {"try", "read", "stat", "judge", "reap"}
Holding == {"publish", "open", "unlock", "remove"}
Gone    == {"failed", "dead"}
Pc      == Waiting \cup Holding \cup Gone \cup {"cooldown", "bound"}

Alive(p) == pc[p] \notin Gone
Holders  == {p \in Sidecars : pc[p] \in Holding}

Init ==
  /\ dirExists = FALSE /\ pidFile = NoPid /\ age = 0
  /\ pc = [p \in Sidecars |-> "try"]
  /\ attempt = [p \in Sidecars |-> 1]
  /\ outcome = [p \in Sidecars |-> "none"]
  /\ seenPid = [p \in Sidecars |-> NoPid]
  /\ seenAge = [p \in Sidecars |-> 0]
  /\ late = [p \in Sidecars |-> FALSE]
  /\ current = [p \in Sidecars |-> FALSE]
  /\ lateReap = FALSE /\ slowPublish = FALSE /\ kept = {}

Goto(p, label) == pc' = [pc EXCEPT ![p] = label]

\* The locals of one turn of the wait loop end with it.
EndTurn(p) ==
  /\ seenPid' = [seenPid EXCEPT ![p] = NoPid]
  /\ seenAge' = [seenAge EXCEPT ![p] = 0]

\* What waiters know of the lock is out of date from here on.
LockChanges == current' = [p \in Sidecars |-> FALSE]

\* rmSync(lockPath, {recursive, force}): whatever is there now goes.
RemoveDir ==
  /\ dirExists' = FALSE
  /\ pidFile' = NoPid
  /\ age' = 0
  /\ LockChanges

\* It fails, on a directory of another owner or a bad disk, and the failure is
\* swallowed: nothing is removed, or the pid file alone.
RemovalFails ==
  /\ dirExists
  /\ UNCHANGED dirExists
  /\ \/ UNCHANGED <<pidFile, age, current>>
     \/ pidFile # NoPid /\ pidFile' = NoPid /\ age' = 0 /\ LockChanges

-----------------------------------------------------------------------------
(* acquireBindLock                                                         *)

Mkdir(p) ==
  /\ pc[p] = "try"
  /\ ~dirExists
  /\ dirExists' = TRUE
  /\ pidFile' = NoPid
  /\ age' = 0
  /\ LockChanges
  /\ late' = [late EXCEPT ![p] = FALSE]
  /\ Goto(p, "publish")
  /\ UNCHANGED <<attempt, outcome, seenPid, seenAge, lateReap, slowPublish, kept>>

\* writeFileSync of pid and token: into the directory that is there now.  It
\* touches the directory's mtime.
Publish(p) ==
  /\ pc[p] = "publish"
  /\ dirExists
  /\ pidFile' = p
  /\ age' = 0
  /\ LockChanges
  /\ Goto(p, "open")
  /\ UNCHANGED <<dirExists, attempt, outcome, waiterVars, lateReap, slowPublish, kept>>

\* The write throws: the directory is gone (ENOENT), or the disk is full or
\* fails; then the directory stays behind without a pid.  Nothing catches it.
PublishFails(p) ==
  /\ pc[p] = "publish"
  /\ Goto(p, "failed")
  /\ UNCHANGED <<lockVars, attempt, outcome, waiterVars, history>>

Eexist(p) ==
  /\ pc[p] = "try"
  /\ dirExists
  /\ Goto(p, "read")
  /\ UNCHANGED <<lockVars, attempt, outcome, waiterVars, history>>

ReadPid(p) ==
  /\ pc[p] = "read"
  /\ seenPid' = [seenPid EXCEPT ![p] = pidFile]
  /\ current' = [current EXCEPT ![p] = dirExists]
  /\ Goto(p, "stat")
  /\ UNCHANGED <<lockVars, attempt, outcome, seenAge, late, lateReap, slowPublish, kept>>

\* The directory's mtime; gone in between: retry at once.
Stat(p) ==
  /\ pc[p] = "stat"
  /\ IF dirExists
     THEN /\ seenAge' = [seenAge EXCEPT ![p] = age]
          /\ Goto(p, "judge")
          /\ UNCHANGED seenPid
     ELSE EndTurn(p) /\ Goto(p, "try")
  /\ UNCHANGED <<lockVars, attempt, outcome, late, history>>

\* kill(holderPid, 0) finds a process.
HolderAlive(p) == \E q \in Sidecars : q = seenPid[p] /\ Alive(q)

\* `ageMs` at the present time, of the mtime that Stat read.
AgeNow(p) ==
  CASE current[p] -> {age}
    [] ~current[p] /\ Stalls -> seenAge[p]..2
    [] OTHER -> {seenAge[p]}

\* Mutant: a pid that cannot be read has the 5 s grace of a dead one.
ShortGrace(p) == 0

\* 30 s for a pid file that cannot be read yet, 5 s for a dead process.
Grace(p) == IF seenPid[p] = NoPid THEN 1 ELSE 0

\* Mutant: a lock is stale by its age alone.
StaleByAge(p, a) == a > Grace(p)

Stale(p, a) == ~HolderAlive(p) /\ a > Grace(p)

JudgeStale(p) ==
  /\ pc[p] = "judge"
  /\ \E a \in AgeNow(p) : Stale(p, a)
  /\ EndTurn(p)
  /\ Goto(p, "reap")
  /\ UNCHANGED <<lockVars, attempt, outcome, late, history>>

\* Mutant: the deadline is not looked at.
JudgeWaitsOn(p) ==
  /\ pc[p] = "judge"
  /\ \E a \in AgeNow(p) : ~Stale(p, a)
  /\ EndTurn(p)
  /\ current' = [current EXCEPT ![p] = FALSE]
  /\ Goto(p, "try")
  /\ UNCHANGED <<lockVars, attempt, outcome, late, lateReap, slowPublish, kept>>

\* Not stale: the acquisition times out, or sleeps 250 ms and tries again.
JudgeWait(p) ==
  /\ pc[p] = "judge"
  /\ \E a \in AgeNow(p) : ~Stale(p, a)
  /\ EndTurn(p)
  /\ current' = [current EXCEPT ![p] = FALSE]
  /\ Goto(p, IF late[p] THEN "failed" ELSE "try")
  /\ UNCHANGED <<lockVars, attempt, outcome, late, lateReap, slowPublish, kept>>

Reap(p) ==
  /\ pc[p] = "reap"
  /\ RemoveDir
  /\ lateReap' = (lateReap \/ (dirExists /\ ~current[p]))
  /\ Goto(p, "try")
  /\ UNCHANGED <<attempt, outcome, waiterVars, slowPublish, kept>>

\* The loop continues all the same, past its deadline and its sleep.
ReapFails(p) ==
  /\ pc[p] = "reap"
  /\ RemovalFails
  /\ lateReap' = (lateReap \/ (pidFile' # pidFile /\ ~current[p]))
  /\ Goto(p, "try")
  /\ UNCHANGED <<attempt, outcome, waiterVars, slowPublish, kept>>

-----------------------------------------------------------------------------
(* openDatabaseWithLockGuard and releaseBindLock                           *)

Opened(p, result) ==
  /\ pc[p] = "open"
  /\ outcome' = [outcome EXCEPT ![p] = result]
  /\ Goto(p, "unlock")
  /\ UNCHANGED <<lockVars, attempt, waiterVars, history>>

OpenSucceeds(p) == Opened(p, "ok")

\* Mutant: one attempt too many.
TransientOffByOne(p) == attempt[p] <= MaxAttempts /\ Opened(p, "retry")

\* "database is locked" and the like, with attempts left: cool down, retry.
OpenTransient(p) == attempt[p] < MaxAttempts /\ Opened(p, "retry")

\* Not transient, or the last attempt.
OpenFails(p) == Opened(p, "fail")

\* Where openDatabaseWithLockGuard goes once the `finally` has run.
AfterRelease(p) ==
  CASE outcome[p] = "ok"    -> "bound"
    [] outcome[p] = "retry" -> "cooldown"
    [] OTHER                -> "failed"

\* Mutant: the pause is taken before the release.
ReadTokenAfterPause(p) ==
  /\ pc[p] = "unlock"
  /\ IF outcome[p] = "retry" \/ pidFile # p
     THEN Goto(p, AfterRelease(p)) ELSE Goto(p, "remove")
  /\ UNCHANGED <<lockVars, attempt, outcome, waiterVars, history>>

\* releaseBindLock reads the pid file; another owner's token ends it there.
ReadToken(p) ==
  /\ pc[p] = "unlock"
  /\ Goto(p, IF pidFile = p THEN "remove" ELSE AfterRelease(p))
  /\ UNCHANGED <<lockVars, attempt, outcome, waiterVars, history>>

RemoveLock(p) ==
  /\ pc[p] = "remove"
  /\ RemoveDir
  /\ Goto(p, AfterRelease(p))
  /\ UNCHANGED <<attempt, outcome, waiterVars, lateReap, slowPublish, kept>>

RemoveLockFails(p) ==
  /\ pc[p] = "remove"
  /\ RemovalFails
  /\ kept' = IF pidFile' = p THEN kept \cup {p} ELSE kept
  /\ Goto(p, AfterRelease(p))
  /\ UNCHANGED <<attempt, outcome, waiterVars, lateReap, slowPublish>>

\* The backoff is over: the next attempt, with a deadline of its own.
CooldownOver(p) ==
  /\ pc[p] = "cooldown"
  /\ attempt' = [attempt EXCEPT ![p] = @ + 1]
  /\ Goto(p, "try")
  /\ UNCHANGED <<lockVars, outcome, waiterVars, history>>

-----------------------------------------------------------------------------
(* Processes die and time passes.                                          *)

Crash(p) ==
  /\ Alive(p)
  /\ EndTurn(p)
  /\ current' = [current EXCEPT ![p] = FALSE]
  /\ late' = [late EXCEPT ![p] = FALSE]
  /\ Goto(p, "dead")
  /\ UNCHANGED <<lockVars, attempt, outcome, lateReap, slowPublish, kept>>

DeadlinePasses(p) ==
  /\ pc[p] \in Waiting
  /\ ~late[p]
  /\ late' = [late EXCEPT ![p] = TRUE]
  /\ UNCHANGED <<lockVars, pc, attempt, outcome, seenPid, seenAge, history>>

Tick ==
  /\ dirExists
  /\ age < 2
  /\ Stalls \/ \A p \in Sidecars : pc[p] \notin {"stat", "judge"}
  /\ age' = age + 1
  /\ slowPublish' = (slowPublish \/ (age = 1 /\ \E p \in Sidecars : pc[p] = "publish"))
  /\ UNCHANGED <<dirExists, pidFile, pc, attempt, outcome, waiterVars, current, lateReap, kept>>

WaitStep(p) ==
  \/ Mkdir(p) \/ Eexist(p) \/ ReadPid(p) \/ Stat(p)
  \/ JudgeStale(p) \/ JudgeWait(p) \/ Reap(p) \/ ReapFails(p)

HoldStep(p) ==
  \/ Publish(p) \/ PublishFails(p)
  \/ OpenSucceeds(p) \/ OpenTransient(p) \/ OpenFails(p)
  \/ ReadToken(p) \/ RemoveLock(p) \/ RemoveLockFails(p) \/ CooldownOver(p)

Next ==
  \/ \E p \in Sidecars : WaitStep(p) \/ HoldStep(p) \/ Crash(p) \/ DeadlinePasses(p)
  \/ Tick

Spec == Init /\ [][Next]_vars

\* A waiter runs its loop and the clock runs.  Nothing is assumed of a
\* holder: it may stop anywhere, a store that never opens included.
LiveSpec ==
  /\ Spec
  /\ \A p \in Sidecars : WF_vars(WaitStep(p)) /\ WF_vars(DeadlinePasses(p))

-----------------------------------------------------------------------------
TypeOK ==
  /\ dirExists \in BOOLEAN
  /\ pidFile \in Pids
  /\ age \in 0..2
  /\ pc \in [Sidecars -> Pc]
  /\ attempt \in [Sidecars -> 1..MaxAttempts]
  /\ outcome \in [Sidecars -> {"none", "ok", "retry", "fail"}]
  /\ seenPid \in [Sidecars -> Pids]
  /\ seenAge \in [Sidecars -> 0..2]
  /\ late \in [Sidecars -> BOOLEAN]
  /\ current \in [Sidecars -> BOOLEAN]
  /\ lateReap \in BOOLEAN
  /\ slowPublish \in BOOLEAN
  /\ kept \subseteq Sidecars

\* At most one process has the store open to bind (the comment at lines
\* 125-127), with two exceptions, both named: a waiter removed a lock other
\* than the one it had judged, or a live creator overran the publication
\* grace.  No crash, failed write, retry or timeout breaks it.
ExclusiveUnlessRaced ==
  lateReap \/ slowPublish \/
    \A p, q \in Sidecars : pc[p] = "open" /\ pc[q] = "open" => p = q

\* A process that cools down, has bound or gave up does not own the lock
\* ("never sleep while holding the bind mutex"), races included, unless the
\* system did not let it remove it.
RestingHoldsNothing ==
  \A p \in Sidecars :
    pc[p] \in {"cooldown", "bound", "failed"} => pidFile # p \/ p \in kept

\* A waiter takes away the published lock of a live process ("Never reclaim a
\* lock whose holder PID is still alive", line 187) in one way only: the lock
\* changed hands after the waiter had read the pid file.
LiveHolderSpared ==
  [][\A p \in Sidecars :
       pc[p] = "reap" /\ pc'[p] = "try" /\ pidFile \in Sidecars /\ pidFile' # pidFile
         => lateReap' \/ ~Alive(pidFile)]_vars

\* Whose lock it is: the pid file's process, or the creator that has yet to
\* write it.
Owns(p) == dirExists /\ (pidFile = p \/ (pidFile = NoPid /\ pc[p] = "publish"))

Owners  == {p \in Sidecars : Owns(p)}
Opening == {p \in Sidecars : pc[p] = "open"}
Left    == {p \in Sidecars : ~Alive(p)}
Raced   == lateReap \/ slowPublish

\* The protocol of mkdir, pid file, ages and removals implements a lock with an
\* owner, revoked only from the dead, until one of the two races: whoever has
\* the store open to bind it owns the lock (lines 125-127).
Lock == INSTANCE RevocableLock WITH
  Clients <- Sidecars, held <- dirExists, owners <- Owners,
  inside <- Opening, gone <- Left, raced <- Raced
ActsAsLock == Lock!Spec /\ []Lock!Exclusion

\* No waiter waits for ever, whatever the holder does: it gets the lock or
\* its 90 s deadline ends the acquisition.  A stale lock that it cannot remove
\* is the exception: there the loop goes round past the deadline.
WaitEnds ==
  \A p \in Sidecars :
    (pc[p] \in Waiting ~> pc[p] \notin Waiting) \/ []<><<ReapFails(p)>>_vars

\* Lines 125-127: "at most ONE runtime performs the migration-writing open at
\* a time", for processes that publish their pid within the grace.
OneOpener ==
  slowPublish \/ \A p, q \in Sidecars : pc[p] = "open" /\ pc[q] = "open" => p = q
===============================================================================
