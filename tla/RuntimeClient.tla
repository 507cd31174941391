---------------------------- MODULE RuntimeClient ----------------------------
(***************************************************************************)
(* The Python side of the sidecar channel: class RuntimeClient of          *)
(* src/magic_hermes/runtime.py.  Host threads (Callers) run call(); the    *)
(* idle sweeper runs _reap_if_idle(); any thread may run close(); one      *)
(* thread per host callback runs _dispatch_host_callback().  The sidecar   *)
(* is what the client can see of it: it answers, asks for callbacks, prints *)
(* a line that is no answer, or dies.                                      *)
(*                                                                         *)
(* Everything the code does under self._lock is split at the points where  *)
(* another thread or the sidecar can act.  A sidecar process is named by   *)
(* the generation that spawned it.                                         *)
(***************************************************************************)
EXTENDS Integers, Sequences, FiniteSets

CONSTANTS
  Callers,      \* host threads that use this client
  Callbacks,    \* names of host callbacks (bounds those under way at once)
  MaxRequests,  \* bound on requests written (bounds _next_id)
  MaxSpawns,    \* bound on sidecars spawned (bounds _generation)
  MaxLines,     \* bound on unread output of one sidecar
  None          \* no thread holds the lock

ASSUME CallersAssumption   == None \notin Callers
ASSUME BoundsAssumption    ==
  MaxRequests \in Nat /\ MaxSpawns \in Nat /\ MaxLines \in Nat

VARIABLES
  lock,        \* self._lock: the caller holding it, or None
  pc,          \* where each caller is in call()
  target,      \* the `process` local of each caller
  request,     \* the `request_id` local of each caller
  proc,        \* self._process: a generation, or NoProc
  generation,  \* self._generation
  closed,      \* self._closed
  cooldown,    \* self._failure_cooldown_until is in the future
  idle,        \* self._last_activity is older than idle_ttl_s
  nextId,      \* self._next_id
  live,        \* sidecar processes the OS still runs
  open,        \* sidecar processes whose stdin and stdout are open here
  inflight,    \* the request each sidecar is executing, or 0
  lines,       \* unread stdout of each sidecar, oldest first
  buffered,    \* how many of those sit in Python's TextIOWrapper buffer
  cbPc,        \* where each host callback is
  cbTarget,    \* the sidecar each host callback came from
  dropped      \* history: sidecars whose handle another's _dispose erased

callerVars  == <<pc, target, request>>
clientVars  == <<proc, generation, closed, cooldown, idle, nextId>>
sidecarVars == <<live, open, inflight, lines, buffered>>
cbVars      == <<cbPc, cbTarget>>
vars == <<lock, callerVars, clientVars, sidecarVars, cbVars, dropped>>

NoProc     == 0
Procs      == 1..MaxSpawns

Reply(id)   == [kind |-> "reply", id |-> id]
Callback(k) == [kind |-> "callback", id |-> k]
\* A line that is not JSON, not an object, or an object with another id
\* (the sidecar's own {"id": null, "error": ...} is one).
StrayLine   == [kind |-> "stray", id |-> 0]
Line == [kind : {"reply"}, id : Nat] \cup [kind : {"callback"}, id : Callbacks]
          \cup {StrayLine}

CallerPc   == {"out", "ensure", "write", "select"}
CallbackPc == {"unsent", "sent", "running", "check", "clear", "kill"}

Init ==
  /\ lock = None
  /\ pc = [c \in Callers |-> "out"]
  /\ target = [c \in Callers |-> NoProc]
  /\ request = [c \in Callers |-> 0]
  /\ proc = NoProc /\ generation = 0 /\ closed = FALSE
  /\ cooldown = FALSE /\ idle = FALSE /\ nextId = 1
  /\ live = {} /\ open = {}
  /\ inflight = [p \in Procs |-> 0]
  /\ lines = [p \in Procs |-> <<>>]
  /\ buffered = [p \in Procs |-> 0]
  /\ cbPc = [k \in Callbacks |-> "unsent"]
  /\ cbTarget = [k \in Callbacks |-> NoProc]
  /\ dropped = {}

-----------------------------------------------------------------------------
(* _dispose() by a thread that holds the lock: forget the handle if it is  *)
(* still this one, close the pipes (what was unread in them is gone), kill *)
(* the process group.  No other thread can tell these steps apart.         *)

\* Mutant: the handle is forgotten, nothing is closed or killed.
DisposeForgets(p) ==
  /\ proc' = IF proc = p THEN NoProc ELSE proc
  /\ UNCHANGED sidecarVars

Dispose(p) ==
  /\ proc' = IF proc = p THEN NoProc ELSE proc
  /\ live' = live \ {p}
  /\ open' = open \ {p}
  /\ inflight' = [inflight EXCEPT ![p] = 0]
  /\ lines' = [lines EXCEPT ![p] = <<>>]
  /\ buffered' = [buffered EXCEPT ![p] = 0]

\* The `with self._lock` block of call() ends, by return or by exception.
Leave(c) ==
  /\ lock' = None
  /\ pc' = [pc EXCEPT ![c] = "out"]
  /\ target' = [target EXCEPT ![c] = NoProc]
  /\ request' = [request EXCEPT ![c] = 0]

Enter(c) ==
  /\ pc[c] = "out"
  /\ lock = None
  /\ nextId <= MaxRequests
  /\ lock' = c
  /\ pc' = [pc EXCEPT ![c] = "ensure"]
  /\ UNCHANGED <<target, request, clientVars, sidecarVars, cbVars, dropped>>

\* _ensure_process(): a failure cooldown refuses before anything else.
EnsureCooldown(c) ==
  /\ pc[c] = "ensure"
  /\ cooldown
  /\ Leave(c)
  /\ UNCHANGED <<clientVars, sidecarVars, cbVars, dropped>>

\* call() up to the write: take the next id and refresh the activity clock.
Claim(c, p) ==
  /\ pc' = [pc EXCEPT ![c] = "write"]
  /\ target' = [target EXCEPT ![c] = p]
  /\ request' = [request EXCEPT ![c] = nextId]
  /\ nextId' = nextId + 1
  /\ idle' = FALSE
  /\ UNCHANGED <<lock, closed, cbVars, dropped>>

EnsureLive(c) ==
  /\ pc[c] = "ensure"
  /\ ~cooldown
  /\ proc \in live
  /\ Claim(c, proc)
  /\ UNCHANGED <<proc, generation, cooldown, sidecarVars>>

\* Mutant: the generation is not advanced with the spawn.
SpawnSameGeneration(p) ==
  /\ generation' = generation
  /\ proc' = p
  /\ live' = live \cup {p}
  /\ open' = (open \ {proc}) \cup {p}

\* _start() and the generation bump that follows it.
Spawn(p) ==
  /\ generation' = p
  /\ proc' = p
  /\ live' = live \cup {p}
  /\ open' = (open \ {proc}) \cup {p}

\* No process, or poll() says it exited: dispose of the dead handle, spawn.
\* self._closed is not consulted.
EnsureSpawn(c) ==
  /\ pc[c] = "ensure"
  /\ ~cooldown
  /\ proc \notin live
  /\ generation < MaxSpawns
  /\ Spawn(generation + 1)
  /\ Claim(c, generation + 1)
  /\ cooldown' = FALSE
  /\ IF proc = NoProc
     THEN UNCHANGED <<inflight, lines, buffered>>
     ELSE /\ inflight' = [inflight EXCEPT ![proc] = 0]
          /\ lines' = [lines EXCEPT ![proc] = <<>>]
          /\ buffered' = [buffered EXCEPT ![proc] = 0]

\* The same, and _start() raises RuntimeUnavailable; no cooldown is armed.
EnsureSpawnFails(c) ==
  /\ pc[c] = "ensure"
  /\ ~cooldown
  /\ proc \notin live
  /\ IF proc = NoProc THEN UNCHANGED <<proc, sidecarVars>> ELSE Dispose(proc)
  /\ Leave(c)
  /\ UNCHANGED <<generation, closed, cooldown, idle, nextId, cbVars, dropped>>

\* _write_payload(): on a dead or closed pipe the process is disposed of and
\* the call raises; the request is not written again.  A write has no
\* deadline: it may wait for a sidecar that does not read, or for another
\* thread that does so with _stdin_lock in its hands.
Write(c) ==
  /\ pc[c] = "write"
  /\ LET p == target[c] IN
       IF p \in live
       THEN /\ inflight' = [inflight EXCEPT ![p] = request[c]]
            /\ pc' = [pc EXCEPT ![c] = "select"]
            /\ UNCHANGED <<lock, target, request, proc, live, open, lines, buffered>>
       ELSE Dispose(p) /\ Leave(c)
  /\ UNCHANGED <<generation, closed, cooldown, idle, nextId, cbVars, dropped>>

(* The read loop of call().  select() watches the file descriptor: it is   *)
(* ready when there is output the TextIOWrapper has not taken yet, or end  *)
(* of file.  Lines already taken into the wrapper's buffer do not count.   *)

Unread(p)   == Len(lines[p]) - buffered[p]
AtSelect(c) == pc[c] = "select" /\ target[c] \in open
Ready(p)    == Unread(p) > 0 \/ p \notin live

\* readline(): a buffered line first; otherwise one read takes k lines.
TakeLine(p) ==
  /\ lines' = [lines EXCEPT ![p] = Tail(@)]
  /\ \/ /\ buffered[p] > 0
        /\ buffered' = [buffered EXCEPT ![p] = @ - 1]
     \/ /\ buffered[p] = 0
        /\ \E k \in 1..Len(lines[p]) : buffered' = [buffered EXCEPT ![p] = k - 1]

NextLine(c, kind) ==
  LET p == target[c] IN
    /\ AtSelect(c)
    /\ Ready(p)
    /\ lines[p] # <<>>
    /\ Head(lines[p]).kind = kind

\* The answer: a result is returned, an error raised; the process is kept.
ReadReply(c) ==
  /\ NextLine(c, "reply")
  /\ Head(lines[target[c]]).id = request[c]
  /\ TakeLine(target[c])
  /\ idle' = FALSE
  /\ Leave(c)
  /\ UNCHANGED <<proc, generation, closed, cooldown, nextId, live, open,
                 inflight, cbVars, dropped>>

\* A host callback: it gets a thread of its own and the loop continues.
ReadCallback(c) ==
  /\ NextLine(c, "callback")
  /\ TakeLine(target[c])
  /\ cbPc' = [cbPc EXCEPT ![Head(lines[target[c]]).id] = "running"]
  /\ idle' = FALSE
  /\ UNCHANGED <<lock, callerVars, proc, generation, closed, cooldown, nextId,
                 live, open, inflight, cbTarget, dropped>>

\* Anything else, an answer to another request included: the channel is out
\* of step, the process is disposed of and no cooldown is armed.
ReadBadLine(c) ==
  /\ \/ NextLine(c, "stray")
     \/ NextLine(c, "reply") /\ Head(lines[target[c]]).id # request[c]
  /\ Dispose(target[c])
  /\ idle' = FALSE
  /\ Leave(c)
  /\ UNCHANGED <<generation, closed, cooldown, nextId, cbVars, dropped>>

\* Mutant: the call begins anew, with another sidecar.
EofTriesAgain(c) ==
  /\ AtSelect(c)
  /\ target[c] \notin live
  /\ lines[target[c]] = <<>>
  /\ Dispose(target[c])
  /\ pc' = [pc EXCEPT ![c] = "ensure"]
  /\ idle' = FALSE
  /\ UNCHANGED <<lock, target, request, generation, closed, cooldown, nextId,
                 cbVars, dropped>>

ReadEof(c) ==
  /\ AtSelect(c)
  /\ target[c] \notin live
  /\ lines[target[c]] = <<>>
  /\ Dispose(target[c])
  /\ cooldown' = TRUE
  /\ idle' = FALSE
  /\ Leave(c)
  /\ UNCHANGED <<generation, closed, nextId, cbVars, dropped>>

\* Mutant: the process is left in place, its late answer with it.
TimeoutKeepsProcess(c) ==
  /\ AtSelect(c)
  /\ ~Ready(target[c])
  /\ cooldown' = TRUE
  /\ idle' = FALSE
  /\ Leave(c)
  /\ UNCHANGED <<proc, generation, closed, nextId, sidecarVars, cbVars, dropped>>

\* Mutant: the deadline starts anew.
TimeoutWaitsAgain(c) ==
  /\ AtSelect(c)
  /\ ~Ready(target[c])
  /\ idle' = FALSE
  /\ UNCHANGED <<lock, callerVars, proc, generation, closed, cooldown, nextId,
                 sidecarVars, cbVars, dropped>>

\* The deadline passes: dispose, arm the 30 s cooldown, raise.
SelectTimeout(c) ==
  /\ AtSelect(c)
  /\ ~Ready(target[c])
  /\ Dispose(target[c])
  /\ cooldown' = TRUE
  /\ idle' = FALSE
  /\ Leave(c)
  /\ UNCHANGED <<generation, closed, nextId, cbVars, dropped>>

\* A callback thread closed the pipes under select(): ValueError leaves
\* call() with neither a dispose nor a cooldown.
SelectClosed(c) ==
  /\ pc[c] = "select"
  /\ target[c] \notin open
  /\ Leave(c)
  /\ UNCHANGED <<clientVars, sidecarVars, cbVars, dropped>>

CallStep(c) ==
  \/ EnsureCooldown(c) \/ EnsureLive(c) \/ EnsureSpawn(c) \/ EnsureSpawnFails(c)
  \/ Write(c)
  \/ ReadReply(c) \/ ReadCallback(c) \/ ReadBadLine(c) \/ ReadEof(c)
  \/ SelectTimeout(c) \/ SelectClosed(c)

-----------------------------------------------------------------------------
(* Other threads of the host.                                              *)

\* Mutant: the sweeper does not take the lock.
ReapIgnoringLock ==
  /\ proc # NoProc /\ ~closed /\ idle
  /\ Dispose(proc)
  /\ UNCHANGED <<lock, callerVars, generation, closed, cooldown, idle, nextId,
                 cbVars, dropped>>

\* _reap_if_idle(), from the idle sweeper.
Reap ==
  /\ lock = None
  /\ proc # NoProc /\ ~closed /\ idle
  /\ Dispose(proc)
  /\ UNCHANGED <<lock, callerVars, generation, closed, cooldown, idle, nextId,
                 cbVars, dropped>>

\* close(), from a session end, a provider shutdown or the finalizer.
Close ==
  /\ lock = None
  /\ closed' = TRUE
  /\ IF proc = NoProc THEN UNCHANGED <<proc, sidecarVars>> ELSE Dispose(proc)
  /\ UNCHANGED <<lock, callerVars, generation, cooldown, idle, nextId, cbVars,
                 dropped>>

(* _dispatch_host_callback(): the handler has finished and the reply is    *)
(* written.  If that fails the thread runs _dispose() without the lock, so *)
(* its test of self._process, its assignment and its kill are three steps. *)

CallbackReply(k) ==
  /\ cbPc[k] = "running"
  /\ cbPc' = [cbPc EXCEPT ![k] = IF cbTarget[k] \in live THEN "unsent" ELSE "check"]
  /\ UNCHANGED <<lock, callerVars, clientVars, sidecarVars, cbTarget, dropped>>

CallbackDisposeTest(k) ==
  /\ cbPc[k] = "check"
  /\ cbPc' = [cbPc EXCEPT ![k] = IF proc = cbTarget[k] THEN "clear" ELSE "kill"]
  /\ UNCHANGED <<lock, callerVars, clientVars, sidecarVars, cbTarget, dropped>>

CallbackDisposeClear(k) ==
  /\ cbPc[k] = "clear"
  /\ proc' = NoProc
  /\ dropped' = dropped \cup ({proc} \ {NoProc, cbTarget[k]})
  /\ cbPc' = [cbPc EXCEPT ![k] = "kill"]
  /\ UNCHANGED <<lock, callerVars, generation, closed, cooldown, idle, nextId,
                 sidecarVars, cbTarget>>

CallbackDisposeKill(k) ==
  LET p == cbTarget[k] IN
    /\ cbPc[k] = "kill"
    /\ live' = live \ {p}
    /\ open' = open \ {p}
    /\ inflight' = [inflight EXCEPT ![p] = 0]
    /\ lines' = [lines EXCEPT ![p] = <<>>]
    /\ buffered' = [buffered EXCEPT ![p] = 0]
    /\ cbPc' = [cbPc EXCEPT ![k] = "unsent"]
    /\ UNCHANGED <<lock, callerVars, clientVars, cbTarget, dropped>>

CallbackStep(k) ==
  \/ CallbackReply(k) \/ CallbackDisposeTest(k)
  \/ CallbackDisposeClear(k) \/ CallbackDisposeKill(k)

-----------------------------------------------------------------------------
(* The sidecar as seen from here, and the passing of time.                 *)

Emit(p, line) == lines' = [lines EXCEPT ![p] = Append(@, line)]

SidecarReply(p) ==
  /\ p \in live
  /\ inflight[p] # 0
  /\ Emit(p, Reply(inflight[p]))
  /\ inflight' = [inflight EXCEPT ![p] = 0]
  /\ UNCHANGED <<lock, callerVars, clientVars, live, open, buffered, cbVars, dropped>>

\* Only dreamer_run_* requests ask for callbacks, while they execute, and may
\* ask again and again.
SidecarCallback(p, k) ==
  /\ p \in live
  /\ inflight[p] # 0
  /\ cbPc[k] = "unsent"
  /\ Len(lines[p]) < MaxLines
  /\ Emit(p, Callback(k))
  /\ cbPc' = [cbPc EXCEPT ![k] = "sent"]
  /\ cbTarget' = [cbTarget EXCEPT ![k] = p]
  /\ UNCHANGED <<lock, callerVars, clientVars, live, open, inflight, buffered, dropped>>

SidecarStray(p) ==
  /\ p \in live
  /\ Len(lines[p]) < MaxLines
  /\ Emit(p, StrayLine)
  /\ UNCHANGED <<lock, callerVars, clientVars, live, open, inflight, buffered,
                 cbVars, dropped>>

SidecarDies(p) ==
  /\ p \in live
  /\ live' = live \ {p}
  /\ UNCHANGED <<lock, callerVars, clientVars, open, inflight, lines, buffered,
                 cbVars, dropped>>

CooldownExpires ==
  /\ cooldown
  /\ cooldown' = FALSE
  /\ UNCHANGED <<lock, callerVars, proc, generation, closed, idle, nextId,
                 sidecarVars, cbVars, dropped>>

\* idle_ttl_s passes with no call() activity (a long request counts too).
IdleElapses ==
  /\ ~idle
  /\ proc # NoProc
  /\ idle' = TRUE
  /\ UNCHANGED <<lock, callerVars, proc, generation, closed, cooldown, nextId,
                 sidecarVars, cbVars, dropped>>

Next ==
  \/ \E c \in Callers : Enter(c) \/ CallStep(c)
  \/ Reap
  \/ Close
  \/ \E k \in Callbacks : CallbackStep(k)
  \/ \E p \in Procs :
       \/ SidecarReply(p) \/ SidecarStray(p) \/ SidecarDies(p)
       \/ \E k \in Callbacks : SidecarCallback(p, k)
  \/ CooldownExpires
  \/ IdleElapses

Spec == Init /\ [][Next]_vars

(* A host thread that runs keeps running, and select() has a deadline; but  *)
(* a write may wait for as long as a sidecar runs.  The sweeper thread      *)
(* never stops.  No fairness for the sidecar, for close(), for callback     *)
(* threads or for starting a call.                                         *)
Prompt(c) == CallStep(c) /\ (pc[c] = "write" => live = {})
Fairness  == WF_vars(Reap) /\ \A c \in Callers : WF_vars(Prompt(c))

LiveSpec == Spec /\ Fairness

-----------------------------------------------------------------------------
TypeOK ==
  /\ lock \in Callers \cup {None}
  /\ pc \in [Callers -> CallerPc]
  /\ target \in [Callers -> 0..MaxSpawns]
  /\ request \in [Callers -> Nat]
  /\ generation \in 0..MaxSpawns /\ proc \in 0..generation
  /\ closed \in BOOLEAN /\ cooldown \in BOOLEAN /\ idle \in BOOLEAN
  /\ nextId \in Nat \ {0}
  /\ live \subseteq 1..generation /\ open \subseteq 1..generation
  /\ inflight \in [Procs -> Nat]
  /\ lines \in [Procs -> Seq(Line)]
  /\ buffered \in [Procs -> Nat]
  /\ cbPc \in [Callbacks -> CallbackPc]
  /\ cbTarget \in [Callbacks -> 0..MaxSpawns]
  /\ dropped \subseteq 1..generation

Awaited(p, id) ==
  \E c \in Callers :
    lock = c /\ pc[c] = "select" /\ target[c] = p /\ request[c] = id

\* Never two callers inside call(): the lock serializes one request at a
\* time over the one pipe.
Serialized == \A c \in Callers : pc[c] # "out" => lock = c

\* A request a sidecar still executes, and an answer still unread, both
\* belong to the caller now waiting on that sidecar: a call that timed out,
\* failed or was interrupted leaves nothing behind that a later call could
\* take for its own answer (the docstring "Calls are never replayed", and
\* the dispose in every exit path of call()).
NoForeignAnswer ==
  \A p \in open :
    /\ inflight[p] # 0 => Awaited(p, inflight[p])
    /\ \A i \in 1..Len(lines[p]) :
         lines[p][i].kind = "reply" =>
           /\ Awaited(p, lines[p][i].id)
           /\ inflight[p] = 0
           /\ \A j \in 1..Len(lines[p]) : lines[p][j].kind = "reply" => i = j

\* At most one sidecar runs per client and the client holds its handle; the
\* one exception is a sidecar whose handle was erased by a callback thread
\* caught between the test and the assignment of its lock-free _dispose().
NoOrphan == live \subseteq {proc} \cup dropped

\* A live sidecar with a request in flight is killed only by the caller of
\* that request: neither the sweeper, nor close(), nor a callback thread
\* cuts a call short (the lock comment of _reap_if_idle).
InFlightOnlyKilledByItsCaller ==
  [][\A p \in live : (p \notin open' /\ inflight[p] # 0) =>
       \E c \in Callers : Awaited(p, inflight[p]) /\ lock = c /\ lock' = None]_vars

\* The request of the call in progress, whether it was written, what sidecars
\* work on, and what there is to read.
Current == IF lock = None THEN 0 ELSE request[lock]
Written == \E c \in Callers : pc[c] = "select"
Worked  == {inflight[p] : p \in live} \ {0}
Replies(p) == {i \in 1..Len(lines[p]) : lines[p][i].kind = "reply"}
Answers == UNION {{lines[p][i].id : i \in Replies(p)} : p \in open}

\* The client is a serial channel (SerialCalls) whatever the other threads and
\* the sidecar do: a request gets a number and is written once ("Calls are
\* never replayed"), what a call returns is the answer to its own request, a
\* sidecar is spawned only by a call that has none, and a call that is over
\* leaves no work and no answer behind.
Calls == INSTANCE SerialCalls WITH
  caller <- lock, current <- Current, written <- Written, work <- Worked,
  answers <- Answers, count <- nextId - 1, up <- proc \in live
CallsAreSerial == Calls!Spec

\* A running sidecar does not read and the write of the request waits for it.
WriteBlocked(c) == pc[c] = "write" /\ live # {}

\* The sidecar has asked for a callback that call() has not read.
CallbackWaits(c) ==
  pc[c] = "select" /\ \E k \in Callbacks : cbPc[k] = "sent" /\ cbTarget[k] = target[c]

\* Every call() returns or raises: its deadline covers a hung sidecar, end of
\* file a dead one.  Two things can keep it in: a write that waits for ever,
\* since the deadline is set after it, and a sidecar that asks for callbacks
\* without end, since the deadline ends only a select() that finds nothing.
\* (A sidecar writes whole lines: readline() itself has no deadline.)
CallsReturn ==
  \A c \in Callers :
    \/ pc[c] # "out" ~> (pc[c] = "out" \/ []WriteBlocked(c))
    \/ []<>CallbackWaits(c)
=============================================================================
