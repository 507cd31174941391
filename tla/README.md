# Verification of magic-hermes

TLA+ models of the plugin that connects the Hermes agent (Python) to the Magic
Context package (JavaScript) through a sidecar process, with TLC runs on small
instances and TLAPS proofs for every instance. Paths below are relative to the
repository; `runtime.py`, `engine.py`, `memory_provider.py`, `plugin.py`,
`wiring.py`, `db_toolkit.py`, `provenance.py` are in `src/magic_hermes/`, and
`runtime.mjs` is `src/magic_hermes/bridge/runtime.mjs`.

    tlc -config RuntimeClient.cfg RuntimeClient      # model-check
    tlapm RuntimeClientProofs.tla                    # prove

## 1. The system

A Hermes process loads two plugins: a **context engine** (`engine.py`), which
replaces the host's transcript compression, and a **memory provider**
(`memory_provider.py`). Each owns a **RuntimeClient** (`runtime.py`), which
spawns a Node **sidecar** (`runtime.mjs`) and talks to it in JSON lines over
stdin and stdout. A sidecar binds a session, opens the **Magic Context store**
(one SQLite file for all processes of the machine, under a **bind mutex**) and
serves requests: ingest the branch, render the context, prepare and publish a
**historian** pass, run a **dreamer** task. Sidecars of several Hermes
processes, and several sidecars of one process (every background historian,
maintenance and dreamer worker has its own), work on the same store.

| Component | State | Operations | Hard behaviour | Correct when |
|---|---|---|---|---|
| RuntimeClient (`runtime.py`) | process handle, generation, next id, closed flag, cooldown, activity clock, one lock | `call`, `_ensure_process`, `_start`, `_write_payload`, host-callback threads, `_reap_if_idle`, `close`, `_dispose` | host threads, sweeper, callback threads and finalizer interleave; the sidecar dies, stalls, answers late, prints noise | an answer reaches only its own caller; no sidecar is leaked; nobody cuts another's request short; every call ends |
| Bind mutex (`runtime.mjs` 119-309) | lock directory, pid file, its mtime; waiter's last look | mkdir, publish pid, judge stale, reap, release, retry with backoff | any process dies or stalls between two file-system calls | one process opens the store at a time; a live holder is not robbed; waiters do not wait for ever |
| Historian transaction (`engine.py` 334-552, `runtime.mjs` 2325-2765) | compartment lease, in-progress flag, compartments, run rows; pass's pending record in its sidecar | prepare, model call, publish (repair, editor), abort, renew by heartbeat | a lost call whose handler finished; lease expiry under a slow model; death at any point; handlers failing half-way | one truthful row per pass; one publication per stretch; the lease given back; every pass ends |
| Engine binding and hooks (`engine.py`) | bound session, generation at bind, dirty flags | `_bind`, `select_context`, `on_turn_complete`, `handle_tool_call`, session start/end/reset | sidecar replaced between bind and use; an abandoned `compress` uses the same client and fields | a request reaches a sidecar bound to this session, or the caller binds again |
| Engine workers (`engine.py`) | a thread per slot (historian, maintenance, dreamer) | schedule; `compress` on a pooled thread; drain at session end | drain deadline against workers that go on; a compression the host has abandoned goes on beside it | the drain misses no worker; the host gets its thread back |
| Memory provider | bound session, shutdown flag, background threads | `initialize`, `_bind`, observe, refresh, switch, `shutdown` | the binding has no generation | as for the engine |
| Host budget (`_host_budget.py`) | deadline of the host's compression call | checkpoint, clamp, wait for worker | deadline passes between two steps of a pass | the pass stops without leaving its lease |
| Sidecar loop (`runtime.mjs` 3416-3660) | request chain, callback table, session table | parse line, chain request, call back, resolve, end of input | callback replies overtake requests; input ends with callbacks pending | every request answered once; the process exits |
| Branch ingest (`runtime.mjs` 775-1168) | message ids, branch tables, derived state | assign ids, reconcile snapshot, rewind, ingest | partial snapshots, rewinds, restored sessions | the same message keeps its id; derived state never outlives its branch |
| Deferred bind, doctor dispatch (`runtime.mjs` 311-529, 3497-3539) | deferred table, guard flag | defer, run, abandon | late completion against shutdown | one bind, at most one open |
| Dreamer bridge (`plugin.py` 28-420) | handles, launch numbers, capabilities, stop events | launch, wait, abort, child hooks, tool calls | launches cross; a child outlives its prompt; two prompts of one session | a child is held to its own task; an abort reaches it; an answer is its own; none runs for ever |
| Wiring (`wiring.py`) | host config, its temporary file, wiring lease | configure, lease, converge, recheck | two processes save one file; the operator edits between two looks; death anywhere | config is whole at all times; what the operator set wins |
| Database toolkit (`db_toolkit.py`, `migrate.mjs`) | store version, holders | migrate, drain holders, wait, retry | holders respawn while it drains; pids are reused | signals only who blocks the store; ends |
| Historian guard | one SQLite trigger | install, verify | none over time | blocks exactly the rows it names |
| Provenance (`provenance.py`) | git remotes | read, check, repair | failure between two git writes; the operator uses git meanwhile | pushes go where they went |
| Rendering, tools and other sidecar methods; registration and model routing; command line; loader and compatibility data; release scripts; tests, docs, CI | - | - | sequential | see `PROJECT.json` |

How they interact. Host threads call into the engine and the provider, which
call their client under its one lock; the client's read loop hands host
callbacks to threads of their own, which write their replies past that lock.
Requests of one sidecar run one after the other. Sidecars meet only in the file
system: in the bind mutex, in the store's transactions, in the compartment
lease. Nothing tells one process that another died; leases and stale-lock
rules stand in for it.

`PROJECT.json` lists every component with its status, and under `hazards` every
place where this code can go wrong in a way a test would hardly reach, each at
its line with the properties that watch it, or the reason none does yet.

## 2. Modules

Each module is one component, parameterised by CONSTANTS with named
assumptions, with one action per step that another actor can see. History
variables are marked as such; no guard of a code action reads one. Mutants
(operators whose comment begins "Mutant:") are plausible slips of the code next
to the definition they alter; no specification uses them, they are there to
substitute for that definition and see which property notices.

### RuntimeClient - the sidecar channel, seen from Python

| Model | Code (`runtime.py`) |
|---|---|
| `lock` | `self._lock`, a `threading.Lock()` that no thread takes twice in these paths |
| `pc`, `target`, `request` | where each thread is in `call()`, its `process` and `request_id` locals |
| `proc`, `generation`, `closed`, `nextId` | `_process`, `_generation`, `_closed`, `_next_id` |
| `cooldown`, `idle` | `_failure_cooldown_until` and `_last_activity` compared with the clock |
| `live`, `open`, `inflight` | the process runs; its pipes are open on this side; the request it executes |
| `lines`, `buffered` | unread stdout, and how much of it is in Python's TextIOWrapper instead of the pipe |
| `cbPc`, `cbTarget` | one thread per host callback, and the sidecar it came from |
| `Enter` ... `SelectClosed` | `call()` cut at lock, ensure, write, select: 615-706 with `_ensure_process` 494-512, `_start`, `_write_payload` |
| `Reap`, `Close`, `Dispose` | `_reap_if_idle`, `close`, `_dispose` under the lock |
| `CallbackReply`, `CallbackDispose*` | `_dispatch_host_callback`, and the same `_dispose` run **without** the lock, in three steps |

Code under the lock is one action as far as no other thread or the sidecar can
see its middle. A sidecar is named by the generation that spawned it. The
sidecar side is all that a client can observe: it answers the request in
flight, asks for a callback while a request runs, prints a line that is no
answer, or dies, at any moment; it may ask for callbacks without end, and it need
not read, so that the write of a request (530-532, before the deadline is set)
waits for ever: fairness never forces `Write` while a sidecar runs (`Prompt`).
Abstractions: it writes whole lines (a sidecar suspended in the middle of a line
blocks `readline()` beyond every deadline; listed as a hazard); payloads are their
request ids; a callback thread that dies of a reply that cannot be serialized
ends like one that replied.

`SerialCalls` is the abstract specification: what the client should be to the
threads that call it. One call at a time takes the next number, with the sidecar
that runs or else a new one; its request is written once at most, and only when no
other request is worked on and no answer is unread; the call returns with its
own answer or raises; and when it is over neither its work nor its answer is
left. `CallsAreSerial == Calls!Spec` is the refinement: the caller is the holder
of `lock`, its number that thread's `request`, `written` that some thread selects,
`work` what live sidecars have in flight, `answers` the replies unread in open
pipes, `count` is `nextId - 1`, and the client is `up` while the sidecar it holds runs.

### BindLock - the bind mutex between processes

| Model | Code (`runtime.mjs`) |
|---|---|
| `dirExists`, `pidFile`, `age` | `<db>.bindlock`, its pid file, the age of its mtime in the three classes the code tells apart (5 s, 30 s) |
| `seenPid`, `seenAge`, `late` | `holderPid`, `mtimeMs` and the deadline of a waiter |
| `attempt`, `outcome` | the loop of `openDatabaseWithLockGuard` |
| `Mkdir`, `Publish`, `PublishFails` | mkdir, then the pid file, written by path into whatever directory is there |
| `Eexist`, `ReadPid`, `Stat`, `Judge*`, `Reap`, `ReapFails` | one turn of the waiter's loop, a step per file-system call |
| `Open*`, `ReadToken`, `RemoveLock`, `RemoveLockFails`, `CooldownOver` | the guarded open, `releaseBindLock` in the `finally`, the backoff after it |
| `Crash`, `Tick`, `DeadlinePasses` | a process dies anywhere; time passes |

A process stands for its pid and its token: it has one acquisition at a time.
`Stalls` says whether seconds may pass between the calls of one look at the
lock (a suspended process, a slow file system). `current`, `lateReap` and
`slowPublish` are history: the lock has not changed since the waiter read it; a
waiter removed a lock that had changed; a live creator overran the 30 s in
which it must write its pid. A removal may fail (`RemovalFails`), at once or after it
has taken the pid file: a waiter goes round again with neither deadline nor sleep
(`ReapFails`), a holder leaves its lock behind (`RemoveLockFails`, history `kept`).
Abstractions: pids are not reused; the failure of `mkdir` other than EEXIST, which throws at once
with nothing held, is left out.

`RevocableLock` is the abstract specification: a lock with an owner, who alone
may be inside, and which is taken away only when its owner is gone; a race ends
the promise. `ActsAsLock == Lock!Spec /\ []Lock!Exclusion` is the refinement, with

| RevocableLock | BindLock |
|---|---|
| `held` | the directory is there |
| `owners` | the process its pid file names, or its creator as long as there is no pid |
| `inside` | the processes that have the store open to bind it |
| `gone` | those that died or gave up |
| `raced` | `lateReap` or `slowPublish` |

`Mkdir` acquires, `Publish` enters, the end of the open exits, `RemoveLock`
releases, `Reap` revokes; every other step is invisible or somebody leaving.

### HistorianPass - the historian transaction

| Model | Code |
|---|---|
| `pc`, `round`, `outcome`, `beat` | `_run_historian_pass`: the call it waits for, first output, repair or editor round, `terminal_outcome`, heartbeat thread (`engine.py` 334-552) |
| `side`, `pending`, `draft`, `recorded`, `at` | the pass's own sidecar: bound session, `pendingHistorian` with `validatedDraft` and `telemetryRecorded`, progress of `historianPrepare` and `historianPublish` (`runtime.mjs` 2256-2773) |
| `lease`, `inProgress`, `length`, `rows` | the shared store (external): the compartment lease, `compartmentInProgress`, published compartments, `historian_runs` rows |
| `Handler` actions | the sidecar's handlers; `historianPrepare` in two steps (it reads, then takes the lease), `historianPublish` in four, since another process, death or an exception may come between them |
| `Engine` actions | what the engine does with each result, and the loss of a call at any point |
| `Environment` actions | heartbeat gives up, sidecar or host dies, the lease runs out |
| `killed`, `HostDies`, `HostGone` | the host is dead and its sidecar drains `requestChain` (`runtime.mjs` 3635-3646) before it goes |

Several passes over one session run side by side: this is the background
historian, a foreground `compress()`, and other Hermes processes. Each has its
own client, hence its own sidecar and lease holder id, and a sidecar spawned
after a loss knows nothing of the pass. `rows` has the rows that were handed to the
store: it may refuse one, and the caller is not told. `PrepareReads` reads the end of the
session and its chunk (2256-2349) and `Prepare` takes the lease later (2353) without
another look; in between another pass may commit and release, which `stale`
records. `LeaseExpires` is guarded by what keeps the lease alive: a heartbeat
every 60 s against five minutes, and calls shorter than that. `CallLost` may come
after a handler finished and before its result was taken. A host that is killed
under a call leaves its sidecar with the handler to finish: it may still take the
lease or commit, and what it was to be told to undo stays. The bind of a pass
leaves nothing in the store, and is part of `Begin` and `StopEarly`. The writes
after COMMIT that only side tables see (facts, events, notes) are part of
`PublishRelease`.

`RunLedger` is the abstract specification: what the store should see of the passes.
A pass looks at the end of the session and reserves the stretch there, which nobody
at work has reserved; while reservations stand, and were made on an up-to-date
look, it publishes just at the length it was looked at, and once; it has one row at most, which says "success" only after it
published and "failed" or "noop" only if it did not and is over.
`KeepsLedger == Ledger!Spec` is the refinement, with `taken` for `engaged` (the
lease was ever acquired), `working` for `pending`, `expired` for `lost` (the lease
ran out under the pass), `outdated` for `stale`, `published` for `committed`; rows, base and length are the same.

### BoundSidecar, EngineBinding, ProviderBinding - sessions in replaceable sidecars

`BoundSidecar` is a RuntimeClient as its user sees it: `generation`, `live`, and
the `sessions` table of the running sidecar (`known`). A call is atomic here (the
client lock makes calls serial: RuntimeClient implements SerialCalls); it finds a
running sidecar or spawns one with an empty table; it may be served, refused
with "Session is not bound", fail without reaching the sidecar, or lose it. Both
modules below extend it.

| Model | Code |
|---|---|
| `EngineBinding`: `session`, `identity`, `stamp` | `_session_id`, `_bound_identity`, `_bound_generation` of `engine.py` |
| `Test`, `Compare`, `Bind`, `BindFails`, `Store`, `Stamp`, `ModelUpdate` | `_bind` 171-220, cut at its calls and at every field that another thread can see: identity compared, generation compared, call, identity stored, generation stored, call |
| `Abandon`, `latePc`, `Late*` | a `compress()` that Hermes stopped waiting for: the same code of `_bind` and the requests after it (718-797), on its thread, with its locals `lateOwn`, `lateNamed` and `lateGen` |
| `op` and `After` | the hooks by what they do after `_bind`: stop at the first failed request, carry on, retry once (`handle_tool_call`), observe and close (`on_session_end`), nothing |
| `SessionStart`, `SessionEnd`, `Teardown`, `Close`, `Forget` | `on_session_start`, `on_session_end`, `on_session_reset`, `close` |
| `ProviderBinding`: `session`, `identity`, `down` | the same of `memory_provider.py`, and `_shutdown`; there is no generation |
| `todo` | what a host or background thread has to do: bind, tool, observe, refresh, in the order of the method |
| `Check`, `Test`, `Bind`, `Store`, `Use` | the guard of `_observe` and `_refresh_context`, `_bind` without a lock around it, the request |

A session stands for its id with its project root. The hooks of an engine run one at a
time; an abandoned `compress()` runs beside them over the same `self._client`,
`_session_id` and cached binding. Several threads share a provider. `SidecarGone`
is an idle reap or a crash, between any two steps. One abandoned thread at a
time is modelled, and its own test of the cache is one step. `crossed` is
history: the latest generation in which a line of `_bind`, of either thread, wrote
down what another generation or for another session was answered, or compared
the identity of one binding with the generation of the next. Left out: what the requests compute, the project
route, the provider's recall cache.

### SidecarLoop, SerialServer - the sidecar from its first line to its exit

| Model | Code (`runtime.mjs`) |
|---|---|
| `kind`, `pc`, `order` | the requests read, where each handler is, the answers written; `requestChain` 3416-3660 |
| `pending`, `nextCb`, `awaits`, `replied` | `pendingHostCallbacks`, its counter, the callback a handler awaits, the replies in the stream |
| `input`, `stage` | the readline loop over stdin, and what comes after it: `await requestChain`, rejection of the callbacks, `closeDatabaseQuietly`, the exit |
| `bind`, `settled`, `cancelled`, `cap`, `loop`, `attempt` | the controller of the deferred bind and `runDeferredBind` with `acquireBindLockAsync` (311-529) |
| `verdict`, `timer` | `doctorDispatch` (3497-3539) and its `bind_wait_s` |

Node runs one callback at a time: what lies between two awaits is one step, and
the model's processes are the chain, the reader, the bind and the timers. The
lock and the store answer the bind as they like, including with contention that
never ends, and with a stale lock that cannot be removed: then the loop of 313-374
continues without an await and nothing else of the process runs (`BindSpins`,
`Awake`). A callback is answered when the host has replied (`HostReplies`, external
and not fair: a reply that is not serializable never comes). Two ends of the process differ: it drains the chain and exits, or
the loop of events runs empty while a handler awaits a callback
(`ExitUnsettled`: Node's exit 13).

`SerialServer` is the abstract specification: requests are numbered by arrival,
answered once and in that order, and none is begun before all earlier ones are
answered. `ServesInOrder == Server!Spec` with `received <- Len(kind)`,
`begun <- Cardinality(Begun)`, `answers <- order` is the refinement; it is
checked by TLC and proved.

### BranchIngest - the stored view of a conversation

| Model | Code (`runtime.mjs` 775-1168) |
|---|---|
| `transcript`, `posted`, `dropped` | the host's messages; a snapshot a provider thread holds; what a restored tail leaves out |
| `entries`, `base`, `chunk` | `session.entries`, `session.baseOrdinal`, `session.pendingHistorian` of two sidecars |
| `source`, `tags`, `covered` | `message_history_source`, the tags, the compartments in the one store |
| `Kept`, `Assigned`, `Raw`, `Ordinal` | `commonPrefixLength`, `assignEntries`, `mapEntriesToRaw`: pure operators |
| `IngestExtends`, `IngestResets` | `ingest` with `reconcileBranchSnapshot`: tags and rows of a rewind go; compartments in the way reset all that is derived |
| `Render` | the tags that `renderContext` writes after its ingest |
| `HistorianPrepare`, `HistorianPublish` | a chunk between the compartments and the protected tail; the compartments of that chunk, as the process knew it |
| `DiesRewinding`, `Restart`, `RestoreTail` | death between two transactions of a rewind; a fresh sidecar; a restarted host with the tail only |

A message is its signature, so the interesting case, equal messages, is two
positions with one value. `TrueEntries` and `Raw(0, ...)` of the whole
conversation are the reference: what a numbering from scratch would give.

`NewExcuses` names the mishaps after which the code cannot or does not restore
the reference; a behaviour ends with the first of them (`Clear`), and the index
and the derived state are claimed only while there was none:

- `unwatched`: a rewind that the process which is asked next had not seen the
  branch of (it is fresh, or holds a shorter snapshot), so it removes nothing;
- `tail`: the place of a tail is lost. The compartments moved on since it was
  restored, what precedes it was never taken in, it begins in the middle of a raw
  message (tool results belong to the message before them), or a full snapshot
  begins with a tool result, which `maybeRebaseRestoredFullSnapshot` (782-799)
  does not recognise;
- `repeated`: a message of the tail was said before, so it is counted from one again;
- `lagging`: a process acts after another one rewound or reset, on its own older
  view. `resetSessionDerivedState` (918-977) resets the `baseOrdinal` of its own
  process only;
- `stale`: a historian chunk is published by a process with such a view.

`IdsAreStable` holds in the state that a mishap leads to as well, the repeated
message excepted.

### EngineWorkers - threads of one engine

| Model | Code (`engine.py`) |
|---|---|
| `slot`, `kind`, `pc`, `waitedFor` | `_historian_thread`, `_maintenance_thread`, `_dreamer_thread` and the `finally` that clears them |
| `hpc`, `left`, `target` | the host thread: `on_turn_complete` (fire, maintain, dream), `on_session_end` (join of five seconds per slot, close) |
| `ended` | `on_session_end` has closed the engine since the last session start |
| `cpc`, `legs` | `compress()` on its pooled thread: its wait for the background historian, its pass, the render |
| `budget`, `cancelled`, `Abandon` | the host's deadline and attempt of `_host_budget.py` |

A worker's conversation with its sidecar is HistorianPass; here a pass is `legs`,
between which the budget is tested. Worker numbers are used again, so three are
enough for all slots at work while one ended. Session ids and the client are
EngineBinding's.

### DreamerBridge - children of the dreamer

A prompt of a virtual session, its callback thread and the child launched for it
share a number. `pc` is the thread's place in `_run_child`; `attrs` is the
thread-local launch record, `guard` the capability and project of a child,
`handles` and `seq` the tables under the bridge's lock, `events` the stop events
kept for `_matching_trace`. `order` has the keys of `_launch_seq` as they came: beyond
`MaxSeqs` (256) of them the `Evicted` (128) oldest are deleted (337-344, `Counted`), by
the prompts of these sessions and by those of `Others`, of which nothing else is
followed (`BeginOther`). A wait that times out or raises (`WaitTimesOut`, `WaitFails`)
fails its callback. Hermes (external) keeps children by correlation id
and calls the start hook on the launching thread; the upstream scheduler
(external) prompts and aborts as its promises allow, which lets a session be
prompted again while the thread of its last prompt still waits (`overlap`).

### Wiring, DbMigrate, ProvenanceRepair, CommandLine - what the commands change

| Model | Code |
|---|---|
| `Wiring`: `config`, `tmp`, `lease`, `doc`, `fd` | `config.yaml`, its one temporary name, the lease file, the document in memory, the file a process has open (`wiring.py`) |
| `FirstLook` ... `Replace`, `Lease` | `converge`/recheck and `configure_hermes`: look, look again, read, open, write, rename; `Clobber` is the host that writes its defaults back, `Operator` the operator |
| `DbMigrate`: `proc`, `ports` | what each pid is; the pids in port files of the rpc tree, stale ones included |
| `mpc`, `named`, `scan`, `target`, `drained` | `run_db_migrate` with its driver, `list_holders`, SIGTERM, grace, SIGKILL, `--wait` (`db_toolkit.py`) |
| `HolderStarts`, `HolderEnds`, `PidReused` | harnesses come and go, and a pid is used for something else |
| `ProvenanceRepair`: `url`, `pushurl`, `branch`, `seen` | git configuration (`branch.<b>.remote` and `.merge` among it) and what `read_state` returned (`provenance.py`) |
| `route`, `cut`, `mended` | history: where the operator last sent the pushes to origin (by git, or by `--push-url`); a run ended between its two writes since; the last run completed |
| `Begin` ... `Ends`, `Fails`, `Meddles` | `repair` with its refusals and up to four writes; a failure after any; the operator |

`CommandLine` puts the three beside each other: `cli.main` runs one of them, and
they share no state. File contents are documents by what the code reads in them;
`Empty` and `Garbled` are what a half-finished save leaves. A POSIX detail matters
and is there: a process whose open temporary file is renamed by another goes on
writing under the new name (`fd`). The writes of the host and of the operator are
atomic by assumption, though `wiring.py` (23, 426) expects torn ones: a torn read
that does not parse is left alone (`Garbled`), one that does parse, such as a file that was
just truncated, is not modelled. `Scanned` is what `list_holders` returns:
holders by lsof, or none of them when lsof fails (it returns non-zero as soon as
one of the three files is not held), and every live pid of a port file. Pushes of a branch
go to the remote it names, else to origin (`PushTarget`); those to origin to its push
url, else to its url (`OriginPush`).

## 3. Runs

| Run | Instance | Question and answer |
|---|---|---|
| `runtime_client` | 2 callers, 2 callbacks, 3 requests, 2 sidecars, 2 unread lines | Is the client a serial channel (SerialCalls), do answers, sidecars and requests stay with their owners, does every call return? Yes, but for a write that blocks and a sidecar that asks for callbacks without end. |
| `bind_lock` | 2 processes, 2 attempts, stalls | Is it a lock that only the dead lose (RevocableLock), is a live holder spared, does nobody rest with the lock, does every wait end? Yes, but for two named races and a lock that cannot be removed. |
| `bind_lock_race` | 3 processes, 1 attempt, no stalls | Is there ever one opener only? No: a waiter can remove the lock of its holder's successor. |
| `engine_binding` | 2 sessions, 4 sidecars, an abandoned compression | Is the cached binding true, does a replaced sidecar cost one hook only, does a retried tool call land? Yes, but where hook and abandoned thread cross in `_bind`. |
| `provider_restart` | 2 sessions, 2 threads, 2 sidecars | Is the provider's session bound in the restarted sidecar? No, and nothing binds it again until the session is switched. |
| `historian_pass` | 2 passes, one of them two-pass | Do the passes keep the ledger (RunLedger), are rows truthful, ends clean, stretches published once, does every pass end? Yes; two passes share a stretch only if a lease was lost or taken on an outdated reading. |
| `historian_flag` | the same | Does the flag cover the pass that holds the lease? No: another's abort clears it. |
| `sidecar_loop` | 3 requests, 2 callbacks, 2 bind attempts, with and without the doctor's role | Is the loop a serial server, is only what a lost callback blocks left unanswered, does the store stay shut once that was promised, is everything else served? Yes, but while the bind spins on a lock it cannot remove. |
| `branch_ingest` | 3 messages (one of each role), 3 positions, 1 rewind, 2 sidecars | Are ids, index, tags and compartments those of the conversation once the engine has caught up? Yes, but for the named mishaps. |
| `engine_workers` | 3 workers, 2 legs | Does the drain miss a worker, does the host get its thread back, does an abandoned attempt end? No, yes, and yes. |
| `dreamer_bridge` | 2 sessions and others, 2 prompts, 1 answer, 1 stop event, 1 launch number | Is every child held to its own task, reached by an abort, the one that answers, and never left running? Yes, but for what the properties name. |
| `command_line` | 2 processes, 2 pids, 2 respawns, 2 repairs | Is the config whole and the operator's word kept, are only blockers signalled, does the push route stay, does a migration end? Yes, but for what the properties name. |

Why the bounds are enough. RuntimeClient: a foreign answer needs a first
caller that left and a second that comes, with a third request to see the state
that the second leaves; an orphan needs a sidecar and its successor, and a
callback thread of the first; two callbacks give both a queued callback and two
threads in `_dispose`; two unread lines hold a callback and the answer behind
it. A sidecar may ask for a callback as often as it likes: callback threads are used again.
`MaxRequests`, `MaxSpawns` and `MaxLines` are bounds of the model only
(guards of `Enter`, `EnsureSpawn`, `SidecarCallback`, `SidecarStray`, and of
`Answered` and `LostUnderCall` in BoundSidecar).
BindLock: the passing run has a holder and a waiter that both retry; three
processes with stalls need 6.7 million states for safety alone, with removals that
succeed; they were explored without an error, and the safety properties are proved for any number;
the race run needs holder, successor and a waiter with an old verdict, hence
three. EngineBinding: a hook
meets three sidecars at most (bind, `model_update`, request), a retried tool call
four; a session besides the bootstrap one tells a switch from a return, and one
abandoned compression at a time meets every hook (1.6 million states).
HistorianPass: every property speaks of one pass or of two; one pass of each
configuration takes every branch, in every order against the other.
SidecarLoop: three requests are one that waits, one queued behind it and one
read later; two callbacks leave one pending when another is answered; two
attempts have a cool-down between them. `MaxRequests` and `MaxCallbacks` are
bounds of the model, `MaxAttempts` is the code's.
BranchIngest: in three positions a message can come twice around another, a
rewind can cut before, inside and after a compartment, and a tail can be
restored and rewound (280 thousand states); four positions with one rewind (14.1
million) were explored too, with the inductive invariant of the proof.
EngineWorkers: one worker per slot, numbers used again, and a second leg after a
budget test. DreamerBridge: two prompts are of one session or of two, and all
children say the same, which is the hard case for the match of traces; with one
stop event and one launch number the tables overflow at the second, and one other
session drops a followed one between its two prompts. The 128 and 256 of
the code are `MaxEvents`, `MaxSeqs` and `Evicted` in the proofs. `BeginOther` is bounded:
it acts while a followed session is listed.
CommandLine: a gateway and a command; a pid that is signalled and another that
is not, or that only a stale port file names; a respawn after each of two drains; a
repair and its repetition, from every state of remote and branch.
All specifications are finite with these constants, and TLC explores them
completely.

Deadlock is checked where the system must go on (RuntimeClient, EngineBinding,
EngineWorkers). It is off where the modelled work ends: passes,
prompts and commands finish, a sidecar exits, and BranchIngest stops at its
bounds.

Fairness, and why the code has it:
- `WF(Prompt(c))`, `WF(Reap)` (RuntimeClient): a host thread runs and waits in `select()` no
  longer than the deadline (637-641); the write before it (530-532) is a step that is
  never forced while a sidecar runs, since it may not read. The sweeper runs
  (44-66). Nothing is assumed of the sidecar, of callback threads or of `close()`.
- `WF(WaitStep(p))`, `WF(DeadlinePasses(p))` (BindLock): the waiter's loop sleeps 250 ms at a
  time and the clock runs. Nothing is assumed of a holder, nor that a removal succeeds.
- `WF(Handler(p) \/ Engine(p) \/ ...)` (HistorianPass): every client call has a timeout and so
  has the model call, so a pass always makes its next step; which one is left open. A
  sidecar without a host runs what is left and goes.
- SidecarLoop: Node runs what is ready (handlers, bind, end of the module, exit),
  its timers fire (`TimerFires`, `CapPasses`, `DeadlinePasses`), and a reply that was
  written is read (`ReadReply`). The host need not reply, nobody has to close the
  input, the bind may be refused for ever, and a lock that cannot be removed may stay so
  (a bind that spins is made to go on only when its checkpoint ends it).
- EngineWorkers: host thread and compress thread run and the budget shrinks with
  the clock; workers may work for ever.
- DreamerBridge: `WF(Callback(p))`: the callback thread runs and its wait has a
  timeout, or raises; children may run for ever.
- CommandLine: the loop of `db migrate` runs and `--wait` runs out. Nothing is
  assumed of processes, and `HolderStarts` is bounded, which `MigrateEnds` needs:
  each drain that ended somebody is followed by one more attempt.

## 4. Findings and limits

### Findings

Three statements of the repository's docs and comments that the code does not
keep; `PROJECT.json` quotes them with their lines, and a violation run exhibits
each: the memory provider keeps the binding of a sidecar that was replaced; the
stale-lock removal of `runtime.mjs:238` can hit a successor; an abort by a pass
that lost its lease clears the in-progress flag under the pass that holds it now.

### Limits of the code

What the models show the code does, where a property therefore makes an
exception, or where modelling met it:

- A call after `close()` spawns a sidecar the idle sweep skips (`runtime.py:405`
  and `615`; a provider thread past the test of `memory_provider.py:219` can make
  such a call).
- `select()` watches the descriptor and `readline()` reads a buffer above it: a
  second callback already read waits until more output or the deadline comes
  (`runtime.py:639`).
- `CallsReturn`: the request is written and flushed before the deadline is set
  (`runtime.py:530-532`, `635`), so a sidecar that does not read its full pipe keeps the
  call, and the client's lock, for ever; and the deadline is looked at only when
  `select()` finds nothing, so a sidecar that asks for callbacks without end keeps the
  call.
- `WaitEnds`, `Served`: a stale lock whose `rmSync` fails is tried again at once, past
  the deadline and without the sleep (`runtime.mjs:236-241`). In the deferred bind the
  same loop (357-362) has no await: the sidecar answers nothing meanwhile.
- `Served`: a callback whose reply cannot be serialized is never answered
  (`runtime.py:531`), and the handler that awaits it holds up the chain.
- A pass whose sidecar, host or prepare call is lost ends without a
  `historian_runs` row (`engine.py:538`).
- `PublishedOnce`: the end of the session and the chunk are read before the lease is
  taken (`runtime.mjs:2260-2306`, `2353`) and not again; a pass that commits and
  releases in between is published a second time by the next, with no lease lost.
- `CleanEnd`: a host killed while its sidecar prepares leaves a sidecar that takes
  lease and flag before it goes, with nobody to abort.
- A `compress()` that the host has abandoned goes on. It renders for whatever
  session the engine is in by then, and its call respawns a client that
  `on_session_end` has closed.
- `CacheTells`, `OneHookRefused`, `ToolLands`: it also shares `_bind` with the hooks. The
  generation is read after the bind was answered (`engine.py:192`), so when one of
  the two threads replaces the sidecar in between, the cache takes the new one for
  bound, and hooks are refused by it until the sidecar is replaced or the session
  changes (a tool call's retry binds again).
- In `compress()`, `historian_decide` and the render have neither a checkpoint
  nor a clamped timeout; and a busy historian slot does not stop maintenance
  from being scheduled beside it.
- `ExitAnswersAll`: input that closes while a handler awaits a host callback
  ends the process with that request, and those behind it, unanswered
  (`runtime.mjs:3646` awaits the chain before it rejects the callbacks).
- `BranchIngest`'s mishaps, listed in section 2: a fresh sidecar does not see a
  rewind that nobody watched and counts occurrences of a tail anew; a tail whose place was
  lost is numbered from where the compartments end now; a process whose view of
  the branch or whose base ordinal is older than another's rewind or reset goes
  on with it.
- `ChildGuarded`: a tool client made after its child's stop hook ran is closed
  by the idle reap only.
- `AbortReaches`: of two prompts of one session in the map together the earlier
  one's handle is replaced and popped by the other; an abort between launch and
  registration finds nothing; the deletion of a session aborts nothing.
- `AnswerIsOwn`: children with equal summaries can swap their tool histories. Launch
  numbers are dropped by the age of the first launch, which a later prompt does not
  renew (`plugin.py:338-344`): a session in use whose number was dropped starts again at one,
  and Hermes answers its prompt with the child it retains.
- `NoChildForever`: when `wait()` raises, the handle is popped and the child is not
  cancelled (`plugin.py:374-382`). A child launched with an empty directory gets no
  guard (`plugin.py:78`); the sidecar always sends one (`runtime.mjs:2949`, `2970`), and the
  model has none without.
- `ConfigSafe`: two processes that save at once share `config.yaml.tmp`; the file
  may be left empty or garbled though the docstring says atomic (`ConfigWhole`
  alone fails within ten states), and an empty config reads as "repairable".
  An operator's edit after the second look is overwritten.
- `SignalsHolders`: a pid reused between scan and signal is signalled, and so is a live
  pid that a port file of the rpc tree names, holder or not, reused long ago or not
  (`db_toolkit.py:328-359`, `424`), if the driver named it. The usage text of `db migrate`
  (612-619) says that bridges on the current build and unclassified pids are never
  killed; the code signals every blocker the scan finds again, bridges with the
  remark that they respawn (746-750), and compares no build. This disagreement is
  plain from the text and has no run of its own. With blockers named and no
  `--kill-blockers`, `--wait` does not wait.
- `PushRouteKept`: a repair cut between the two writes of the remote loses the
  push route. `provenance.py` (451-452, 548-549) says to run it again "to complete it": that
  completes the other writes, and does not bring the route back. The property states
  this, and lasts through the repetition.

## 5. Proofs

All theorems hold for every value of the constants under the modules' named
assumptions: `CallersAssumption` (`None` is no thread) and `BoundsAssumption` (the
bounds are naturals, positive where the code counts from one), `SidecarsAssumption`, `AttemptsAssumption` (at least one
attempt, as `bindAttempts()` returns) and `StallsAssumption`, `PassesAssumption`
(`NoHolder` is no pass), `RolesAssumption` (a message has one role),
`BoundSidecarAssumption` (`None` is no session),
`BootstrapAssumption` (the bootstrap session is one), `NoneAssumption` (`None` is
no number and no session), `EvictionAssumption` and `SessionsAssumption` (the
map of launch numbers has a size and drops at most that many; the followed sessions are none
of the others that launch), `FilesAssumption` and `UnsetAssumption` (an empty,
garbled or absent file is no document, an unset value no URL). The sets of
threads, processes, sessions and passes may be infinite.

**RuntimeClientProofs.** `TypeCorrect`, `CallsAreSerialized`,
`AnswersAreOnesOwn`, `OneSidecar`, `CallsAreNotCutShort`, `ClientIsSerial`. `NoForeignAnswer` and
`NoOrphan` are not inductive alone. `IInv` adds that a closed pipe is empty (so a
new sidecar starts with nothing to misread), that a running sidecar's pipes are
open, and that a callback thread in `_dispose` has found its sidecar dead: that
last part is why the lock-free `_dispose` can never kill a request in flight.
The argument for answers: a caller that leaves `call()` either took the
one answer there was or disposed of the process; hence whoever is not selecting has
left the pipes *quiet* (`LeaveQuiet`, `DisposeLeaveQuiet`, `ForeignStep`).
`ClientIsSerial` is the refinement of SerialCalls. It needs one more invariant,
`Numbered` (a call has a number from when it is given a sidecar until it ends);
with it `NoForeignAnswer` says that all there is of work and answers is the current
request's (`OnlyCurrent`) and that there is none outside a call (`NothingLeft`).

**StoreProofs, the bind mutex.** `BindTypeCorrect` (with `AttemptsLeft`: a retry never follows
the last attempt), `NoLockAtRest`, `LiveHolderIsSpared`, `BindIsExclusive`,
`BindActsAsLock`. Two invariants. `Ownership` holds through all races: the process named in the pid
file is inside its acquisition or died in it, and what a waiter knows of a lock
that did not change is still true. `Exclusive` holds until one of the named
races happens: one holder, the lock is its own, a waiter about to remove what it
judged robs nobody, and a creator's directory is not yet past its grace. The
last conjunct ties the 30 s grace to exclusion: without it a waiter could find
a pid file empty because its writer is slow. `BindActsAsLock` is the refinement of
RevocableLock: from `Exclusive`, a holder's name is the only one on the lock, so
its steps are those of an owner (`HoldKeepsLock`), and a lock that a waiter
removes is one whose owner is gone (`WaitKeepsLock`, with `Ownership` for a pid
file that a dead process left).

**StoreProofs, the branch.** `IdsStayStable`, `IndexIsOfBranch`,
`DerivedStateIsOfBranch`, from `IngestInvariant`, for any messages, conversations of
any length and any number of rewinds. `IngestInv` has, besides the types
(`IngestTypes`):

- `Identified`: every process numbers the messages it holds as from scratch;
- `NothingRepeated`: no message of a tail is among those before it;
- while there was no mishap, `StoreAgrees`: every row, tag and compartment in the
  store is one of `branch`, the snapshot reconciled last, and every raw message of
  `branch` has its row;
- `TailsFit`: what a process holds begins a raw message where it is joined to what was
  dropped; and `BasesSeen`: a base ordinal other than zero means that something was
  reconciled.

The properties need all of it, since they speak of the engine's view when it has
caught up, and the store was written by either process, with views of other
lengths, before and after a rewind. The argument: two sequences that agree up to
a position have the same ids, ordinals and raw messages up to it (`AgreeOnIds`,
`AgreeOnOrdinals`, `AgreeOnRows`); a tail joined to what was dropped continues
the ordinals at a seam, and the ids where nothing repeats (`OrdinalsJoin`,
`IdsJoin`); what `assignEntries` keeps and counts on is the numbering from scratch
(`AssignedIsTrue`). With these, an ingest that appends adds just the rows that lack
(`StoreGrows`), one that removes takes just those beyond the common prefix
(`StoreRewinds`), and one whose snapshot the store knows changes nothing
(`StoreStays`). Counting is `Cardinality` of sets of positions, shifted and split,
and a least position comes from the well-foundedness of `<`, so nothing needs
induction over sequences. A failed attempt corrected the model: at
length four TLC showed the then invariant broken by the other process's stale
base, by a tail that begins inside a raw message, by one whose beginning was never
taken in, and by a snapshot that begins with a tool result; each is now a named mishap.

**HistorianPassProofs.** `HistorianTypeCorrect`, `OneRowPerPass`,
`RowsTellPublication`, `PassesEndClean`, `StretchesArePublishedOnce`, `PassesKeepLedger`. `IInv` says
for each pass how the engine's place relates to what its sidecar has pending
(`Phase`), what row and publication the sidecar's memory implies (`Recorded`), what a
pass with nothing pending has given back (`Cleaned`) and when it holds the lease
(`Leased`); and for two passes that neither lost its lease that their stretches
differ (`Apart`). Steps of one pass leave the others' part alone (`HandlerIsLocal`,
`EngineIsLocal`, `UntouchedPass`), so each conjunct is proved per actor for the pass
that moves, and `Apart` from the lease alone, for passes that took it on an
up-to-date reading (not `stale`): to be prepared at the same end of the session,
the second must have found the lease free, and what it had read still true. For the
refinement of RunLedger one more invariant is needed, `GrowsByOverstayers`: while
such a pass keeps its reservation, the session grew since only by passes that had lost
theirs. It makes `HistorianPublish` of a pass in good standing, one that kept its lease
and whose reading was true when it got it, a publication on the length it was
prepared for (`HandlerLedger`, `OthersLedger`).

**EngineBindingProofs.** `EngineTypeCorrect`, `CachedBindingIsTrue`,
`ReplacementCostsOneHook`, `ToolCallLands`, with the host thread and an abandoned
`compress()` on one client. The cached binding is true because the stamp, and each
thread's answer, is never ahead of the client's generation (`StampIsPast`), and a
call either adds to the running sidecar's table or moves the generation on
(`CallKeepsKnown`). What a thread was answered holds while that sidecar runs
(`HostAnswerTells`, `LateAnswerTells`), and the identity is no older than the
answer about to be stamped (`HostStampTells`, `LateStampTells`): for both threads
until one stamps with the other's answer in between, the generation
`crossed` names, for which nothing is claimed. So a hook whose `_bind` returned
True can meet a sidecar without its session only if that sidecar is a later one: it has
refused no hook yet (`FreshRefusal`), and each try of a tool call that ends this way
has cost one sidecar (`ToolProgress`).

**SidecarLoopProofs.** `LoopIsSerialServer`, `EndAnswersAll`,
`StoreIsNotOpenedLate`, `LoopTypeCorrect`. `Chain` says that the requests are
answered in order up to `Len(order)`, the next one is in hand and the rest
queued; `Ended` that the module ends with nobody in turn or with one that awaits a
callback; `BindStopped` that whatever made a doctor call give up has stopped the
bind's next turn. For the refinement, `Chain` makes `Cardinality(Begun)` the
number `Count` (`BegunIsCounted`), after which each step of the loop is one of
the serial server's four actions or a stutter (`ServerStep`).

**EngineWorkersProofs.** `WorkersTypeCorrect`, `DrainIsComplete`. A worker at work
is the one in its kind's slot (`InItsSlot`), so the drain, which looks at slots,
cannot miss one; `DrainGoesOn` says that the slots already looked at have only
workers that had their five seconds.

**DreamerBridgeProofs.** `ChildrenAreGuarded`, `AbortsReach`, `AnswersAreOwn`.
The launch numbers of a session differ while it was not evicted (`Numbered`, from what
`CountedDoes` says of a launch), so Hermes retains a child under a correlation id
given before only for an evicted session (`RetainedAfterEviction`): every prompt with a
child has its own or, after an eviction, one of its session (`OwnChild`).
`Overlapped` says that prompts in the map together know it, which covers the pop
of another's handle; `TraceIsFinal` that a trace is taken last, so that neither
summary can still change (`EndsKept`).

**CommandLineProofs.** `ConfigStaysSafe`, `OnlyHoldersSignalled`,
`RepairKeepsRoute`: three invariants side by side, since a step of one command
leaves the others' variables alone. While no two processes had the temporary
file at once, it has one writer (`OneWriter`), whose document is wired and keeps the
other settings (`DocWired`), and a convergence that no edit has overtaken saves
over nothing of the operator's (`Overtaken`: the document is still untouched and
the plugin as enabled as it was read). For `db migrate`, a pid in the scan is no
other process's unless reused since or named in a port file. For the repair, the
pushes go where they went, or to the expected repository once a run was cut short
(`Sent`), through later runs too; `ReadStands` ties what was read to what is
configured at each of its writes.

Checked by TLC only: the liveness properties `CallsReturn`, `WaitEnds`,
`PassEnds`, `Served`, `HostReturns`, `NoChildForever` and `MigrateEnds` (liveness
under fairness is outside the prover's reach here); and the three violations, which are existence statements that a trace settles.

## 6. Not modelled

Rendering, tools, notes, primers and search delegate to the upstream package and
have no protocol of their own; the loader patches source text; registration, model
routing, status, guard and doctor reports are sequential and read only; backups
of the config and their pruning keep copies nothing reads back; the release
scripts run outside the system. The upstream package's store appears
only through the calls the sidecar makes of it. Time is abstract throughout:
a deadline may pass whenever the code's comparison would allow it.

## 7. What is left

1. The release lane (`scripts/release.py`): tag, push, deploy and publish, stopped
   between any two and run again.
2. The historian guard as an operator over the rows its trigger sees.
3. The usage text of `db migrate` against what it signals, and the promise that a
   repeated repair completes the first (section 4), as runs that exhibit them.
4. From SerialCalls to the atomic call of BoundSidecar, by a refinement in place
   of the argument that calls are serial.
