-------------------------------- MODULE DbMigrate --------------------------------
(***************************************************************************)
(* magic-hermes db migrate (run_db_migrate in                              *)
(* src/magic_hermes/db_toolkit.py): attempts of a one-shot driver, drains  *)
(* of the holders that make it refuse, and waits.  The driver (bridge/     *)
(* migrate.mjs) is one step: it opens and migrates the store, refuses with *)
(* the holders it found, or fails.  Processes come and go meanwhile, and a *)
(* pid is used again for a process that has nothing to do with the store,  *)
(* though a port file of the rpc tree may still name it.                   *)
(***************************************************************************)
EXTENDS Naturals, FiniteSets

CONSTANTS
  Pids,         \* process ids
  MaxRespawns   \* bound: processes that start

VARIABLES
  proc,      \* what a pid is: "free", "holder", "other"
  ports,     \* the pids named in port files of the rpc tree
  respawns,  \* processes started so far
  kill,      \* --kill-blockers
  wait,      \* --wait: "none", "running", "over"
  mpc,       \* "attempt", "refused", "drain", "grace", "sleep", or the exit code
  named,     \* the blockers of the last refusal still to be looked at
  scan,      \* list_holders: the pids it found
  target,    \* the pid that was sent SIGTERM
  drained,   \* drained_any
  migrated,  \* the store is at the fence of the package
  reused,    \* history: pids given to another process since the scan
  wronged    \* history: a process that is no holder was signalled, in a pid
             \* neither reused since the scan nor named in a port file

holderVars == <<proc, ports, respawns>>
loopVars == <<mpc, named, scan, target, drained>>
migrateVars == <<holderVars, kill, wait, loopVars, migrated, reused, wronged>>

Exits   == {"exit0", "exit1", "exit2"}
Holders == {p \in Pids : proc[p] = "holder"}

\* _rpc_port_pids: live pids named in port files, stale ones included.
PortPids == {p \in ports : proc[p] # "free"}

Start(procs, files, k, w, l) ==
  /\ proc = procs /\ ports = files
  /\ respawns = 0
  /\ kill = k /\ wait = w
  /\ mpc = l
  /\ named = {} /\ scan = {} /\ target = {} /\ drained = FALSE
  /\ migrated = FALSE /\ reused = {} /\ wronged = FALSE

MigrateRest == Start([p \in Pids |-> "free"], {}, FALSE, "none", "exit0")

MigrateInit ==
  \E procs \in [Pids -> {"free", "holder", "other"}], files \in SUBSET Pids,
     k \in BOOLEAN, w \in {"none", "running"} :
    Start(procs, files, k, w, "attempt")

Frame == UNCHANGED <<holderVars, kill, wait, reused, wronged>>

-----------------------------------------------------------------------------
\* Nobody holds the store: the driver migrates it.
Opens ==
  /\ mpc = "attempt" /\ Holders = {}
  /\ migrated' = TRUE
  /\ mpc' = "exit0"
  /\ UNCHANGED <<named, scan, target, drained>> /\ Frame

\* The guard of the store refuses, and names holders and servers of the rpc tree,
\* or for a reason that names nobody.
Refuses ==
  /\ mpc = "attempt"
  /\ named' \in SUBSET (Holders \cup PortPids)
  /\ mpc' = "refused"
  /\ UNCHANGED <<scan, target, drained, migrated>> /\ Frame

\* It fails or is killed after 300 s, at any point of its work.
DriverFails ==
  /\ mpc = "attempt"
  /\ migrated' \in {migrated, Holders = {}}
  /\ mpc' = "exit1"
  /\ UNCHANGED <<named, scan, target, drained>> /\ Frame

\* Mutant: the blockers are taken as the driver named them.
NamedTrusted == {named}

\* list_holders: who holds the store now, by lsof (nobody, if it fails), and
\* every live pid that a port file names, whether it holds the store or not.
Scanned == {Holders \cup PortPids, PortPids}

\* --kill-blockers, and there are some to kill.
StartDrain ==
  /\ mpc = "refused" /\ kill /\ named # {}
  /\ scan' \in Scanned
  /\ reused' = {}
  /\ drained' = FALSE
  /\ mpc' = "drain"
  /\ UNCHANGED <<named, target, migrated, holderVars, kill, wait, wronged>>

\* Blockers and no leave to kill them: the end, whatever --wait says.
BlockersLive ==
  /\ mpc = "refused" /\ ~kill /\ named # {}
  /\ mpc' = "exit2"
  /\ UNCHANGED <<named, scan, target, drained, migrated>> /\ Frame

\* Mutant: the wait has no end.
WaitForGood == wait = "none"

WaitIsOver == wait \in {"none", "over"}

GivesUp ==
  /\ mpc = "refused" /\ named = {} /\ WaitIsOver
  /\ mpc' = "exit2"
  /\ UNCHANGED <<named, scan, target, drained, migrated>> /\ Frame

Sleeps ==
  /\ mpc = "refused" /\ named = {} /\ ~WaitIsOver
  /\ mpc' = "attempt"
  /\ UNCHANGED <<named, scan, target, drained, migrated>> /\ Frame

\* A named blocker that the scan did not find again.
Skips(p) ==
  /\ mpc = "drain" /\ p \in named \ scan
  /\ named' = named \ {p}
  /\ UNCHANGED <<mpc, scan, target, drained, migrated>> /\ Frame

\* A signal to whatever goes by the pid now.
Signal(p) == wronged' = (wronged \/ (proc[p] = "other" /\ p \notin reused \cup ports))

\* SIGTERM.  It fails when the pid is free; else the grace period begins.
Terms(p) ==
  /\ mpc = "drain" /\ p \in named \cap scan
  /\ named' = named \ {p}
  /\ IF proc[p] = "free"
     THEN UNCHANGED <<mpc, target, wronged>>
     ELSE mpc' = "grace" /\ target' = {p} /\ Signal(p)
  /\ UNCHANGED <<scan, drained, migrated, holderVars, kill, wait, reused>>

\* /proc/<pid> is gone before the SIGKILL.
Obeys(p) ==
  /\ mpc = "grace" /\ target = {p} /\ proc[p] = "free"
  /\ drained' = TRUE
  /\ mpc' = "drain" /\ target' = {}
  /\ UNCHANGED <<named, scan, migrated>> /\ Frame

\* It is not: SIGKILL, which counts if /proc/<pid> is gone at once.
Kills(p) ==
  /\ mpc = "grace" /\ target = {p} /\ proc[p] # "free"
  /\ Signal(p)
  /\ proc' = [proc EXCEPT ![p] = "free"]
  /\ drained' \in {drained, TRUE}
  /\ mpc' = "drain" /\ target' = {}
  /\ UNCHANGED <<named, scan, migrated, ports, respawns, kill, wait, reused>>

\* All were looked at: once more if any is gone (with no look at the deadline).
Drained ==
  /\ mpc = "drain" /\ named = {}
  /\ mpc' = IF drained THEN "attempt" ELSE "exit2"
  /\ UNCHANGED <<named, scan, target, drained, migrated>> /\ Frame

MigrateStep ==
  \/ Opens \/ Refuses \/ DriverFails \/ StartDrain \/ BlockersLive \/ GivesUp \/ Sleeps
  \/ Drained
  \/ \E p \in Pids : Skips(p) \/ Terms(p) \/ Obeys(p) \/ Kills(p)

-----------------------------------------------------------------------------
(* Time and the other processes                                            *)

WaitPasses ==
  /\ wait = "running" /\ mpc \notin Exits
  /\ wait' = "over"
  /\ UNCHANGED <<holderVars, kill, loopVars, migrated, reused, wronged>>

HolderEnds(p) ==
  /\ proc[p] = "holder" /\ mpc \notin Exits
  /\ proc' = [proc EXCEPT ![p] = "free"]
  /\ ports' \in {ports, ports \ {p}}
  /\ UNCHANGED <<respawns, kill, wait, loopVars, migrated, reused, wronged>>

\* A harness restarts, or a bridge on its next bind; a server writes a port file.
HolderStarts(p) ==
  /\ proc[p] = "free" /\ respawns < MaxRespawns /\ mpc \notin Exits
  /\ proc' = [proc EXCEPT ![p] = "holder"]
  /\ ports' \in {ports, ports \cup {p}}
  /\ respawns' = respawns + 1
  /\ UNCHANGED <<kill, wait, loopVars, migrated, reused, wronged>>

PidReused(p) ==
  /\ proc[p] = "free" /\ respawns < MaxRespawns /\ mpc \notin Exits
  /\ proc' = [proc EXCEPT ![p] = "other"]
  /\ respawns' = respawns + 1
  /\ reused' = reused \cup {p}
  /\ UNCHANGED <<ports, kill, wait, loopVars, migrated, wronged>>

MigrateNext ==
  \/ MigrateStep \/ WaitPasses
  \/ \E p \in Pids : HolderEnds(p) \/ HolderStarts(p) \/ PidReused(p)

-----------------------------------------------------------------------------
\* Whatever has happened to the pids since the driver named them, db migrate
\* signals a holder of the store or a pid that a port file names: the scan before
\* the drain is what it goes by, so of other pids only one that is reused between
\* scan and signal escapes it.  (The usage text promises more: no bridge on the
\* current build and no pid that is not classified.  Neither is looked at.)
SignalsHolders == ~wronged

\* The command ends, with or without --wait and --kill-blockers, unless
\* processes that block it start again for ever.
MigrateEnds == mpc \notin Exits ~> mpc \in Exits
===============================================================================
