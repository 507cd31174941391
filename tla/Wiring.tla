--------------------------------- MODULE Wiring ---------------------------------
(***************************************************************************)
(* The wiring of the Hermes config (src/magic_hermes/wiring.py): processes *)
(* that install, and processes that converge under the lease, over one     *)
(* config.yaml that the operator edits and the host rewrites.              *)
(*                                                                         *)
(* A save is a write to config.yaml.tmp, one name for all, and a rename:   *)
(* a process that has the file open writes on wherever the name has gone.  *)
(* Backups and their pruning, and the tearing of the lease (which reads as *)
(* no lease), are left out.                                                *)
(***************************************************************************)
EXTENDS FiniteSets

CONSTANTS
  Procs,   \* processes that run configure_hermes
  None,    \* no document, no file
  Empty,   \* the content of a file that was created or truncated
  Garbled  \* one document written over another

VARIABLES
  config,   \* the content of config.yaml
  tmp,      \* the content of config.yaml.tmp, or None
  lease,    \* wiring-lease.json is there
  role,     \* of each process: "none", "converge", "install"
  wpc,      \* where it is
  doc,      \* the document it is about to save
  fd,       \* the name its open file goes by: "none", "tmp", "config", "lost"
  edited,   \* history: processes since whose last look the operator has acted,
            \* an install among that, or an act of his was undone
  overrun,  \* history: a convergence undid what it had to leave
  crowded   \* history: two processes had the temporary file at once

fileVars == <<config, tmp, lease>>
procVars == <<role, wpc, doc, fd>>
wiringVars == <<fileVars, procVars, edited, overrun, crowded>>

Values == {"factory", "wired", "other"}

\* What a file holds: both wires, whether the plugin is enabled, and whether
\* the rest of the operator's settings is there.
Docs == [engine : Values, provider : Values, enabled : BOOLEAN, rest : BOOLEAN]

ASSUME FilesAssumption == Empty \notin Docs /\ Garbled \notin Docs /\ None \notin Docs

\* An empty file parses as no document, and that is taken for an empty one.
NoSettings == [engine |-> "factory", provider |-> "factory", enabled |-> FALSE, rest |-> FALSE]
Parsed(c) == IF c = Empty THEN NoSettings ELSE c

Rest ==
  /\ config = [NoSettings EXCEPT !.enabled = TRUE, !.rest = TRUE]
  /\ tmp = None /\ lease = FALSE
  /\ role = [p \in Procs |-> "none"]
  /\ wpc = [p \in Procs |-> "off"]
  /\ doc = [p \in Procs |-> None]
  /\ fd = [p \in Procs |-> "none"]
  /\ edited = {} /\ overrun = FALSE /\ crowded = FALSE

WiringInit == Rest

Goto(p, l) == wpc' = [wpc EXCEPT ![p] = l]

\* The run of a process is over, by return or by exception.
Leave(p) ==
  /\ Goto(p, "off")
  /\ role' = [role EXCEPT ![p] = "none"]
  /\ doc' = [doc EXCEPT ![p] = None]
  /\ fd' = [fd EXCEPT ![p] = "none"]
  /\ edited' = edited \ {p}

-----------------------------------------------------------------------------
(* converge                                                                *)

Classify(c) ==
  CASE c = Garbled -> "unparseable"
    [] OTHER ->
         LET d == Parsed(c) IN
           CASE d.engine = "wired" /\ d.provider = "wired"     -> "converged"
             [] d.engine = "factory" /\ d.provider = "factory" -> "repairable"
             [] OTHER                                          -> "deliberate"

\* converge or a recheck that is due: a lease and a document in its factory
\* domain.  Whatever else it finds, it returns and nothing has changed.
FirstLook(p) ==
  /\ wpc[p] = "off"
  /\ lease /\ Classify(config) = "repairable"
  /\ role' = [role EXCEPT ![p] = "converge"]
  /\ Goto(p, "again")
  /\ UNCHANGED <<fileVars, doc, fd, edited, overrun, crowded>>

\* Mutant: the first look is good enough.
LookOnce(p) == "repairable"

\* "re-read + reclassify immediately before the write".
Fresh(p) == Classify(config)

SecondLook(p) ==
  /\ wpc[p] = "again"
  /\ IF Fresh(p) = "repairable"
     THEN Goto(p, "configure") /\ edited' = edited \ {p} /\ UNCHANGED <<role, doc, fd>>
     ELSE Leave(p)
  /\ UNCHANGED <<fileVars, overrun, crowded>>

-----------------------------------------------------------------------------
(* configure_hermes                                                        *)

StartInstall(p) ==
  /\ wpc[p] = "off"
  /\ role' = [role EXCEPT ![p] = "install"]
  /\ Goto(p, "configure")
  /\ UNCHANGED <<fileVars, doc, fd, edited, overrun, crowded>>

\* Only an install may enable the plugin.
MayEnable(p) == role[p] = "install"

Wired(p, d) ==
  [d EXCEPT !.engine = "wired", !.provider = "wired", !.enabled = @ \/ MayEnable(p)]

\* The document is read again; nobody looks at what it says of the wires now.
Read(p) ==
  /\ wpc[p] = "configure"
  /\ CASE config = Garbled -> Leave(p)
       [] config # Garbled /\ Wired(p, Parsed(config)) = Parsed(config) ->
            IF role[p] = "install"
            THEN Goto(p, "lease") /\ UNCHANGED <<role, doc, fd, edited>>
            ELSE Leave(p)
       [] OTHER ->
            /\ doc' = [doc EXCEPT ![p] = Wired(p, Parsed(config))]
            /\ Goto(p, "open")
            /\ UNCHANGED <<role, fd, edited>>
  /\ UNCHANGED <<fileVars, overrun, crowded>>

\* tmp.open("w"), after the backup: a file of that name is cut to nothing.
Open(p) ==
  /\ wpc[p] = "open"
  /\ tmp' = Empty
  /\ fd' = [fd EXCEPT ![p] = "tmp"]
  /\ crowded' = (crowded \/ \E q \in Procs \ {p} : wpc[q] \in {"write", "replace"})
  /\ Goto(p, "write")
  /\ UNCHANGED <<config, lease, role, doc, edited, overrun>>

\* Text over text from the start of the file.
Over(old, new) == IF old \in {Empty, new} THEN new ELSE Garbled

\* The dump and the close.
Write(p) ==
  /\ wpc[p] = "write"
  /\ tmp' = IF fd[p] = "tmp" THEN Over(tmp, doc[p]) ELSE tmp
  /\ config' = IF fd[p] = "config" THEN Over(config, doc[p]) ELSE config
  /\ fd' = [fd EXCEPT ![p] = "none"]
  /\ Goto(p, "replace")
  /\ UNCHANGED <<lease, role, doc, edited, overrun, crowded>>

\* What a convergence has to leave as it is.
Undone(p) ==
  /\ role[p] = "converge"
  /\ Classify(config) = "deliberate" \/ Parsed(config).enabled # Parsed(tmp).enabled

\* An open file goes by its new name, and the one it took the name of by none.
AfterRename(n) == CASE n = "tmp" -> "config" [] n = "config" -> "lost" [] OTHER -> n

\* chmod and rename.  The name is gone if another process has renamed it.
Replace(p) ==
  /\ wpc[p] = "replace" /\ tmp # None
  /\ config' = tmp /\ tmp' = None
  /\ overrun' = (overrun \/ (~crowded /\ p \notin edited /\ Undone(p)))
  /\ IF role[p] = "install"
     THEN Goto(p, "lease") /\ UNCHANGED <<role, doc>>
     ELSE /\ Goto(p, "off")
          /\ role' = [role EXCEPT ![p] = "none"]
          /\ doc' = [doc EXCEPT ![p] = None]
  /\ edited' = IF role[p] = "install" \/ p \in edited THEN Procs \ {p} ELSE edited
  /\ fd' = [q \in Procs |-> AfterRename(fd[q])]
  /\ UNCHANGED <<lease, crowded>>

ReplaceFails(p) ==
  /\ wpc[p] = "replace" /\ tmp = None
  /\ Leave(p)
  /\ UNCHANGED <<fileVars, overrun, crowded>>

\* write_lease, the last act of an install.
Lease(p) ==
  /\ wpc[p] = "lease"
  /\ lease' = TRUE
  /\ Leave(p)
  /\ UNCHANGED <<config, tmp, overrun, crowded>>

\* The process is killed, or an exception ends its run.
Die(p) ==
  /\ wpc[p] # "off"
  /\ Leave(p)
  /\ UNCHANGED <<fileVars, overrun, crowded>>

Configure(p) ==
  \/ FirstLook(p) \/ SecondLook(p) \/ StartInstall(p) \/ Read(p) \/ Open(p)
  \/ Write(p) \/ Replace(p) \/ ReplaceFails(p) \/ Lease(p) \/ Die(p)

-----------------------------------------------------------------------------
(* Others who write the file, at once and by documents they had read whole *)

\* The host serializes its defaults back.
Clobber ==
  /\ config \in Docs
  /\ config' = [config EXCEPT !.engine = "factory", !.provider = "factory"]
  /\ UNCHANGED <<tmp, lease, procVars, edited, overrun, crowded>>

Operator ==
  /\ config \in Docs
  /\ \E e, v \in Values, b \in BOOLEAN :
       config' = [config EXCEPT !.engine = e, !.provider = v, !.enabled = b]
  /\ edited' = Procs
  /\ UNCHANGED <<tmp, lease, procVars, overrun, crowded>>

WiringNext == (\E p \in Procs : Configure(p)) \/ Clobber \/ Operator

-----------------------------------------------------------------------------
\* "Idempotent, atomic": config.yaml is a whole document at all times, with the
\* operator's other settings in it, whatever run dies where, unless two
\* processes had the temporary file at once.
ConfigWhole == config \in Docs /\ config.rest

\* "An operator value landing between the classification above and this fresh
\* read WINS": a convergence never replaces a deliberate value, nor changes
\* whether the plugin is enabled, unless that was set after its second look.
OperatorWins == ~ overrun

ConfigSafe == crowded \/ (ConfigWhole /\ OperatorWins)
===============================================================================
