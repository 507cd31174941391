------------------------------- MODULE CommandLine -------------------------------
(***************************************************************************)
(* The commands of magic-hermes that change something outside the store:   *)
(* cli.main (src/magic_hermes/cli.py) dispatches to one of them, and the   *)
(* commands share no state.  A behaviour is the work of one command and of *)
(* those who work on the same files, processes or repository meanwhile.    *)
(***************************************************************************)
EXTENDS Wiring, DbMigrate, ProvenanceRepair

VARIABLE command  \* "install", "db", "provenance"

vars == <<wiringVars, migrateVars, repairVars, command>>

Init ==
  \/ command = "install"    /\ WiringInit  /\ MigrateRest /\ RepairRest
  \/ command = "db"         /\ MigrateInit /\ Rest        /\ RepairRest
  \/ command = "provenance" /\ RepairInit  /\ Rest        /\ MigrateRest

Install ==
  /\ command = "install"
  /\ WiringNext
  /\ UNCHANGED <<migrateVars, repairVars, command>>

Db ==
  /\ command = "db"
  /\ MigrateNext
  /\ UNCHANGED <<wiringVars, repairVars, command>>

Provenance ==
  /\ command = "provenance"
  /\ RepairNext
  /\ UNCHANGED <<wiringVars, migrateVars, command>>

Next == Install \/ Db \/ Provenance

Spec == Init /\ [][Next]_vars

\* The loop of db migrate runs and its clock does; processes need not end.
LiveSpec ==
  /\ Spec
  /\ WF_vars(Db /\ MigrateStep) /\ WF_vars(Db /\ WaitPasses)
===============================================================================
