----------------------------- MODULE BoundSidecar -----------------------------
(***************************************************************************)
(* One RuntimeClient with its sidecar, as its user sees them through       *)
(* call(): calls are serial, a call finds a running sidecar or spawns one, *)
(* and a sidecar knows the sessions that were bound in it and no others.   *)
(* The sidecar may go at any time between calls (idle reap, crash) and     *)
(* under one (time-out, end of file).  RuntimeClient has the detail.       *)
(***************************************************************************)
EXTENDS Integers

CONSTANTS
  Sessions,   \* Hermes sessions
  MaxSpawns,  \* bound on sidecars spawned (bounds the generation)
  None        \* no session

ASSUME BoundSidecarAssumption == None \notin Sessions /\ MaxSpawns \in Nat

VARIABLES
  generation,  \* RuntimeClient._generation
  live,        \* the sidecar of this generation runs
  known        \* its `sessions` table

client == <<generation, live, known>>

ClientInit == generation = 0 /\ live = FALSE /\ known = {}

\* The request arrives, in a new sidecar if none runs, which then knows the
\* sessions s besides.
Answered(s) ==
  /\ live \/ generation < MaxSpawns
  /\ generation' = IF live THEN generation ELSE generation + 1
  /\ live' = TRUE
  /\ known' = IF live THEN known \cup s ELSE s

\* getSession finds the session, or throws "Session is not bound".
Served(s)  == live /\ s \in known /\ Answered({})
Refused(s) == ~(live /\ s \in known) /\ Answered({})

\* The call is written, to a new sidecar perhaps, and the sidecar goes.
LostUnderCall ==
  /\ live \/ generation < MaxSpawns
  /\ generation' = IF live THEN generation ELSE generation + 1
  /\ live' = FALSE
  /\ known' = {}

\* The call raises, but for an unbound session: cooldown or failed start, a
\* lost sidecar, a handler that throws before or after it bound sessions s.
Fails(s) == UNCHANGED client \/ LostUnderCall \/ Answered({}) \/ Answered(s)

\* close(), an idle reap, or a crash.
Gone ==
  /\ live' = FALSE
  /\ known' = {}
  /\ UNCHANGED generation

ClientType ==
  /\ generation \in 0..MaxSpawns
  /\ live \in BOOLEAN
  /\ known \subseteq Sessions
===============================================================================
