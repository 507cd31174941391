----------------------------- MODULE RevocableLock -----------------------------
(***************************************************************************)
(* What the bind mutex should be to the sidecars: a lock with one owner at *)
(* a time, who alone may be inside (have the store open to bind it), and   *)
(* which is taken away only when its owner is gone.  An owner that goes    *)
(* may leave the lock behind with nobody's name on it, and whoever gives    *)
(* it back or takes it away may get no further than the name.  The promise *)
(* ends with a race, which the implementation has to name.                 *)
(***************************************************************************)
CONSTANT Clients

VARIABLES
  held,    \* the lock is taken
  owners,  \* by whom; {} when nobody can tell
  inside,  \* the clients that have the store open
  gone,    \* the clients that died or gave up
  raced    \* the promise is off

lock == <<held, owners, inside, gone, raced>>

Init == held = FALSE /\ owners = {} /\ inside = {} /\ gone = {} /\ raced = FALSE

Acquire(p) ==
  /\ ~held /\ p \notin gone
  /\ held' = TRUE /\ owners' = {p}
  /\ UNCHANGED <<inside, gone>>

Enter(p) ==
  /\ owners = {p} /\ p \notin inside \cup gone
  /\ inside' = inside \cup {p}
  /\ UNCHANGED <<held, owners, gone>>

Exit(p) ==
  /\ p \in inside
  /\ inside' = inside \ {p}
  /\ UNCHANGED <<held, owners, gone>>

\* The owner gives the lock back, and may have given up with that.
Release(p) ==
  /\ owners = {p} /\ p \notin inside \cup gone
  /\ held' \in BOOLEAN /\ owners' = {}
  /\ gone' \in {gone, gone \cup {p}}
  /\ UNCHANGED inside

\* A client dies or gives up, wherever it is.
GoAway(p) ==
  /\ p \notin gone
  /\ gone' = gone \cup {p}
  /\ inside' = inside \ {p}
  /\ owners' \in {owners, owners \ {p}}
  /\ UNCHANGED held

\* Somebody takes the lock from an owner that is gone, or from nobody.
Revoke ==
  /\ held /\ owners \subseteq gone
  /\ held' \in BOOLEAN /\ owners' = {}
  /\ UNCHANGED <<inside, gone>>

Keep ==
  \/ \E p \in Clients : Acquire(p) \/ Enter(p) \/ Exit(p) \/ Release(p) \/ GoAway(p)
  \/ Revoke

Next == (~raced /\ Keep /\ UNCHANGED raced) \/ raced' = TRUE

Spec == Init /\ [][Next]_lock

\* Whoever is inside owns the lock, and it is in nobody else's name.
Exclusion == raced \/ \A p \in inside : owners = {p}
===============================================================================
