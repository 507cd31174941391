------------------------------ MODULE SerialCalls ------------------------------
(***************************************************************************)
(* What a client of the sidecar should be to the threads that call it: one *)
(* call at a time, numbered, written once at most, answered with its own   *)
(* answer or not at all; and when a call is over, nothing of it is left    *)
(* that is still being worked on or could be read.                         *)
(***************************************************************************)
EXTENDS Naturals

CONSTANTS Callers, None

VARIABLES
  caller,      \* the thread whose call it is, or None
  current,     \* the number of its request, 0 before it has one
  written,     \* the request is on its way
  work,        \* the requests that a sidecar works on
  answers,     \* the requests whose answer is there to be read
  count,       \* the requests numbered so far
  generation,  \* the sidecars spawned so far
  up           \* the client's sidecar runs

calls == <<caller, current, written, work, answers, count, generation, up>>

Init ==
  /\ caller = None /\ current = 0 /\ written = FALSE
  /\ work = {} /\ answers = {}
  /\ count = 0 /\ generation = 0 /\ up = FALSE

Begin(c) ==
  /\ caller = None
  /\ caller' = c
  /\ UNCHANGED <<current, written, work, answers, count, generation, up>>

\* The next number, with the sidecar that runs or else with a new one.
Number ==
  /\ caller # None /\ current = 0
  /\ count' = count + 1 /\ current' = count + 1
  /\ generation' = IF up THEN generation ELSE generation + 1
  /\ up' = TRUE
  /\ UNCHANGED <<caller, written, work, answers>>

\* Once in a call, and nothing else is worked on or unread then.
Write ==
  /\ current # 0 /\ ~written
  /\ work = {} /\ answers = {}
  /\ work' = {current} /\ written' = TRUE
  /\ UNCHANGED <<caller, current, answers, count, generation, up>>

Answer ==
  /\ work = {current} /\ answers = {}
  /\ work' = {} /\ answers' = {current}
  /\ UNCHANGED <<caller, current, written, count, generation, up>>

\* The call ends, and with it whatever there was of its request.
Over ==
  /\ caller # None
  /\ caller' = None /\ current' = 0 /\ written' = FALSE
  /\ work' = {} /\ answers' = {}
  /\ UNCHANGED <<count, generation>>

Return == Over /\ written /\ answers = {current} /\ UNCHANGED up
Raise  == Over /\ up' \in {up, FALSE}

\* The sidecar dies, or the client no longer knows it.
Lose ==
  /\ work' \in {work, {}}
  /\ up' \in {up, FALSE}
  /\ UNCHANGED <<caller, current, written, answers, count, generation>>

\* The pipes of a dead sidecar are closed, with an answer in them perhaps.
CloseDead ==
  /\ work = {}
  /\ answers' = {}
  /\ UNCHANGED <<caller, current, written, work, count, generation, up>>

\* Between calls the client stops its sidecar.
Stop ==
  /\ caller = None
  /\ up' = FALSE
  /\ UNCHANGED <<caller, current, written, work, answers, count, generation>>

Next ==
  \/ \E c \in Callers : Begin(c)
  \/ Number \/ Write \/ Answer \/ Return \/ Raise
  \/ Lose \/ CloseDead \/ Stop

Spec == Init /\ [][Next]_calls
===============================================================================
