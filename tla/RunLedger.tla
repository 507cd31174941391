------------------------------- MODULE RunLedger -------------------------------
(***************************************************************************)
(* What the store should see of the historian passes over one session.     *)
(* The session is a growing sequence of stretches.  A pass looks at its    *)
(* end, reserves the stretch there, which no other pass at work has unless *)
(* that one's reservation expired, may publish it, and leaves.  What is    *)
(* published between the look and the reservation makes the pass outdated. *)
(* The ledger has at most one row for a pass; it tells whether the pass    *)
(* has published.                                                          *)
(***************************************************************************)
EXTENDS Naturals, Sequences

CONSTANT Passes

VARIABLES
  taken,      \* the passes that took a stretch
  working,    \* those that may still publish, or note that they did
  expired,    \* those whose reservation ran out while they worked
  outdated,   \* those that reserved after the session had grown
  published,  \* those that published
  rows,       \* the ledger: rows of each pass
  base,       \* the length each pass saw
  length      \* stretches published

ledger == <<taken, working, expired, outdated, published, rows, base, length>>

Init ==
  /\ taken = {} /\ working = {} /\ expired = {} /\ outdated = {} /\ published = {}
  /\ rows = [p \in Passes |-> <<>>]
  /\ base = [p \in Passes |-> 0]
  /\ length = 0

Note(p, told) ==
  /\ rows[p] = <<>>
  /\ \E row \in told : rows' = [rows EXCEPT ![p] = <<row>>]

\* Nothing to do, or the stretch is another's.
Skip(p) ==
  /\ p \notin taken
  /\ Note(p, {"noop"})
  /\ UNCHANGED <<taken, working, expired, outdated, published, base, length>>

\* The pass sees how far the session has come.
Look(p) ==
  /\ p \notin taken
  /\ base' = [base EXCEPT ![p] = length]
  /\ UNCHANGED <<taken, working, expired, outdated, published, rows, length>>

\* Reserved: nobody else is at work whose reservation stands.
Reserve(p) ==
  /\ p \notin taken /\ rows[p] = <<>>
  /\ working \subseteq expired
  /\ taken' = taken \cup {p}
  /\ outdated' = IF base[p] = length THEN outdated ELSE outdated \cup {p}
  /\ UNCHANGED <<expired, published, rows, base, length>>

Take(p) == Reserve(p) /\ working' = working \cup {p}

\* A reservation that leads to nothing.
TakeFails(p) == Reserve(p) /\ UNCHANGED working

Expire(p) ==
  /\ p \in working
  /\ expired' = expired \cup {p}
  /\ UNCHANGED <<taken, working, outdated, published, rows, base, length>>

\* A pass publishes once, before it has a row, and just at the length it saw,
\* unless it was outdated, or it or another that published had overstayed.
Publish(p) ==
  /\ p \in working \ published
  /\ rows[p] = <<>>
  /\ base[p] = length \/ p \in expired \cup outdated \/ expired \cap published # {}
  /\ published' = published \cup {p}
  /\ length' = length + 1
  /\ UNCHANGED <<taken, working, expired, outdated, rows, base>>

NoteSuccess(p) ==
  /\ p \in working \cap published
  /\ Note(p, {"success"})
  /\ UNCHANGED <<taken, working, expired, outdated, published, base, length>>

\* A pass that is over and has not published says so, or just goes.
GiveUp(p) ==
  /\ p \in working \ published
  /\ Note(p, {"failed", "noop"})
  /\ working' = working \ {p}
  /\ UNCHANGED <<taken, expired, outdated, published, base, length>>

Leave(p) ==
  /\ p \in working
  /\ working' = working \ {p}
  /\ UNCHANGED <<taken, expired, outdated, published, rows, base, length>>

Next ==
  \E p \in Passes :
    \/ Skip(p) \/ Look(p) \/ Take(p) \/ TakeFails(p) \/ Expire(p)
    \/ Publish(p) \/ NoteSuccess(p) \/ GiveUp(p) \/ Leave(p)

Spec == Init /\ [][Next]_ledger
===============================================================================
