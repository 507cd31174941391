----------------------------- MODULE SerialServer -----------------------------
(***************************************************************************)
(* What the sidecar's request loop promises its client: every request      *)
(* line gets one answer line, in the order the requests came, and a        *)
(* request is worked on only after all the earlier ones are answered.      *)
(* Numbers stand for requests, by order of arrival.                        *)
(***************************************************************************)
EXTENDS Naturals, Sequences

CONSTANT MaxRequests

VARIABLES
  received,  \* number of requests that arrived
  begun,     \* number of requests a handler has started on
  answers    \* the requests answered, in the order of the answer lines

Init == received = 0 /\ begun = 0 /\ answers = <<>>

Receive ==
  /\ received < MaxRequests
  /\ received' = received + 1
  /\ UNCHANGED <<begun, answers>>

Begin ==
  /\ begun = Len(answers)
  /\ begun < received
  /\ begun' = begun + 1
  /\ UNCHANGED <<received, answers>>

Answer ==
  /\ Len(answers) < begun
  /\ answers' = Append(answers, begun)
  /\ UNCHANGED <<received, begun>>

\* A request that needs no work is begun and answered at once.
BeginAndAnswer ==
  /\ begun = Len(answers)
  /\ begun < received
  /\ begun' = begun + 1
  /\ answers' = Append(answers, begun + 1)
  /\ UNCHANGED received

Next == Receive \/ Begin \/ Answer \/ BeginAndAnswer

Spec == Init /\ [][Next]_<<received, begun, answers>>
===============================================================================
