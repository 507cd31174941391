--------------------------- MODULE SidecarLoopProofs ---------------------------
(***************************************************************************)
(* Proofs about SidecarLoop, for any number of requests, callbacks and     *)
(* bind attempts: it implements SerialServer, and a bind that a verdict    *)
(* has given up opens nothing.                                             *)
(***************************************************************************)
EXTENDS SidecarLoop, FiniteSetTheorems, SequenceTheorems, TLAPS

(* The inductive invariant.                                                *)

\* The next request in turn, if there is one.
Next1 == Len(order) + 1
Labels == {"idle", "queued", "running", "awaiting", "bindwait", "done"}

\* The chain: answered requests, one in turn, queued ones, and none.
Chain ==
  /\ \A i \in 1..Len(order) : order[i] = i
  /\ Len(order) <= Len(kind)
  /\ \A r \in Requests :
       /\ pc[r] = "done" <=> r <= Len(order)
       /\ pc[r] = "idle" <=> r > Len(kind)
       /\ r > Next1 => pc[r] \in {"idle", "queued"}
       /\ awaits[r] # None => pc[r] = "awaiting"

\* When the module has ended, the request in turn awaits a callback, or there
\* is none.
Ended ==
  stage # "serving" =>
    /\ input = "closed"
    /\ Next1 \in Received => pc[Next1] = "awaiting"

\* Whatever made a doctor call give up on the bind stops the bind's next turn.
GivenUp == loop = "done" \/ cancelled \/ cap = "passed"
BindStopped ==
  /\ bind # "pending" => loop = "done"
  /\ settled => loop = "done" \/ cancelled
  /\ timer # {} => cap = "passed"
  /\ \A r \in Requests : verdict[r] = "degraded" => GivenUp
  /\ loop = "cooldown" => attempt < MaxAttempts
  /\ input = "open" => ~cancelled

IInv == TypeOK /\ Chain /\ Ended /\ BindStopped

-----------------------------------------------------------------------------
LEMMA RequestsAreNaturals == Requests \subseteq Nat \ {0} /\ None \notin Callbacks
BY NoneAssumption, BoundsAssumption DEF Requests, Callbacks

LEMMA InitInv == Init => IInv
<1> SUFFICES ASSUME Init PROVE IInv
  OBVIOUS
<1>0. kind = <<>> /\ order = <<>> /\ Len(kind) = 0 /\ Len(order) = 0
  BY DEF Init
<1>1. TypeOK
  <2>1. kind \in Seq(Kinds) /\ Len(kind) <= MaxRequests /\ order \in Seq(Requests)
    BY <1>0, BoundsAssumption
  <2>2. nextCb \in 1..(MaxCallbacks + 1) /\ attempt \in 1..MaxAttempts
    BY BoundsAssumption DEF Init
  <2>3. /\ pc \in [Requests -> Labels] /\ verdict \in [Requests -> Verdicts \cup {None}]
        /\ awaits \in [Requests -> Callbacks \cup {None}]
    BY DEF Init, Labels
  <2> QED BY <2>1, <2>2, <2>3 DEF Init, TypeOK, Labels
<1>2. Chain
  BY <1>0, RequestsAreNaturals DEF Init, Chain, Next1
<1>3. Ended
  BY DEF Init, Ended
<1>4. BindStopped
  BY NoneAssumption DEF Init, BindStopped, Verdicts
<1> QED BY <1>1, <1>2, <1>3, <1>4 DEF IInv

\* The steps one by one.
LEMMA NextCases ==
  ASSUME Next
  PROVE  \/ \E k \in Kinds : ReadRequest(k)
         \/ \E c \in Callbacks : ReadReply(c) \/ HostReplies(c)
         \/ \E r \in Requests : Handler(r) \/ CallBack(r) \/ Abandon(r) \/ TimerFires(r)
         \/ InputCloses \/ BindTurn \/ CapPasses \/ DeadlinePasses
         \/ Drained \/ Exit \/ ExitUnsettled
BY DEF Next, Reader, Detour, Ending

-----------------------------------------------------------------------------
(* Types                                                                   *)

RequestType ==
  /\ kind \in Seq(Kinds) /\ Len(kind) <= MaxRequests
  /\ pc \in [Requests -> Labels]
  /\ order \in Seq(Requests)
  /\ verdict \in [Requests -> Verdicts \cup {None}]
  /\ awaits \in [Requests -> Callbacks \cup {None}]
  /\ timer \subseteq Requests

RestType ==
  /\ deferred \in BOOLEAN /\ cancelled \in BOOLEAN /\ settled \in BOOLEAN
  /\ input \in {"open", "closed"}
  /\ stage \in {"serving", "ended", "exited"}
  /\ pending \subseteq Callbacks /\ nextCb \in 1..(MaxCallbacks + 1)
  /\ replied \subseteq Callbacks
  /\ bind \in {"pending", "bound", "contended", "failed"}
  /\ loop \in {"start", "poll", "cooldown", "spin", "done"}
  /\ attempt \in 1..MaxAttempts
  /\ cap \in {"none", "set", "passed"}
  /\ late \in BOOLEAN
  /\ store \in {"none", "open", "closed"}

LEMMA TypeSplits == TypeOK <=> RequestType /\ RestType
BY DEF TypeOK, RequestType, RestType, Labels

LEMMA AnswerType ==
  ASSUME RequestType, NEW r \in Requests, NEW v \in Verdicts \cup {None}, Answer(r, v),
         UNCHANGED <<kind, awaits, timer>>
  PROVE  RequestType'
<1>1. order' \in Seq(Requests)
  BY AppendProperties DEF Answer, RequestType
<1>2. pc' \in [Requests -> Labels] /\ verdict' \in [Requests -> Verdicts \cup {None}]
  BY DEF Answer, Goto, RequestType, Labels
<1> QED BY <1>1, <1>2 DEF RequestType

LEMMA GotoType ==
  ASSUME RequestType, NEW r \in Requests, NEW l \in Labels, Goto(r, l),
         UNCHANGED <<kind, order, verdict, timer>>,
         awaits' \in [Requests -> Callbacks \cup {None}]
  PROVE  RequestType'
BY DEF Goto, RequestType

LEMMA RequestTypeStep ==
  ASSUME RequestType, RestType, [Next]_vars
  PROVE  RequestType'
<1>0. Decision \in Verdicts
  BY DEF Decision, Verdicts
<1>1. ASSUME UNCHANGED requestVars PROVE RequestType'
  BY <1>1 DEF RequestType, requestVars
<1>2. ASSUME NEW k \in Kinds, ReadRequest(k) PROVE RequestType'
  <2>1. kind' \in Seq(Kinds) /\ Len(kind') = Len(kind) + 1 /\ Len(kind) \in Nat
    BY <1>2, AppendProperties, LenProperties DEF ReadRequest, RequestType
  <2>2. Len(kind') <= MaxRequests
    BY <1>2, <2>1, BoundsAssumption DEF ReadRequest
  <2>3. pc' \in [Requests -> Labels]
    BY <1>2 DEF ReadRequest, Goto, RequestType, Labels
  <2> QED BY <1>2, <2>1, <2>2, <2>3 DEF ReadRequest, RequestType
<1>3. ASSUME NEW c \in Callbacks, ReadReply(c) PROVE RequestType'
  BY <1>3 DEF ReadReply, RequestType, Labels
<1>4. ASSUME NEW r \in Requests, Handler(r) PROVE RequestType'
  <2>1. CASE AnswerAtOnce(r)
    BY <2>1, AnswerType DEF AnswerAtOnce
  <2>2. CASE Finish(r)
    BY <2>2, AnswerType DEF Finish
  <2>3. CASE DoctorAnswers(r)
    BY <1>0, <2>3, AnswerType DEF DoctorAnswers
  <2>4. CASE BeginOther(r)
    BY <2>4, GotoType DEF BeginOther, RequestType, Labels
  <2>5. CASE DoctorWaits(r)
    BY <2>5, GotoType DEF DoctorWaits, RequestType, Labels
  <2> QED BY <1>4, <2>1, <2>2, <2>3, <2>4, <2>5 DEF Handler
<1>5. ASSUME NEW r \in Requests, CallBack(r) PROVE RequestType'
  <2>1. nextCb \in Callbacks
    BY <1>5, BoundsAssumption DEF CallBack, RestType, Callbacks
  <2> QED BY <1>5, <2>1, GotoType DEF CallBack, RequestType, Labels
<1>6. ASSUME NEW r \in Requests, Abandon(r) PROVE RequestType'
  BY <1>6, GotoType DEF Abandon, RequestType, Labels
<1>7. ASSUME NEW r \in Requests, TimerFires(r) PROVE RequestType'
  BY <1>7 DEF TimerFires, RequestType
<1>8. CASE \/ InputCloses \/ BindTurn \/ CapPasses \/ DeadlinePasses \/ Drained \/ Exit
           \/ ExitUnsettled \/ \E c \in Callbacks : HostReplies(c)
  BY <1>1, <1>8 DEF InputCloses, BindTurn, BindStops, BindOpens, BindFails, BindTransient,
                    BindPolls, BindSpins, BindTimesOut, BindFrame, CapPasses, DeadlinePasses, Drained, Exit,
                    ExitUnsettled, HostReplies
<1> QED BY <1>1, <1>2, <1>3, <1>4, <1>5, <1>6, <1>7, <1>8, NextCases DEF vars

LEMMA RestTypeStep ==
  ASSUME RequestType, RestType, BindStopped, [Next]_vars
  PROVE  RestType'
<1>1. ASSUME UNCHANGED <<deferred, input, stage, callbackVars, bindVars, cancelled>> PROVE RestType'
  BY <1>1 DEF RestType, callbackVars, bindVars
<1>2. ASSUME NEW k \in Kinds, ReadRequest(k) PROVE RestType'
  BY <1>1, <1>2 DEF ReadRequest
<1>3. ASSUME NEW c \in Callbacks, ReadReply(c) PROVE RestType'
  BY <1>3 DEF ReadReply, RestType, bindVars
<1>4. ASSUME NEW r \in Requests, Handler(r) PROVE RestType'
  BY <1>4 DEF Handler, AnswerAtOnce, BeginOther, Finish, DoctorWaits, DoctorAnswers, Tightened,
              RestType, callbackVars, bindVars
<1>5. ASSUME NEW r \in Requests, CallBack(r) PROVE RestType'
  <2>1. nextCb \in Callbacks /\ nextCb' \in 1..(MaxCallbacks + 1)
    BY <1>5, BoundsAssumption DEF CallBack, RestType, Callbacks
  <2> QED BY <1>5, <2>1 DEF CallBack, RestType, bindVars
<1>6. ASSUME NEW r \in Requests, Abandon(r) \/ TimerFires(r) PROVE RestType'
  BY <1>1, <1>6 DEF Abandon, TimerFires
<1>7. CASE BindTurn
  <2>1. AttemptNow \in Nat /\ (AtTurn => AttemptNow \in 1..MaxAttempts)
    BY BoundsAssumption DEF AttemptNow, RestType, BindStopped
  <2>2. attempt' \in 1..MaxAttempts
    BY <1>7, <2>1 DEF BindTurn, BindStops, BindOpens, BindFails, BindTransient, BindPolls, BindSpins,
                      BindTimesOut, BindEnds, RestType
  <2>3. /\ bind' \in {"pending", "bound", "contended", "failed"}
        /\ loop' \in {"start", "poll", "cooldown", "spin", "done"}
        /\ settled' \in BOOLEAN /\ late' \in BOOLEAN /\ store' \in {"none", "open", "closed"}
    BY <1>7 DEF BindTurn, BindStops, BindOpens, BindFails, BindTransient, BindPolls, BindSpins,
                BindTimesOut, BindEnds, RestType
  <2>4. UNCHANGED <<deferred, input, stage, callbackVars, cap, cancelled>>
    BY <1>7 DEF BindTurn, BindStops, BindOpens, BindFails, BindTransient, BindPolls, BindSpins,
                BindTimesOut, BindFrame
  <2> QED BY <2>2, <2>3, <2>4 DEF RestType, callbackVars
<1>8. CASE InputCloses
  BY <1>8 DEF InputCloses, RestType, callbackVars
<1>9. CASE CapPasses \/ DeadlinePasses
  BY <1>9 DEF CapPasses, DeadlinePasses, RestType, callbackVars
<1>10. CASE Drained \/ Exit \/ ExitUnsettled
  BY <1>10 DEF Drained, Exit, ExitUnsettled, RestType, callbackVars, bindVars
<1>11. ASSUME NEW c \in Callbacks, HostReplies(c) PROVE RestType'
  BY <1>11 DEF HostReplies, RestType, bindVars
<1> QED BY <1>1, <1>2, <1>3, <1>4, <1>5, <1>6, <1>7, <1>8, <1>9, <1>10, <1>11, NextCases DEF vars

-----------------------------------------------------------------------------
(* The chain                                                               *)

\* A handler that begins, runs, waits or answers is the one in turn.
LEMMA InTurn ==
  ASSUME RequestType, Chain, NEW r \in Requests,
         (pc[r] = "queued" /\ Turn(r)) \/ pc[r] \in {"running", "awaiting", "bindwait"}
  PROVE  r = Next1 /\ r \in Received
<1>0. Len(order) \in Nat /\ Len(kind) \in Nat /\ r \in Nat \ {0}
  BY RequestsAreNaturals, LenProperties DEF RequestType
<1>1. r > Len(order) /\ r <= Len(kind)
  BY <1>0 DEF Chain
<1>2. r <= Next1
  <2>1. CASE pc[r] = "queued" /\ Turn(r)
    <3> SUFFICES ASSUME r > Next1 PROVE FALSE
      BY <1>0 DEF Next1
    <3>1. Next1 \in 1..(r - 1) /\ Next1 \in Requests
      BY <1>0, BoundsAssumption DEF Next1, Requests
    <3>2. pc[Next1] = "done"
      BY <2>1, <3>1 DEF Turn
    <3> QED BY <1>0, <3>1, <3>2 DEF Chain, Next1
  <2>2. CASE pc[r] \in {"running", "awaiting", "bindwait"}
    BY <1>0, <2>2 DEF Chain, Next1
  <2> QED BY <2>1, <2>2
<1> QED BY <1>0, <1>1, <1>2 DEF Next1, Received

LEMMA AnswerChain ==
  ASSUME RequestType, Chain, NEW r \in Requests, r = Next1, r \in Received,
         NEW v, Answer(r, v), pc[r] # "awaiting", UNCHANGED <<kind, awaits>>
  PROVE  Chain'
<1>0. Len(order) \in Nat /\ Len(kind) \in Nat /\ Requests \subseteq Nat
  BY RequestsAreNaturals, LenProperties DEF RequestType
<1>1. /\ order' = Append(order, r) /\ Len(order') = Len(order) + 1
      /\ \A i \in 1..Len(order) : order'[i] = order[i]
      /\ order'[Len(order) + 1] = r
  BY AppendProperties DEF Answer, RequestType
<1>2. \A i \in 1..Len(order') : order'[i] = i
  BY <1>0, <1>1 DEF Chain, Next1
<1>3. Len(order') <= Len(kind')
  BY <1>0, <1>1 DEF Next1, Received
<1>4. ASSUME NEW q \in Requests
      PROVE  /\ pc'[q] = "done" <=> q <= Len(order')
             /\ pc'[q] = "idle" <=> q > Len(kind')
             /\ q > Next1' => pc'[q] \in {"idle", "queued"}
             /\ awaits'[q] # None => pc'[q] = "awaiting"
  <2>1. pc'[q] = IF q = r THEN "done" ELSE pc[q]
    BY DEF Answer, Goto, RequestType
  <2> QED BY <1>0, <1>1, <2>1 DEF Chain, Next1, Received
<1> QED BY <1>2, <1>3, <1>4 DEF Chain

LEMMA GotoChain ==
  ASSUME RequestType, Chain, NEW r \in Requests, r = Next1, r \in Received,
         NEW l \in {"queued", "running", "awaiting", "bindwait"}, Goto(r, l),
         UNCHANGED <<kind, order>>,
         \A q \in Requests : awaits'[q] # None => IF q = r THEN l = "awaiting" ELSE awaits[q] # None
  PROVE  Chain'
<1>0. Len(order) \in Nat /\ Len(kind) \in Nat /\ Requests \subseteq Nat
  BY RequestsAreNaturals, LenProperties DEF RequestType
<1>1. ASSUME NEW q \in Requests
      PROVE  /\ pc'[q] = "done" <=> q <= Len(order')
             /\ pc'[q] = "idle" <=> q > Len(kind')
             /\ q > Next1' => pc'[q] \in {"idle", "queued"}
             /\ awaits'[q] # None => pc'[q] = "awaiting"
  <2>1. pc'[q] = IF q = r THEN l ELSE pc[q]
    BY DEF Goto, RequestType
  <2> QED BY <1>0, <2>1 DEF Chain, Next1, Received
<1> QED BY <1>1 DEF Chain

LEMMA ChainStep ==
  ASSUME RequestType, RestType, Chain, [Next]_vars
  PROVE  Chain'
<1>0. Len(order) \in Nat /\ Len(kind) \in Nat /\ Requests \subseteq Nat
  BY RequestsAreNaturals, LenProperties DEF RequestType
<1>1. ASSUME UNCHANGED <<kind, order, pc, awaits>> PROVE Chain'
  BY <1>1 DEF Chain, Next1
<1>2. ASSUME NEW k \in Kinds, ReadRequest(k) PROVE Chain'
  <2> DEFINE n == Len(kind) + 1
  <2>1. Len(kind') = n /\ n \in Requests /\ UNCHANGED <<order, awaits>>
    BY <1>0, <1>2, AppendProperties, BoundsAssumption DEF ReadRequest, RequestType, Requests
  <2>2. pc[n] = "idle" /\ awaits[n] = None
    BY <1>0, <2>1 DEF Chain
  <2>3. ASSUME NEW q \in Requests
        PROVE  /\ pc'[q] = "done" <=> q <= Len(order')
               /\ pc'[q] = "idle" <=> q > Len(kind')
               /\ q > Next1' => pc'[q] \in {"idle", "queued"}
               /\ awaits'[q] # None => pc'[q] = "awaiting"
    <3>1. pc'[q] = IF q = n THEN "queued" ELSE pc[q]
      BY <1>2 DEF ReadRequest, Goto, RequestType
    <3> QED BY <1>0, <2>1, <2>2, <3>1 DEF Chain, Next1
  <2> HIDE DEF n
  <2>4. Len(order') <= Len(kind')
    BY <1>0, <2>1 DEF Chain, n
  <2> QED BY <2>1, <2>3, <2>4 DEF Chain
<1>3. ASSUME NEW c \in Callbacks, ReadReply(c) PROVE Chain'
  <2>1. UNCHANGED <<kind, order>> /\ c # None
    BY <1>3, RequestsAreNaturals DEF ReadReply
  <2>2. ASSUME NEW q \in Requests
        PROVE  /\ pc'[q] = "done" <=> pc[q] = "done"
               /\ pc'[q] = "idle" <=> pc[q] = "idle"
               /\ pc[q] \in {"idle", "queued"} => pc'[q] = pc[q]
               /\ awaits'[q] # None => pc'[q] = "awaiting"
    BY <1>3, <2>1 DEF ReadReply, Chain
  <2> QED BY <2>1, <2>2 DEF Chain, Next1
<1>4. ASSUME NEW r \in Requests, Handler(r) PROVE Chain'
  <2>1. (pc[r] = "queued" /\ Turn(r)) \/ pc[r] \in {"running", "bindwait"}
    BY <1>4 DEF Handler, AnswerAtOnce, BeginOther, Finish, DoctorWaits, DoctorAnswers
  <2>2. r = Next1 /\ r \in Received /\ pc[r] # "awaiting" /\ awaits[r] = None
    BY <2>1, InTurn DEF Chain
  <2>3. CASE AnswerAtOnce(r) \/ Finish(r) \/ DoctorAnswers(r)
    <3>1. UNCHANGED <<kind, awaits>> /\ \E v \in Verdicts \cup {None} : Answer(r, v)
      BY <2>3 DEF AnswerAtOnce, Finish, DoctorAnswers, Decision, Verdicts
    <3> QED BY <2>2, <3>1, AnswerChain
  <2>4. CASE BeginOther(r) \/ DoctorWaits(r)
    <3>1. UNCHANGED <<kind, order, awaits>> /\ (Goto(r, "running") \/ Goto(r, "bindwait"))
      BY <2>4 DEF BeginOther, DoctorWaits
    <3> QED BY <2>2, <3>1, GotoChain
  <2> QED BY <1>4, <2>3, <2>4 DEF Handler
<1>5. ASSUME NEW r \in Requests, CallBack(r) PROVE Chain'
  <2>1. r = Next1 /\ r \in Received
    BY <1>5, InTurn DEF CallBack
  <2>2. \A q \in Requests : q # r => awaits'[q] = awaits[q]
    BY <1>5 DEF CallBack, RequestType
  <2> QED BY <1>5, <2>1, <2>2, GotoChain DEF CallBack
<1>6. ASSUME NEW r \in Requests, Abandon(r) PROVE Chain'
  <2>1. r = Next1 /\ r \in Received
    BY <1>6, InTurn DEF Abandon
  <2>2. \A q \in Requests : awaits'[q] = IF q = r THEN None ELSE awaits[q]
    BY <1>6 DEF Abandon, RequestType
  <2> QED BY <1>6, <2>1, <2>2, GotoChain DEF Abandon
<1>7. ASSUME NEW r \in Requests, TimerFires(r) PROVE Chain'
  BY <1>1, <1>7 DEF TimerFires
<1>8. CASE \/ InputCloses \/ BindTurn \/ CapPasses \/ DeadlinePasses \/ Drained \/ Exit \/ ExitUnsettled
           \/ (\E c \in Callbacks : HostReplies(c)) \/ UNCHANGED vars
  BY <1>1, <1>8 DEF InputCloses, BindTurn, BindStops, BindOpens, BindFails, BindTransient,
                    BindPolls, BindSpins, BindTimesOut, BindFrame, CapPasses, DeadlinePasses, Drained, Exit,
                    ExitUnsettled, HostReplies, vars, requestVars
<1> QED BY <1>2, <1>3, <1>4, <1>5, <1>6, <1>7, <1>8, NextCases

-----------------------------------------------------------------------------
(* The end of the module, and the bind                                     *)

LEMMA EndedStep ==
  ASSUME RequestType, RestType, Chain, Ended, [Next]_vars
  PROVE  Ended'
<1>0. Len(order) \in Nat /\ Len(kind) \in Nat /\ Requests \subseteq Nat /\ Received \subseteq Requests
  BY RequestsAreNaturals, LenProperties, BoundsAssumption DEF RequestType, Received, Requests
<1>1. ASSUME UNCHANGED <<kind, order, pc, input, stage>> PROVE Ended'
  BY <1>1 DEF Ended, Next1, Received
<1>2. ASSUME NEW k \in Kinds, ReadRequest(k) PROVE Ended'
  BY <1>2 DEF ReadRequest, Ended
<1>3. ASSUME NEW c \in Callbacks, ReadReply(c) PROVE Ended'
  BY <1>3 DEF ReadReply, Ended
<1>4. ASSUME NEW r \in Requests, Handler(r) \/ CallBack(r) \/ Abandon(r) PROVE Ended'
  <2>1. stage' = stage
    BY <1>4 DEF Handler, AnswerAtOnce, BeginOther, Finish, DoctorWaits, DoctorAnswers, CallBack, Abandon
  <2>2. (pc[r] = "queued" /\ Turn(r)) \/ pc[r] \in {"running", "awaiting", "bindwait"}
    BY <1>4 DEF Handler, AnswerAtOnce, BeginOther, Finish, DoctorWaits, DoctorAnswers, CallBack, Abandon
  <2>3. pc[r] = "awaiting" => stage = "serving"
    BY <1>4 DEF Handler, AnswerAtOnce, BeginOther, Finish, DoctorWaits, DoctorAnswers, CallBack, Abandon
  <2>4. r = Next1 /\ r \in Received
    BY <2>2, InTurn
  <2>5. stage = "serving"
    BY <2>2, <2>3, <2>4 DEF Ended
  <2> QED BY <2>1, <2>5 DEF Ended
<1>5. ASSUME NEW r \in Requests, TimerFires(r) PROVE Ended'
  BY <1>1, <1>5 DEF TimerFires
<1>6. CASE \/ BindTurn \/ CapPasses \/ DeadlinePasses \/ UNCHANGED vars
           \/ \E c \in Callbacks : HostReplies(c)
  BY <1>1, <1>6 DEF HostReplies, BindTurn, BindStops, BindOpens, BindFails, BindTransient, BindPolls, BindSpins,
                    BindTimesOut, BindFrame, CapPasses, DeadlinePasses, vars, requestVars
<1>7. CASE InputCloses
  BY <1>7 DEF InputCloses, Ended, Next1, Received, requestVars
<1>8. CASE Drained
  <2>1. Next1 \notin Received
    <3> SUFFICES ASSUME Next1 \in Received PROVE FALSE
      OBVIOUS
    <3>1. pc[Next1] = "done"
      BY <1>8 DEF Drained, ChainDrained
    <3> QED BY <1>0, <3>1 DEF Chain, Next1
  <2> QED BY <1>8, <2>1 DEF Drained, Ended, Next1, Received, requestVars
<1>9. CASE Exit
  BY <1>9 DEF Exit, Ended, Next1, Received, requestVars
<1>10. CASE ExitUnsettled
  <2>1. PICK q \in Received : pc[q] = "awaiting"
    BY <1>10 DEF ExitUnsettled
  <2>2. q = Next1
    BY <1>0, <2>1, InTurn
  <2> QED BY <1>10, <2>1, <2>2 DEF ExitUnsettled, Ended, Next1, Received, requestVars
<1> QED BY <1>2, <1>3, <1>4, <1>5, <1>6, <1>7, <1>8, <1>9, <1>10, NextCases

\* No turn of the bind is left once it was given up.
LEMMA GivenUpStays ==
  ASSUME RestType, GivenUp, input = "open" => ~cancelled, [Next]_vars
  PROVE  GivenUp'
<1>1. CASE BindTurn
  <2>1. cap # "passed" /\ ~cancelled => loop # "done"
    BY <1>1 DEF BindTurn, BindStops, BindOpens, BindFails, BindTransient, BindPolls, BindSpins, BindTimesOut, AtTurn
  <2> QED BY <1>1, <2>1 DEF GivenUp, BindTurn, BindStops, BindOpens, BindFails, BindTransient,
                   BindPolls, BindSpins, BindTimesOut, BindFrame, Checkpoint, AtTurn
<1>2. CASE Exit \/ ExitUnsettled
  BY <1>2 DEF Exit, ExitUnsettled, GivenUp
<1>3. CASE InputCloses \/ CapPasses \/ DeadlinePasses \/ Drained \/ UNCHANGED vars
  BY <1>3 DEF InputCloses, CapPasses, DeadlinePasses, Drained, GivenUp, bindVars, vars, RestType
<1>4. CASE \E k \in Kinds : ReadRequest(k)
  BY <1>4 DEF ReadRequest, bindVars, GivenUp
<1>5. CASE \E c \in Callbacks : ReadReply(c) \/ HostReplies(c)
  BY <1>5 DEF ReadReply, HostReplies, bindVars, GivenUp
<1>6. CASE \E r \in Requests : Handler(r) \/ CallBack(r) \/ Abandon(r) \/ TimerFires(r)
  BY <1>6 DEF Handler, AnswerAtOnce, BeginOther, Finish, DoctorWaits, DoctorAnswers, Tightened,
              CallBack, Abandon, TimerFires, bindVars, GivenUp
<1> QED BY <1>1, <1>2, <1>3, <1>4, <1>5, <1>6, NextCases

LEMMA BindStoppedStep ==
  ASSUME RequestType, RestType, BindStopped, [Next]_vars
  PROVE  BindStopped'
<1>0. None # "degraded" /\ "degraded" \in Verdicts
  BY NoneAssumption DEF Verdicts
<1>1. ASSUME UNCHANGED <<input, bind, settled, loop, attempt, cap, cancelled, timer, verdict>>
      PROVE  BindStopped'
  BY <1>1 DEF BindStopped, GivenUp
<1>2. CASE (\E k \in Kinds : ReadRequest(k)) \/ (\E c \in Callbacks : ReadReply(c) \/ HostReplies(c))
  BY <1>1, <1>2 DEF ReadRequest, ReadReply, HostReplies, requestVars, bindVars
<1>3. CASE \E r \in Requests : AnswerAtOnce(r) \/ Finish(r)
  <2>1. UNCHANGED <<input, bind, settled, loop, attempt, cap, cancelled, timer>>
    BY <1>3 DEF AnswerAtOnce, Finish, bindVars
  <2>2. \A q \in Requests : verdict'[q] = "degraded" => verdict[q] = "degraded"
    BY <1>0, <1>3 DEF AnswerAtOnce, Finish, Answer, RequestType
  <2> QED BY <2>1, <2>2 DEF BindStopped, GivenUp
<1>4. CASE \E r \in Requests : DoctorAnswers(r)
  <2>1. PICK r \in Requests : DoctorAnswers(r)
    BY <1>4
  <2>2. UNCHANGED <<input, bind, settled, loop, attempt, cap, cancelled, timer>>
    BY <2>1 DEF DoctorAnswers, bindVars
  <2>3. Decision = "degraded" => GivenUp
    BY <2>1 DEF DoctorAnswers, Decision, BindStopped, GivenUp
  <2>4. \A q \in Requests : verdict'[q] = "degraded" => verdict[q] = "degraded" \/ Decision = "degraded"
    BY <2>1 DEF DoctorAnswers, Answer, RequestType
  <2> QED BY <2>2, <2>3, <2>4 DEF BindStopped, GivenUp
<1>5. CASE \E r \in Requests : DoctorWaits(r)
  <2>1. UNCHANGED <<input, bind, settled, loop, attempt, cancelled, timer, verdict>> /\ (cap = "passed" => cap' = "passed")
    BY <1>5 DEF DoctorWaits, Tightened
  <2> QED BY <2>1 DEF BindStopped, GivenUp
<1>6. CASE \E r \in Requests : BeginOther(r) \/ CallBack(r) \/ Abandon(r)
  BY <1>1, <1>6 DEF BeginOther, CallBack, Abandon, bindVars
<1>7. CASE \E r \in Requests : TimerFires(r)
  BY <1>7 DEF TimerFires, bindVars, BindStopped, GivenUp
<1>8. CASE BindTurn
  <2>1. /\ UNCHANGED <<cap, cancelled, timer, verdict>>
        /\ bind' # "pending" => loop' = "done"
        /\ settled' => loop' = "done" \/ cancelled'
    BY <1>8 DEF BindTurn, BindStops, BindOpens, BindFails, BindTransient, BindPolls, BindSpins, BindTimesOut,
                BindFrame, BindEnds, requestVars, BindStopped, AtTurn, Checkpoint
  <2>2. loop' = "cooldown" => attempt' < MaxAttempts
    BY <1>8 DEF BindTurn, BindStops, BindOpens, BindFails, BindTransient, BindPolls, BindSpins, BindTimesOut,
                BindEnds
  <2>3. GivenUp => GivenUp'
    BY <1>8, GivenUpStays DEF Next, BindStopped
  <2>4. input' = input
    BY <1>8 DEF BindTurn, BindStops, BindOpens, BindFails, BindTransient, BindPolls, BindSpins, BindTimesOut,
                BindFrame
  <2> QED BY <2>1, <2>2, <2>3, <2>4 DEF BindStopped
<1>9. CASE InputCloses
  BY <1>9 DEF InputCloses, requestVars, BindStopped, GivenUp
<1>10. CASE CapPasses \/ DeadlinePasses
  BY <1>10 DEF CapPasses, DeadlinePasses, requestVars, BindStopped, GivenUp
<1>11. CASE Drained \/ Exit \/ ExitUnsettled \/ UNCHANGED vars
  BY <1>11 DEF Drained, Exit, ExitUnsettled, requestVars, bindVars, vars, BindStopped, GivenUp
<1> QED BY <1>2, <1>3, <1>4, <1>5, <1>6, <1>7, <1>8, <1>9, <1>10, <1>11, NextCases DEF Handler

LEMMA NextInv == IInv /\ [Next]_vars => IInv'
<1> SUFFICES ASSUME IInv, [Next]_vars PROVE IInv'
  OBVIOUS
<1>0. RequestType /\ RestType /\ Chain /\ Ended /\ BindStopped
  BY TypeSplits DEF IInv
<1>1. RequestType' /\ RestType' /\ BindStopped'
  BY <1>0, RequestTypeStep, RestTypeStep, BindStoppedStep
<1>2. Chain' /\ Ended'
  BY <1>0, ChainStep, EndedStep
<1>3. TypeOK'
  BY <1>1 DEF TypeOK, RequestType, RestType, Labels
<1> QED BY <1>1, <1>2, <1>3 DEF IInv

\* The inductive invariant holds in every reachable state.
THEOREM Invariance == Spec => []IInv
<1> QED BY InitInv, NextInv, PTL DEF Spec

\* Every variable of the loop keeps its type.
THEOREM LoopTypeCorrect == Spec => []TypeOK
<1>1. IInv => TypeOK
  BY DEF IInv
<1> QED BY <1>1, Invariance, PTL

\* A process that ends has answered every request before the one whose callback
\* the closed input cut off.
THEOREM EndAnswersAll == Spec => []ExitAnswersAll
<1>1. ASSUME IInv, stage # "serving", NEW r \in Received, pc[r] # "done"
      PROVE  \E q \in 1..r : pc[q] = "awaiting"
  <2>1. RequestType /\ Chain /\ Ended
    BY <1>1, TypeSplits DEF IInv
  <2>2. Len(order) \in Nat /\ Len(kind) \in Nat /\ r \in Requests /\ r \in Nat
    BY <1>1, <2>1, LenProperties, BoundsAssumption DEF RequestType, Received, Requests
  <2>3. r > Len(order)
    BY <1>1, <2>1, <2>2 DEF Chain
  <2>4. Next1 \in Received /\ Next1 \in 1..r
    BY <1>1, <2>2, <2>3 DEF Next1, Received
  <2> QED BY <1>1, <2>1, <2>4 DEF Ended
<1>2. IInv => ExitAnswersAll
  BY <1>1 DEF ExitAnswersAll
<1> QED BY <1>2, Invariance, PTL

\* A deferred bind does not open the store once the input is closed or a doctor
\* call was told that it is pending.
THEOREM StoreIsNotOpenedLate == Spec => StoreStaysShut
<1>1. ASSUME IInv, [Next]_vars, cancelled \/ \E r \in Received : verdict[r] = "degraded",
             store' = "open"
      PROVE  store = "open"
  <2>1. RequestType /\ RestType /\ BindStopped
    BY <1>1, TypeSplits DEF IInv
  <2>2. Received \subseteq Requests
    BY <2>1, LenProperties, BoundsAssumption DEF RequestType, Received, Requests
  <2>3. ~ BindOpens
    BY <1>1, <2>1, <2>2 DEF BindStopped, GivenUp, BindOpens, AtTurn, Checkpoint
  <2>4. CASE BindTurn
    BY <1>1, <2>3, <2>4 DEF BindTurn, BindStops, BindFails, BindTransient, BindPolls, BindSpins, BindTimesOut
  <2>5. CASE \E r \in Requests : Handler(r) \/ CallBack(r) \/ Abandon(r) \/ TimerFires(r)
    BY <1>1, <2>5 DEF Handler, AnswerAtOnce, BeginOther, Finish, DoctorWaits, DoctorAnswers,
                      CallBack, Abandon, TimerFires, bindVars
  <2>6. CASE (\E k \in Kinds : ReadRequest(k)) \/ (\E c \in Callbacks : ReadReply(c) \/ HostReplies(c))
    BY <1>1, <2>6 DEF ReadRequest, ReadReply, HostReplies, bindVars
  <2>7. CASE InputCloses \/ CapPasses \/ DeadlinePasses \/ Drained \/ Exit \/ ExitUnsettled \/ UNCHANGED vars
    BY <1>1, <2>7 DEF InputCloses, CapPasses, DeadlinePasses, Drained, Exit, ExitUnsettled, vars, bindVars
  <2> QED BY <1>1, <2>4, <2>5, <2>6, <2>7, NextCases
<1>2. IInv /\ [Next]_vars =>
        [ cancelled \/ (\E r \in Received : verdict[r] = "degraded")
            => (store' = "open" => store = "open") ]_vars
  BY <1>1
<1> QED BY <1>2, Invariance, PTL DEF Spec, StoreStaysShut

-----------------------------------------------------------------------------
(* The refinement of SerialServer                                          *)

\* The number of requests begun: the answered ones, and the one in turn when
\* its handler has started.
Count == IF Next1 \in Received /\ pc[Next1] # "queued" THEN Next1 ELSE Len(order)

LEMMA BegunIsCounted == RequestType /\ Chain => Cardinality(Begun) = Count
<1> SUFFICES ASSUME RequestType, Chain PROVE Cardinality(Begun) = Count
  OBVIOUS
<1>0. /\ Len(order) \in Nat /\ Len(kind) \in Nat /\ Requests \subseteq Nat \ {0}
      /\ Received \subseteq Requests /\ Len(order) <= Len(kind) /\ Count \in Nat
  BY RequestsAreNaturals, LenProperties, BoundsAssumption
     DEF RequestType, Received, Requests, Chain, Count, Next1
<1>1. ASSUME NEW r \in Received PROVE pc[r] # "queued" <=> r <= Count
  <2>1. r <= Len(order) => pc[r] = "done"
    BY <1>0 DEF Chain
  <2>2. r > Next1 => pc[r] = "queued"
    BY <1>0 DEF Chain, Received
  <2> QED BY <1>0, <2>1, <2>2 DEF Count, Next1
<1>2. \A r \in 1..Count : r \in Received
  BY <1>0 DEF Count, Next1, Received
<1>3. Begun = 1..Count
  BY <1>0, <1>1, <1>2 DEF Begun, Received
<1> QED BY <1>0, <1>3, FS_Interval

\* What an answer does to the count: the next request has not begun.
LEMMA AnswerCounts ==
  ASSUME RequestType, Chain, NEW r \in Requests, r = Next1, r \in Received, NEW v, Answer(r, v),
         UNCHANGED kind
  PROVE  order' = Append(order, Next1) /\ Count' = Next1
<1>0. Len(order) \in Nat /\ Len(kind) \in Nat /\ Requests \subseteq Nat
  BY RequestsAreNaturals, LenProperties DEF RequestType
<1>1. order' = Append(order, Next1) /\ Len(order') = Next1
  BY AppendProperties DEF Answer, RequestType, Next1
<1>2. Next1' \in Received' => pc'[Next1'] = "queued"
  <2> SUFFICES ASSUME Next1' \in Received' PROVE pc'[Next1'] = "queued"
    OBVIOUS
  <2>1. Next1' = Next1 + 1 /\ Next1' \in Requests /\ Next1' <= Len(kind)
    BY <1>0, <1>1, BoundsAssumption DEF Next1, Received, Requests, RequestType
  <2>2. pc'[Next1'] = pc[Next1 + 1]
    BY <1>0, <2>1 DEF Answer, Goto, RequestType, Next1
  <2> QED BY <1>0, <2>1, <2>2 DEF Chain, Next1
<1> QED BY <1>1, <1>2 DEF Count

ServerVars == <<Len(kind), Cardinality(Begun), order>>

LEMMA ServerStep ==
  ASSUME RequestType, RestType, Chain, (RequestType /\ Chain)', [Next]_vars
  PROVE  [Server!Next]_ServerVars
<1>0. /\ Len(order) \in Nat /\ Len(kind) \in Nat /\ Requests \subseteq Nat
      /\ Received \subseteq Requests
  BY RequestsAreNaturals, LenProperties, BoundsAssumption DEF RequestType, Received, Requests
<1>c. Cardinality(Begun) = Count /\ Cardinality(Begun)' = Count'
  <2>1. (RequestType /\ Chain => Cardinality(Begun) = Count)'
    BY BegunIsCounted, PTL
  <2> QED BY <2>1, BegunIsCounted
<1>1. ASSUME UNCHANGED <<kind, order>>, Count' = Count PROVE UNCHANGED ServerVars
  BY <1>c, <1>1 DEF ServerVars
<1>2. ASSUME UNCHANGED <<kind, order, pc>> PROVE UNCHANGED ServerVars
  BY <1>1, <1>2 DEF Count, Next1, Received
<1>3. ASSUME NEW k \in Kinds, ReadRequest(k) PROVE Server!Receive
  <2>1. Len(kind) < MaxRequests /\ Len(kind') = Len(kind) + 1 /\ order' = order
    BY <1>3, AppendProperties DEF ReadRequest, RequestType
  <2>2. Count' = Count
    <3>1. \A q \in Received : pc'[q] = pc[q] /\ q \in Received'
      BY <1>0, <1>3, <2>1 DEF ReadRequest, Goto, RequestType, Received
    <3>2. pc'[Len(kind) + 1] = "queued"
      BY <1>0, <1>3, BoundsAssumption DEF ReadRequest, Goto, RequestType, Requests
    <3>3. Received' = Received \cup {Len(kind) + 1}
      BY <1>0, <2>1 DEF Received
    <3>4. Next1' = Next1
      BY <2>1 DEF Next1
    <3> QED BY <2>1, <3>1, <3>2, <3>3, <3>4 DEF Count
  <2> QED BY <1>c, <2>1, <2>2 DEF Server!Receive
<1>4. ASSUME NEW c \in Callbacks, ReadReply(c) PROVE UNCHANGED ServerVars
  <2>1. UNCHANGED <<kind, order>>
    BY <1>4 DEF ReadReply
  <2>2. \A q \in Requests : pc'[q] = "queued" <=> pc[q] = "queued"
    BY <1>4, RequestsAreNaturals DEF ReadReply, Chain
  <2> QED BY <1>0, <1>1, <2>1, <2>2 DEF Count, Next1, Received
<1>5. ASSUME NEW r \in Requests, Handler(r) PROVE Server!Next
  <2>1. r = Next1 /\ r \in Received
    BY <1>5, InTurn DEF Handler, AnswerAtOnce, BeginOther, Finish, DoctorWaits, DoctorAnswers
  <2>2. Count = IF pc[r] = "queued" THEN Len(order) ELSE Next1
    BY <2>1 DEF Count
  <2>3. Len(order) < Len(kind) /\ Next1 = Len(order) + 1
    BY <1>0, <2>1 DEF Next1, Received
  <2>4. CASE AnswerAtOnce(r) \/ Finish(r) \/ DoctorAnswers(r)
    <3>1. UNCHANGED kind /\ \E v \in Verdicts \cup {None} : Answer(r, v)
      BY <2>4 DEF AnswerAtOnce, Finish, DoctorAnswers, Decision, Verdicts
    <3>2. order' = Append(order, Next1) /\ Count' = Next1
      BY <2>1, <3>1, AnswerCounts
    <3> QED BY <1>0, <1>c, <2>2, <2>3, <3>1, <3>2 DEF Server!Next, Server!Answer, Server!BeginAndAnswer
  <2>5. CASE BeginOther(r) \/ DoctorWaits(r)
    <3>1. pc[r] = "queued" /\ UNCHANGED <<kind, order>> /\ pc'[r] # "queued"
      BY <2>5 DEF BeginOther, DoctorWaits, Goto, RequestType
    <3>2. Count' = Next1
      BY <2>1, <3>1 DEF Count, Next1, Received
    <3> QED BY <1>0, <1>c, <2>2, <2>3, <3>1, <3>2 DEF Server!Next, Server!Begin
  <2> QED BY <1>5, <2>4, <2>5 DEF Handler
<1>6. ASSUME NEW r \in Requests, CallBack(r) \/ Abandon(r) PROVE UNCHANGED ServerVars
  <2>1. r = Next1 /\ r \in Received
    BY <1>6, InTurn DEF CallBack, Abandon
  <2>2. UNCHANGED <<kind, order>> /\ pc[r] # "queued" /\ pc'[r] # "queued"
    BY <1>6 DEF CallBack, Abandon, Goto, RequestType
  <2> QED BY <1>1, <2>1, <2>2 DEF Count, Next1, Received
<1>7. ASSUME NEW r \in Requests, TimerFires(r) PROVE UNCHANGED ServerVars
  BY <1>2, <1>7 DEF TimerFires
<1>8. CASE \/ InputCloses \/ BindTurn \/ CapPasses \/ DeadlinePasses \/ Drained \/ Exit \/ ExitUnsettled
           \/ (\E c \in Callbacks : HostReplies(c)) \/ UNCHANGED vars
  BY <1>2, <1>8 DEF InputCloses, BindTurn, BindStops, BindOpens, BindFails, BindTransient,
                    BindPolls, BindSpins, BindTimesOut, BindFrame, CapPasses, DeadlinePasses, Drained, Exit,
                    ExitUnsettled, HostReplies, vars, requestVars
<1> QED BY <1>3, <1>4, <1>5, <1>6, <1>7, <1>8, NextCases DEF Server!Next

\* The request loop with its callbacks, its deferred bind and its end of input
\* implements the serial server: one answer per request, in their order.
THEOREM LoopIsSerialServer == Spec => ServesInOrder
<1>1. Init => Server!Init
  <2> SUFFICES ASSUME Init PROVE Server!Init
    OBVIOUS
  <2>1. kind = <<>> /\ order = <<>> /\ Len(kind) = 0
    BY DEF Init
  <2>2. Begun = {}
    BY <2>1 DEF Begun, Received
  <2> QED BY <2>1, <2>2, FS_EmptySet DEF Server!Init
<1>2. IInv /\ IInv' /\ [Next]_vars => [Server!Next]_ServerVars
  <2> SUFFICES ASSUME IInv, IInv', [Next]_vars PROVE [Server!Next]_ServerVars
    OBVIOUS
  <2>1. RequestType /\ RestType /\ Chain
    BY TypeSplits DEF IInv
  <2>2. (RequestType /\ Chain)'
    BY DEF IInv, TypeOK, RequestType, Labels
  <2> QED BY <2>1, <2>2, ServerStep
<1> QED BY <1>1, <1>2, Invariance, PTL DEF Spec, ServesInOrder, Server!Spec, ServerVars
===============================================================================
