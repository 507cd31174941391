-------------------------- MODULE EngineWorkersProofs --------------------------
(***************************************************************************)
(* Proofs about EngineWorkers, for any number of workers.                  *)
(***************************************************************************)
EXTENDS EngineWorkers, TLAPS

(* The inductive invariant.                                                *)

\* A slot names a thread that has not ended, and a worker is in its slot for
\* as long as it is alive: a slot is filled again only after that.
InItsSlot ==
  /\ \A k \in Slots : slot[k] # None => pc[slot[k]] # "gone"
  /\ \A t \in Threads : Alive(t) => kind[t] \in Slots /\ slot[kind[t]] = t

\* What on_session_end may have left to look at.
Rests == {Drain, <<"maintenance", "dreamer">>, <<"dreamer">>, <<>>}
Yet(s) == {s[i] : i \in 1..Len(s)}

\* During the drain a worker was waited for, is being waited for, or its slot
\* is still to be looked at.
DrainGoesOn ==
  /\ left \in Rests
  /\ hpc \in {"drain", "join"} =>
       \A t \in Threads : pc[t] = "work" =>
         waitedFor[t] \/ kind[t] \in Yet(left) \/ target = t

IInv == TypeOK /\ InItsSlot /\ DrainGoesOn

-----------------------------------------------------------------------------
LEMMA RestsShrink ==
  ASSUME NEW s \in Rests, s # <<>>
  PROVE  Tail(s) \in Rests /\ Head(s) \in Slots /\ Yet(s) = {Head(s)} \cup Yet(Tail(s))
<1>1. CASE s = Drain
  BY <1>1 DEF Rests, Drain, Slots, Yet
<1>2. CASE s = <<"maintenance", "dreamer">>
  BY <1>2 DEF Rests, Slots, Yet
<1>3. CASE s = <<"dreamer">>
  BY <1>3 DEF Rests, Slots, Yet
<1> QED BY <1>1, <1>2, <1>3 DEF Rests

LEMMA RestsType ==
  ASSUME NEW s \in Rests
  PROVE  s \in Seq(Slots) /\ Len(s) <= 3
<1>1. CASE s = Drain
  BY <1>1 DEF Drain, Slots
<1>2. CASE s = <<"maintenance", "dreamer">>
  BY <1>2 DEF Slots
<1>3. CASE s = <<"dreamer">>
  BY <1>3 DEF Slots
<1>4. CASE s = <<>>
  BY <1>4
<1> QED BY <1>1, <1>2, <1>3, <1>4 DEF Rests

LEMMA AllYet == Yet(Drain) = Slots /\ Yet(<<>>) = {}
BY DEF Yet, Drain, Slots

LEMMA InitInv == Init => IInv
<1> SUFFICES ASSUME Init PROVE IInv
  OBVIOUS
<1>1. TypeOK
  <2>1. left \in Seq(Slots) /\ Len(left) <= 3 /\ legs \in 0..MaxLegs
    BY BoundsAssumption DEF Init
  <2>2. \A k \in Slots : slot[k] = None
    BY DEF Init
  <2>3. /\ slot \in [Slots -> Threads \cup {None}] /\ kind \in [Threads -> Slots \cup {None}]
        /\ pc \in [Threads -> {"work", "clear", "gone"}] /\ waitedFor \in [Threads -> BOOLEAN]
    BY DEF Init
  <2>4. /\ ended \in BOOLEAN /\ cancelled \in BOOLEAN
        /\ target \in Threads \cup {None} /\ (hpc = "join" <=> target # None)
    BY DEF Init
  <2> QED BY <2>1, <2>2, <2>3, <2>4 DEF TypeOK, Init
<1>2. InItsSlot
  BY DEF Init, InItsSlot, Alive
<1>3. DrainGoesOn
  BY DEF Init, DrainGoesOn, Rests
<1> QED BY <1>1, <1>2, <1>3 DEF IInv

-----------------------------------------------------------------------------
(* The slots                                                               *)

WorkerType ==
  /\ slot \in [Slots -> Threads \cup {None}]
  /\ kind \in [Threads -> Slots \cup {None}]
  /\ pc \in [Threads -> {"work", "clear", "gone"}]
  /\ waitedFor \in [Threads -> BOOLEAN]
  /\ \A k \in Slots : slot[k] # None => kind[slot[k]] = k

LEMMA NoneIsNoThread == None \notin Threads
BY NoneAssumption, BoundsAssumption DEF Threads

LEMMA ScheduleStep ==
  ASSUME WorkerType, InItsSlot, NEW k \in Slots, Schedule(k)
  PROVE  WorkerType' /\ InItsSlot' /\ UNCHANGED waitedFor
<1>1. PICK t \in Idle : /\ slot' = [slot EXCEPT ![k] = t]
                        /\ kind' = [kind EXCEPT ![t] = k]
                        /\ pc' = [pc EXCEPT ![t] = "work"]
  BY DEF Schedule
<1>2. t \in Threads /\ pc[t] = "gone" /\ t # None
  BY NoneIsNoThread DEF Idle
<1>3. \A j \in Slots : slot[j] # t
  BY <1>2 DEF InItsSlot
<1>4. \A u \in Threads : Alive(u) => kind[u] # k
  BY NoneIsNoThread DEF Schedule, SlotFree, SlotBusy, InItsSlot
<1>5. WorkerType'
  BY <1>1, <1>2, <1>3 DEF WorkerType, Schedule
<1>6. InItsSlot'
  <2>1. \A j \in Slots : slot'[j] # None => pc'[slot'[j]] # "gone"
    BY <1>1, <1>2, <1>3 DEF WorkerType, InItsSlot
  <2>2. ASSUME NEW u \in Threads, Alive(u)'
        PROVE  kind'[u] \in Slots /\ slot'[kind'[u]] = u
    <3>1. CASE u = t
      BY <3>1, <1>1, <1>2 DEF WorkerType
    <3>2. CASE u # t
      <4>1. Alive(u) /\ kind'[u] = kind[u]
        BY <3>2, <2>2, <1>1 DEF WorkerType, Alive
      <4>2. kind[u] \in Slots /\ slot[kind[u]] = u /\ kind[u] # k
        BY <4>1, <1>4 DEF InItsSlot
      <4> QED BY <4>1, <4>2, <1>1 DEF WorkerType
    <3> QED BY <3>1, <3>2
  <2> QED BY <2>1, <2>2 DEF InItsSlot
<1> QED BY <1>5, <1>6 DEF Schedule

LEMMA ReturnStep ==
  ASSUME WorkerType, InItsSlot, NEW t \in Threads, WorkReturns(t)
  PROVE  WorkerType' /\ InItsSlot'
<1>1. pc[t] = "work" /\ pc' = [pc EXCEPT ![t] = "clear"] /\ UNCHANGED <<slot, kind, waitedFor>>
  BY DEF WorkReturns
<1>2. WorkerType'
  BY <1>1 DEF WorkerType
<1>3. InItsSlot'
  <2>1. \A j \in Slots : slot'[j] # None => pc'[slot'[j]] # "gone"
    BY <1>1 DEF WorkerType, InItsSlot
  <2>2. \A u \in Threads : Alive(u)' => Alive(u)
    BY <1>1 DEF WorkerType, Alive
  <2> QED BY <1>1, <2>1, <2>2 DEF InItsSlot
<1> QED BY <1>2, <1>3

LEMMA ClearStep ==
  ASSUME WorkerType, InItsSlot, NEW t \in Threads, Clear(t)
  PROVE  WorkerType' /\ InItsSlot'
<1>1. /\ pc[t] = "clear" /\ pc' = [pc EXCEPT ![t] = "gone"]
      /\ kind' = [kind EXCEPT ![t] = None] /\ UNCHANGED waitedFor
  BY DEF Clear
<1>2. kind[t] \in Slots /\ slot[kind[t]] = t /\ t # None
  BY <1>1, NoneIsNoThread DEF InItsSlot, Alive
<1>3. slot' = [slot EXCEPT ![kind[t]] = None]
  BY <1>2 DEF Clear
<1>4. \A j \in Slots : j # kind[t] => slot[j] # t
  BY <1>2 DEF WorkerType
<1>5. WorkerType'
  BY <1>1, <1>2, <1>3, <1>4 DEF WorkerType
<1>6. InItsSlot'
  <2>1. \A j \in Slots : slot'[j] # None => pc'[slot'[j]] # "gone"
    BY <1>1, <1>2, <1>3, <1>4 DEF WorkerType, InItsSlot
  <2>2. ASSUME NEW u \in Threads, Alive(u)'
        PROVE  kind'[u] \in Slots /\ slot'[kind'[u]] = u
    <3>1. u # t /\ Alive(u) /\ kind'[u] = kind[u]
      BY <2>2, <1>1 DEF WorkerType, Alive
    <3>2. kind[u] \in Slots /\ slot[kind[u]] = u
      BY <3>1 DEF InItsSlot
    <3> QED BY <3>1, <3>2, <1>2, <1>3 DEF WorkerType
  <2> QED BY <2>1, <2>2 DEF InItsSlot
<1> QED BY <1>5, <1>6

LEMMA SameSlots ==
  ASSUME WorkerType, InItsSlot, UNCHANGED <<slot, kind, pc>>, waitedFor' \in [Threads -> BOOLEAN]
  PROVE  WorkerType' /\ InItsSlot'
BY DEF WorkerType, InItsSlot, Alive

LEMMA SlotsStep ==
  ASSUME TypeOK, InItsSlot, [Next]_vars
  PROVE  WorkerType' /\ InItsSlot'
<1>0. WorkerType
  BY DEF WorkerType, TypeOK
<1>1. ASSUME UNCHANGED workerVars
      PROVE  WorkerType' /\ InItsSlot'
  BY <1>0, <1>1, SameSlots DEF workerVars, WorkerType
<1>2. CASE SessionStart \/ TurnComplete \/ SessionEnd \/ Compress \/ NoMoreWorkers \/ LookAtSlot
  BY <1>1, <1>2 DEF SessionStart, TurnComplete, SessionEnd, Compress, NoMoreWorkers, LookAtSlot
<1>3. CASE CompressStep \/ BudgetShrinks \/ Abandon \/ UNCHANGED vars
  BY <1>1, <1>3 DEF CompressStep, WaitEnds, Look, Decide, Leg, LastRender, CFrame, BudgetShrinks,
                    Abandon, vars
<1>4. CASE Fire \/ Maintain \/ Dream
  <2>1. (\E k \in Slots : Schedule(k)) \/ UNCHANGED workerVars
    BY <1>4 DEF Fire, Maintain, Dream, Slots
  <2> QED BY <1>0, <1>1, <2>1, ScheduleStep
<1>5. CASE Joined \/ Finish
  BY <1>0, <1>5, SameSlots DEF Joined, Finish, WorkerType
<1>6. CASE \E t \in Threads : Worker(t)
  BY <1>0, <1>6, ReturnStep, ClearStep DEF Worker
<1> QED BY <1>2, <1>3, <1>4, <1>5, <1>6 DEF Next, HostStep

-----------------------------------------------------------------------------
(* The host thread and the compress() thread                               *)

PassType ==
  /\ ended \in BOOLEAN /\ cancelled \in BOOLEAN
  /\ legs \in 0..MaxLegs
  /\ budget \in {"none", "ample", "scarce", "out"}
  /\ cpc \in {"off", "wait", "look", "decide", "checkpoint", "last"}

LEMMA PassTypeStep ==
  ASSUME TypeOK, [Next]_vars
  PROVE  PassType'
<1>0. PassType /\ 0 \in 0..MaxLegs
  BY BoundsAssumption DEF TypeOK, PassType
<1>1. ASSUME UNCHANGED passVars, ended' \in BOOLEAN
      PROVE  PassType'
  BY <1>0, <1>1 DEF passVars, PassType
<1>2. CASE HostStep \/ TurnComplete \/ SessionEnd \/ SessionStart
  BY <1>0, <1>1, <1>2 DEF HostStep, Fire, Maintain, Dream, NoMoreWorkers, LookAtSlot, Joined,
                    Finish, TurnComplete, SessionEnd, SessionStart, HostFrame, PassType
<1>3. CASE (\E t \in Threads : Worker(t)) \/ UNCHANGED vars
  BY <1>0, <1>1, <1>3 DEF Worker, WorkReturns, Clear, hostVars, PassType, vars
<1>4. CASE Compress
  BY <1>0, <1>4 DEF Compress, PassType
<1>5. CASE Leg
  <2>1. legs' \in 0..MaxLegs
    BY <1>0, <1>5, BoundsAssumption DEF Leg, PassType
  <2> QED BY <1>0, <1>5, <2>1 DEF Leg, CGoes, CFrame, PassType
<1>6. CASE WaitEnds \/ Look \/ Decide \/ LastRender
  BY <1>0, <1>6 DEF WaitEnds, Look, Decide, LastRender, Return, CGoes, CFrame, PassType
<1>7. CASE BudgetShrinks \/ Abandon
  BY <1>0, <1>7 DEF BudgetShrinks, Abandon, hostVars, PassType
<1> QED BY <1>2, <1>3, <1>4, <1>5, <1>6, <1>7 DEF Next, CompressStep

HostType ==
  /\ hpc \in {"idle", "fire", "maintain", "dream", "drain", "join", "compress"}
  /\ target \in Threads \cup {None} /\ (hpc = "join" <=> target # None)

LEMMA HostTypeStep ==
  ASSUME TypeOK, InItsSlot, left \in Rests, [Next]_vars
  PROVE  HostType'
<1>0. HostType
  BY DEF TypeOK, HostType
<1>1. ASSUME UNCHANGED <<hpc, target>> PROVE HostType'
  BY <1>0, <1>1 DEF HostType
<1>2. CASE Fire \/ Maintain \/ Dream \/ NoMoreWorkers \/ Finish
  BY <1>0, <1>2 DEF Fire, Maintain, Dream, NoMoreWorkers, Finish, HostType
<1>3. CASE TurnComplete \/ SessionEnd \/ SessionStart \/ Compress \/ Abandon
  BY <1>0, <1>3 DEF TurnComplete, SessionEnd, SessionStart, Compress, Abandon, HostType
<1>4. CASE LookAtSlot
  <2>1. CASE SlotBusy(Head(left))
    <3>1. Head(left) \in Slots
      BY <1>4, RestsShrink DEF LookAtSlot
    <3>2. slot[Head(left)] \in Threads /\ slot[Head(left)] # None
      BY <2>1, <3>1 DEF SlotBusy, TypeOK
    <3> QED BY <1>4, <2>1, <3>2 DEF LookAtSlot, HostType
  <2>2. CASE ~SlotBusy(Head(left))
    BY <1>1, <1>4, <2>2 DEF LookAtSlot
  <2> QED BY <2>1, <2>2
<1>5. CASE Joined
  BY <1>0, <1>5 DEF Joined, HostType
<1>6. CASE Look \/ Decide \/ LastRender
  BY <1>0, <1>6 DEF Look, Decide, LastRender, Return, CFrame, HostType
<1>7. CASE WaitEnds \/ Leg \/ BudgetShrinks \/ (\E t \in Threads : Worker(t)) \/ UNCHANGED vars
  BY <1>1, <1>7 DEF WaitEnds, Leg, CFrame, BudgetShrinks, Worker, WorkReturns, Clear, hostVars, vars
<1> QED BY <1>2, <1>3, <1>4, <1>5, <1>6, <1>7 DEF Next, HostStep, CompressStep

\* A worker at work was at work before, but for the one that is scheduled.
LEMMA DrainStep ==
  ASSUME TypeOK, InItsSlot, DrainGoesOn, [Next]_vars
  PROVE  DrainGoesOn'
<1>1. ASSUME UNCHANGED <<hpc, left, target, workerVars>>
      PROVE  DrainGoesOn'
  BY <1>1 DEF DrainGoesOn, Yet, workerVars
<1>2. ASSUME hpc' \notin {"drain", "join"}, left' = left
      PROVE  DrainGoesOn'
  BY <1>2 DEF DrainGoesOn
<1>3. CASE Fire \/ Maintain \/ Dream \/ NoMoreWorkers \/ Finish
  BY <1>2, <1>3 DEF Fire, Maintain, Dream, NoMoreWorkers, Finish
<1>4. CASE SessionStart \/ TurnComplete \/ Compress \/ Abandon
  BY <1>2, <1>4 DEF SessionStart, TurnComplete, Compress, Abandon
<1>5. CASE SessionEnd
  <2>1. left' = Drain /\ UNCHANGED workerVars
    BY <1>5 DEF SessionEnd
  <2>2. \A t \in Threads : pc[t] = "work" => kind[t] \in Yet(Drain)
    BY AllYet DEF InItsSlot, Alive
  <2> QED BY <2>1, <2>2 DEF DrainGoesOn, Rests, workerVars, Yet
<1>6. CASE LookAtSlot
  <2> DEFINE k == Head(left)
  <2>1. /\ hpc = "drain" /\ left # <<>> /\ left' = Tail(left) /\ UNCHANGED workerVars
        /\ IF SlotBusy(k) THEN target' = slot[k] ELSE UNCHANGED target
    BY <1>6 DEF LookAtSlot
  <2>2. left' \in Rests /\ k \in Slots /\ Yet(left) = {k} \cup Yet(left')
    BY <2>1, RestsShrink DEF DrainGoesOn
  <2>3. \A t \in Threads : pc[t] = "work" /\ kind[t] = k => slot[k] = t /\ SlotBusy(k)
    BY NoneIsNoThread DEF InItsSlot, Alive, SlotBusy
  <2>4. target = None
    BY <2>1 DEF TypeOK
  <2>5. \A t \in Threads : pc[t] = "work" =>
          waitedFor[t] \/ kind[t] \in Yet(left') \/ target' = t
    BY <2>1, <2>2, <2>3, <2>4, NoneIsNoThread DEF DrainGoesOn
  <2> HIDE DEF k
  <2> QED BY <2>1, <2>2, <2>5 DEF DrainGoesOn, workerVars, Yet
<1>7. CASE Joined
  <2>1. /\ UNCHANGED <<left, kind, pc>> /\ hpc = "join"
        /\ waitedFor' = [waitedFor EXCEPT ![target] = TRUE]
    BY <1>7 DEF Joined
  <2>2. \A t \in Threads : waitedFor'[t] = (waitedFor[t] \/ t = target)
    BY <2>1 DEF TypeOK
  <2> QED BY <2>1, <2>2 DEF DrainGoesOn, Yet
<1>8. CASE Look \/ Decide \/ LastRender
  <2>1. UNCHANGED <<left, target, workerVars>> /\ (hpc' = hpc \/ hpc' = "idle")
    BY <1>8 DEF Look, Decide, LastRender, Return, CFrame
  <2> QED BY <1>1, <1>2, <2>1
<1>9. CASE WaitEnds \/ Leg \/ BudgetShrinks \/ UNCHANGED vars
  BY <1>1, <1>9 DEF WaitEnds, Leg, CFrame, BudgetShrinks, hostVars, vars
<1>10. CASE \E t \in Threads : Worker(t)
  <2>1. PICK t \in Threads : Worker(t)
    BY <1>10
  <2>2. UNCHANGED <<hpc, left, target, waitedFor>>
    BY <2>1 DEF Worker, WorkReturns, Clear, hostVars
  <2>3. \A u \in Threads : pc'[u] = "work" => pc[u] = "work" /\ kind'[u] = kind[u]
    BY <2>1 DEF Worker, WorkReturns, Clear, TypeOK
  <2> QED BY <2>2, <2>3 DEF DrainGoesOn, Yet
<1> QED BY <1>3, <1>4, <1>5, <1>6, <1>7, <1>8, <1>9, <1>10 DEF Next, HostStep, CompressStep

-----------------------------------------------------------------------------
LEMMA NextInv == IInv /\ [Next]_vars => IInv'
<1> SUFFICES ASSUME IInv, [Next]_vars PROVE IInv'
  OBVIOUS
<1>0. TypeOK /\ InItsSlot /\ DrainGoesOn /\ left \in Rests
  BY DEF IInv, DrainGoesOn
<1>1. WorkerType' /\ InItsSlot'
  BY <1>0, SlotsStep
<1>2. PassType' /\ HostType'
  BY <1>0, PassTypeStep, HostTypeStep
<1>3. DrainGoesOn'
  BY <1>0, DrainStep
<1>4. (left \in Seq(Slots) /\ Len(left) <= 3)'
  BY <1>3, RestsType DEF DrainGoesOn
<1>5. TypeOK'
  BY <1>1, <1>2, <1>4 DEF TypeOK, WorkerType, PassType, HostType
<1> QED BY <1>1, <1>3, <1>5 DEF IInv

\* The inductive invariant holds in every reachable state.
THEOREM Invariance == Spec => []IInv
<1> QED BY InitInv, NextInv, PTL DEF Spec

\* Every variable of the engine's threads keeps its type; a slot that is filled
\* names a worker of its own kind.
THEOREM WorkersTypeCorrect == Spec => []TypeOK
<1>1. IInv => TypeOK
  BY DEF IInv
<1> QED BY <1>1, Invariance, PTL

\* on_session_end: when the three slots were looked at, no worker is at work
\* that was not given its five seconds, however many were scheduled and ended
\* before, because a slot is never filled over a worker that is alive.
THEOREM DrainIsComplete == Spec => []DrainMissesNobody
<1>1. IInv => DrainMissesNobody
  BY AllYet, NoneIsNoThread DEF IInv, DrainGoesOn, DrainMissesNobody, TypeOK
<1> QED BY <1>1, Invariance, PTL
===============================================================================
