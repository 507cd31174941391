-------------------------- MODULE EngineBindingProofs --------------------------
(***************************************************************************)
(* Proofs about EngineBinding, for any sessions and any number of sidecars. *)
(***************************************************************************)
EXTENDS EngineBinding, TLAPS

(* The inductive invariant.  Unless the two threads crossed in this        *)
(* generation, what a bind was answered is still true where it is written  *)
(* down; a hook whose _bind has returned True and that meets a sidecar     *)
(* without its session has met a replacement, which is new to refusals and *)
(* later than the sidecar it was bound in.                                 *)

Unknown == live /\ session \notin known

Crossed == crossed = generation

\* The next sidecar has a generation no binding is stamped with.
StampIsPast ==
  /\ stamp <= generation /\ crossed <= generation
  /\ answered <= generation /\ lateGen <= generation

\* The answer to a bind holds while its sidecar runs.
HostAnswerTells ==
  pc \in {"store", "stamp"} /\ live /\ answered = generation => session \in known

LateAnswerTells ==
  latePc = "store" /\ live /\ lateGen = generation => lateNamed \in known

\* The identity is no older than the answer that a thread is about to stamp.
Tells == identity = None \/ identity \in known \/ Crossed
HostStampTells == pc = "stamp" /\ live /\ answered = generation => Tells
LateStampTells == latePc = "stamp" /\ live /\ lateGen = generation => Tells

FreshRefusal == pc \in {"model", "use"} /\ Unknown => mine \/ refused = 0 \/ Crossed

Tries == IF retried THEN 1 ELSE 0

ToolProgress ==
  op = "tool" =>
    /\ pc \notin {"close", "forget"}
    /\ generation >= began + Tries \/ crossed >= began
    /\ pc \in {"model", "use"} /\ Unknown =>
         generation >= began + Tries + 1 \/ crossed >= began

Began == began <= generation

Bindings ==
  /\ CacheTells /\ StampIsPast
  /\ HostAnswerTells /\ LateAnswerTells /\ HostStampTells /\ LateStampTells
Refusals == OneHookRefused /\ FreshRefusal
Progress == Began /\ ToolProgress /\ ToolLands

IInv == TypeOK /\ Bindings /\ Refusals /\ Progress

-----------------------------------------------------------------------------
LEMMA InitInv == Init => IInv
<1> SUFFICES ASSUME Init PROVE IInv
  OBVIOUS
<1>1. TypeOK
  <2>1. generation \in 0..MaxSpawns /\ began \in 0..MaxSpawns /\ refused \in 0..2
    BY BoundSidecarAssumption DEF Init, ClientInit
  <2>2. live \in BOOLEAN /\ mine \in BOOLEAN /\ retried \in BOOLEAN /\ known \subseteq Sessions
    BY DEF Init, ClientInit
  <2>3. /\ session \in Sessions /\ identity \in Sessions \cup {None}
        /\ stamp \in {NoStamp} \cup 0..MaxSpawns /\ pc \in Pc /\ op \in Ops
        /\ result \in {"none", "ok", "failed", "refused"}
    BY DEF Init, Pc, Ops
  <2>4. /\ answered = NoStamp /\ crossed = NoStamp /\ lateGen = NoStamp
        /\ latePc \in LatePc /\ lateOwn = None /\ lateNamed = None
    BY DEF Init, LatePc
  <2> QED BY <2>1, <2>2, <2>3, <2>4 DEF TypeOK, ClientType
<1>2. Bindings
  BY DEF Init, ClientInit, Bindings, CacheTells, StampIsPast, NoStamp, HostAnswerTells,
         LateAnswerTells, HostStampTells, LateStampTells
<1>3. Refusals
  BY DEF Init, ClientInit, Refusals, OneHookRefused, FreshRefusal
<1>4. Progress
  BY DEF Init, ClientInit, Progress, Began, ToolProgress, ToolLands
<1> QED BY <1>1, <1>2, <1>3, <1>4 DEF IInv

\* A call leaves the client well-formed, whatever becomes of it.
LEMMA CallType ==
  ASSUME ClientType, NEW s \in SUBSET Sessions, Answered(s) \/ Fails(s) \/ Gone
  PROVE  ClientType' /\ generation' >= generation
<1> USE BoundSidecarAssumption DEF ClientType
<1>1. ASSUME NEW k \in SUBSET Sessions, Answered(k)
      PROVE  ClientType' /\ generation' >= generation
  <2>1. generation' \in 0..MaxSpawns /\ generation' >= generation
    BY <1>1 DEF Answered
  <2>2. live' \in BOOLEAN /\ known' \subseteq Sessions
    BY <1>1 DEF Answered
  <2> QED BY <2>1, <2>2
<1>2. CASE Fails(s)
  <2>1. CASE UNCHANGED client
    BY <2>1 DEF client
  <2>2. CASE LostUnderCall
    <3>1. generation' \in 0..MaxSpawns /\ generation' >= generation
      BY <2>2 DEF LostUnderCall
    <3>2. live' \in BOOLEAN /\ known' \subseteq Sessions
      BY <2>2 DEF LostUnderCall
    <3> QED BY <3>1, <3>2
  <2> QED BY <1>1, <1>2, <2>1, <2>2 DEF Fails
<1>3. CASE Gone
  <2>1. generation' \in 0..MaxSpawns /\ generation' >= generation
    BY <1>3 DEF Gone
  <2>2. live' \in BOOLEAN /\ known' \subseteq Sessions
    BY <1>3 DEF Gone
  <2> QED BY <2>1, <2>2
<1> QED BY <1>1, <1>2, <1>3

LEMMA CountType ==
  ASSUME refused \in 0..2, mine \in BOOLEAN, SameCount \/ CountRefusal
  PROVE  refused' \in 0..2 /\ mine' \in BOOLEAN
<1>1. refused' \in 0..2
  BY DEF SameCount, CountRefusal
<1>2. mine' \in BOOLEAN
  BY DEF SameCount, CountRefusal
<1> QED BY <1>1, <1>2

\* The types, the client's apart, in the groups that steps change.
HostType ==
  /\ pc \in Pc /\ op \in Ops /\ retried \in BOOLEAN /\ began \in 0..MaxSpawns
  /\ answered \in {NoStamp} \cup 0..MaxSpawns
  /\ result \in {"none", "ok", "failed", "refused"}
BoundType ==
  /\ session \in Sessions /\ identity \in Sessions \cup {None}
  /\ stamp \in {NoStamp} \cup 0..MaxSpawns
LateType ==
  /\ latePc \in LatePc
  /\ lateOwn \in Sessions \cup {None} /\ lateNamed \in Sessions \cup {None}
  /\ lateGen \in {NoStamp} \cup 0..MaxSpawns
CountsType ==
  refused \in 0..2 /\ mine \in BOOLEAN /\ crossed \in {NoStamp} \cup 0..MaxSpawns

Parts == ClientType /\ HostType /\ BoundType /\ LateType /\ CountsType

LEMMA TypeParts == TypeOK <=> Parts
  BY DEF TypeOK, Parts, HostType, BoundType, LateType, CountsType

LEMMA TypePartsNext == Parts' => TypeOK'
  BY DEF TypeOK, Parts, HostType, BoundType, LateType, CountsType

LEMMA BeginType ==
  ASSUME TypeOK,
         \/ \E o \in Binding \ {"end"} : Hook(o)
         \/ \E s \in Sessions : SessionStart(s) \/ SessionEnd(s)
         \/ \E o \in {"reset", "close"} : Teardown(o)
  PROVE  TypeOK'
<1> USE TypeParts DEF Parts, Quiet, Alone
<1>1. ClientType' /\ LateType' /\ CountsType'
  BY DEF ClientType, LateType, CountsType, client, lateVars, Hook, SessionStart, SessionEnd,
         Teardown, Begin
<1>2. HostType'
  BY DEF HostType, ClientType, Hook, SessionStart, SessionEnd, Teardown, Begin, Binding, Ops,
         Pc, InBind
<1>3. BoundType'
  BY DEF BoundType, bound, Hook, SessionStart, SessionEnd, Teardown, ForgetBinding
<1> QED BY <1>1, <1>2, <1>3, TypePartsNext

LEMMA BindType ==
  ASSUME TypeOK,
         Test \/ Compare \/ Bind \/ BindFails \/ Store \/ Stamp \/ ModelUpdate
  PROVE  TypeOK'
<1> USE DEF TypeOK, Pc, InBind, bound, hook, refusals, Bound, Unbound, WriteDown, Quiet, Alone,
            lateVars
<1>0. {session} \in SUBSET Sessions /\ {} \in SUBSET Sessions
  OBVIOUS
<1>1. CASE Test \/ Compare
  BY <1>1 DEF Test, Compare, client, ClientType
<1>2. CASE Bind
  <2>1. ClientType' /\ refused' \in 0..2 /\ mine' \in BOOLEAN
    BY <1>0, <1>2, CallType, CountType DEF Bind
  <2> QED BY <1>2, <2>1 DEF Bind, ClientType
<1>3. CASE BindFails
  BY <1>0, <1>3, CallType, CountType DEF BindFails
<1>4. CASE Store
  BY <1>4 DEF Store, client, ClientType
<1>5. CASE Stamp
  BY <1>5 DEF Stamp, client, ClientType
<1>6. CASE ModelUpdate
  BY <1>0, <1>6, CallType, CountType DEF ModelUpdate
<1> QED BY <1>1, <1>2, <1>3, <1>4, <1>5, <1>6

LEMMA AfterType ==
  ASSUME NEW outcome \in {"ok", "failed", "refused"}, After(outcome)
  PROVE  result' \in {"none", "ok", "failed", "refused"} /\ pc' \in {"test", "use", "idle", "close"}
BY DEF After

LEMMA UseType ==
  ASSUME TypeOK, UseServed \/ UseFails \/ UseRefused \/ ToolRetries
  PROVE  TypeOK'
<1> USE DEF TypeOK, Pc, InBind, bound, hook, Served, Refused, Quiet, Alone, lateVars
<1>0. {} \in SUBSET Sessions
  OBVIOUS
<1>1. CASE UseServed
  BY <1>0, <1>1, CallType, CountType, AfterType DEF UseServed
<1>2. CASE UseFails
  BY <1>0, <1>2, CallType, CountType, AfterType DEF UseFails
<1>3. CASE UseRefused
  BY <1>0, <1>3, CallType, CountType, AfterType DEF UseRefused
<1>4. CASE ToolRetries
  BY <1>0, <1>4, CallType, CountType DEF ToolRetries
<1> QED BY <1>1, <1>2, <1>3, <1>4

LEMMA CloseType ==
  ASSUME TypeOK, Close \/ Forget \/ SidecarGone
  PROVE  TypeOK'
BY BootstrapAssumption
   DEF TypeOK, ClientType, client, Pc, bound, hook, host, refusals, Close, Forget, SidecarGone,
       Gone, ForgetBinding, Quiet, Alone, lateVars

LEMMA LateStepType ==
  ASSUME TypeOK, Abandon \/ Late
  PROVE  TypeOK'
<1> USE TypeParts DEF Parts, LatePc, InBind
<1>0. {session} \in SUBSET Sessions /\ {} \in SUBSET Sessions
  BY DEF BoundType
<1>1. CASE Abandon
  <2>1. ClientType' /\ BoundType' /\ CountsType'
    BY <1>1 DEF Abandon, ClientType, BoundType, CountsType, client, bound, refusals
  <2>2. HostType' /\ LateType'
    BY <1>1 DEF Abandon, HostType, LateType, BoundType, hook, Pc
  <2> QED BY <2>1, <2>2, TypePartsNext
<1>2. CASE LateTest
  <2>1. ClientType' /\ BoundType' /\ CountsType'
    BY <1>2 DEF LateTest, ClientType, BoundType, CountsType, client, bound, refusals
  <2>2. HostType' /\ LateType'
    BY <1>2 DEF LateTest, HostType, LateType, BoundType, host, hook
  <2> QED BY <2>1, <2>2, TypePartsNext
<1>3. CASE LateBind
  <2>1. ClientType' /\ refused' \in 0..2 /\ mine' \in BOOLEAN
    BY <1>0, <1>3, CallType, CountType DEF LateBind, CountsType
  <2>2. HostType' /\ BoundType' /\ CountsType'
    BY <1>3, <2>1 DEF LateBind, HostType, BoundType, CountsType, bound, host, hook
  <2>3. LateType'
    BY <1>3, <2>1 DEF LateBind, LateType, BoundType, ClientType
  <2> QED BY <2>1, <2>2, <2>3, TypePartsNext
<1>4. CASE LateStore \/ LateStamp
  <2>1. ClientType' /\ HostType'
    BY <1>4 DEF LateStore, LateStamp, ClientType, HostType, client, host, hook
  <2>2. BoundType' /\ LateType'
    BY <1>4 DEF LateStore, LateStamp, LocalsGone, BoundType, LateType, ClientType
  <2>3. CountsType'
    BY <1>4 DEF LateStore, LateStamp, WriteDown, CountsType, ClientType, refusals
  <2> QED BY <2>1, <2>2, <2>3, TypePartsNext
<1>5. CASE LateCall
  <2>1. ClientType' /\ refused' \in 0..2 /\ mine' \in BOOLEAN
    BY <1>0, <1>5, CallType, CountType DEF LateCall, CountsType
  <2>2. HostType' /\ BoundType' /\ CountsType'
    BY <1>5, <2>1 DEF LateCall, HostType, BoundType, CountsType, bound, host, hook
  <2>3. LateType'
    BY <1>5 DEF LateCall, LocalsGone, LateType
  <2> QED BY <2>1, <2>2, <2>3, TypePartsNext
<1> QED BY <1>1, <1>2, <1>3, <1>4, <1>5 DEF Late

LEMMA TypeStep == TypeOK /\ [Next]_vars => TypeOK'
<1> SUFFICES ASSUME TypeOK, [Next]_vars PROVE TypeOK'
  OBVIOUS
<1>1. CASE UNCHANGED vars
  BY <1>1 DEF TypeOK, ClientType, vars, client, bound, host, hook, refusals, lateVars
<1> QED BY <1>1, BeginType, BindType, UseType, CloseType, LateStepType DEF Next

-----------------------------------------------------------------------------
(* The cached binding. *)

\* A call adds to what the running sidecar knows, or moves the generation on.
LEMMA CallKeepsKnown ==
  ASSUME TypeOK, NEW s \in SUBSET Sessions, Answered(s) \/ Fails(s)
  PROVE  generation' = generation /\ live' => live /\ known \subseteq known'
<1> USE DEF TypeOK, ClientType
<1>1. ASSUME NEW k, Answered(k)
      PROVE  generation' = generation /\ live' => live /\ known \subseteq known'
  BY <1>1 DEF Answered
<1>2. CASE Fails(s)
  BY <1>1, <1>2 DEF Fails, LostUnderCall, client
<1> QED BY <1>1, <1>2

\* A call of either thread: what was true of the running sidecar stays true, and
\* nothing was written down for the next one.
LEMMA CallKeepsBindings ==
  ASSUME TypeOK, Bindings, NEW s \in SUBSET Sessions, Answered(s) \/ Fails(s),
         UNCHANGED <<session, identity, crossed>>, stamp' \in {stamp, NoStamp},
         \/ UNCHANGED answered /\ (pc' \in {"store", "stamp"} => pc' = pc)
         \/ pc' = "store" /\ answered' = generation' /\ session \in known',
         \/ lateGen' = lateGen /\ lateNamed' = lateNamed
            /\ (latePc' \in {"store", "stamp"} => latePc' = latePc)
         \/ lateGen' = NoStamp /\ latePc' \notin {"store", "stamp"}
         \/ latePc' = "store" /\ lateGen' = generation' /\ lateNamed' \in known'
  PROVE  Bindings'
<1>1. generation' >= generation /\ generation' \in Nat /\ generation \in Nat
  BY CallType DEF TypeOK, ClientType
<1>2. /\ stamp \in Int /\ answered \in Int /\ lateGen \in Int /\ crossed \in Int
      /\ stamp <= generation /\ crossed <= generation
      /\ answered <= generation /\ lateGen <= generation
  BY DEF TypeOK, NoStamp, Bindings, StampIsPast
<1>3. StampIsPast'
  BY <1>1, <1>2 DEF StampIsPast, NoStamp
<1>4. ASSUME live', generation' = generation
      PROVE  live /\ known \subseteq known'
  BY <1>4, CallKeepsKnown
<1>5. CacheTells'
  <2> SUFFICES ASSUME live', identity # None, stamp' = generation', crossed # generation'
               PROVE  identity \in known'
    BY DEF CacheTells
  <2>1. stamp' = stamp /\ generation' = generation
    BY <1>1, <1>2 DEF NoStamp
  <2> QED BY <1>4, <2>1 DEF Bindings, CacheTells
<1>6. HostAnswerTells'
  <2> SUFFICES ASSUME pc' \in {"store", "stamp"}, live', answered' = generation'
               PROVE  session \in known'
    BY DEF HostAnswerTells
  <2>1. CASE answered' = answered /\ pc' = pc
    BY <1>1, <1>2, <1>4, <2>1 DEF Bindings, HostAnswerTells
  <2> QED BY <2>1
<1>7. LateAnswerTells'
  <2> SUFFICES ASSUME latePc' = "store", live', lateGen' = generation'
               PROVE  lateNamed' \in known'
    BY DEF LateAnswerTells
  <2>1. CASE lateGen' = lateGen /\ latePc' = latePc /\ lateNamed' = lateNamed
    BY <1>1, <1>2, <1>4, <2>1 DEF Bindings, LateAnswerTells
  <2> QED BY <2>1
<1>8. ASSUME Tells, live', generation' = generation
      PROVE  Tells'
  BY <1>4, <1>8 DEF Tells, Crossed
<1>9. HostStampTells'
  <2> SUFFICES ASSUME pc' = "stamp", live', answered' = generation'
               PROVE  Tells'
    BY DEF HostStampTells
  <2>1. pc = "stamp" /\ answered = generation'
    OBVIOUS
  <2>2. generation' = generation
    BY <1>1, <1>2, <2>1
  <2> QED BY <1>4, <1>8, <2>1, <2>2 DEF Bindings, HostStampTells
<1>10. LateStampTells'
  <2> SUFFICES ASSUME latePc' = "stamp", live', lateGen' = generation'
               PROVE  Tells'
    BY DEF LateStampTells
  <2>1. latePc = "stamp" /\ lateGen = generation'
    OBVIOUS
  <2>2. generation' = generation
    BY <1>1, <1>2, <2>1
  <2> QED BY <1>4, <1>8, <2>1, <2>2 DEF Bindings, LateStampTells
<1> QED BY <1>3, <1>5, <1>6, <1>7, <1>9, <1>10 DEF Bindings

\* A thread writes the identity down: it is known to the sidecar, or this is a
\* crossing.
LEMMA IdentityKeepsBindings ==
  ASSUME TypeOK, Bindings, UNCHANGED <<client, session, stamp, answered, lateNamed, lateGen>>,
         crossed' \in {crossed, generation},
         live => identity' \in known \/ crossed' = generation,
         pc' \in {"store", "stamp"} => pc \in {"store", "stamp"},
         latePc' = "store" => latePc = "store"
  PROVE  Bindings'
<1>1. generation \in Nat /\ crossed \in Int
  BY DEF TypeOK, ClientType, NoStamp
<1>2. StampIsPast'
  BY <1>1 DEF Bindings, StampIsPast, client
<1>3. live => Tells' /\ CacheTells'
  BY DEF Tells, Crossed, CacheTells, client
<1>4. ~live' => CacheTells' /\ HostStampTells' /\ LateStampTells'
  BY DEF CacheTells, HostStampTells, LateStampTells
<1>5. HostAnswerTells' /\ LateAnswerTells'
  BY DEF Bindings, HostAnswerTells, LateAnswerTells, client
<1> QED BY <1>2, <1>3, <1>4, <1>5 DEF Bindings, HostStampTells, LateStampTells, client

\* A thread stamps the identity that is there by now.
LEMMA StampKeepsBindings ==
  ASSUME TypeOK, Bindings, UNCHANGED <<client, session, identity>>, stamp' = generation,
         crossed' \in {crossed, generation},
         live => Tells \/ crossed' = generation,
         answered' \in {answered, NoStamp}, lateGen' \in {lateGen, NoStamp},
         pc' \in {"store", "stamp"} => pc' = pc /\ answered' = answered,
         latePc' \in {"store", "stamp"} =>
           latePc' = latePc /\ UNCHANGED <<lateNamed, lateGen>>
  PROVE  Bindings'
<1>1. generation \in Nat /\ crossed \in Int
  BY DEF TypeOK, ClientType, NoStamp
<1>2. StampIsPast'
  BY <1>1 DEF Bindings, StampIsPast, client, NoStamp
<1>3. CacheTells'
  BY DEF Tells, Crossed, CacheTells, client
<1>4. HostAnswerTells' /\ LateAnswerTells'
  BY DEF Bindings, HostAnswerTells, LateAnswerTells, client
<1>5. Tells => Tells'
  BY DEF Tells, Crossed, client
<1>6. HostStampTells' /\ LateStampTells'
  BY <1>5 DEF Bindings, HostStampTells, LateStampTells, client
<1> QED BY <1>2, <1>3, <1>4, <1>6 DEF Bindings

LEMMA BindingsStep == TypeOK /\ Bindings /\ [Next]_vars => Bindings'
<1> SUFFICES ASSUME TypeOK, Bindings, [Next]_vars PROVE Bindings'
  OBVIOUS
<1>0. {session} \in SUBSET Sessions /\ {} \in SUBSET Sessions /\ NoStamp <= generation
  BY DEF TypeOK, ClientType, NoStamp
<1>1. CASE \/ \E o \in Binding \ {"end"} : Hook(o)
           \/ \E s \in Sessions : SessionStart(s) \/ SessionEnd(s)
           \/ \E o \in {"reset", "close"} : Teardown(o)
  <2>1. /\ UNCHANGED <<client, answered, crossed, lateVars>> /\ pc' \in {"test", "close"}
        /\ (identity' = None /\ stamp' = NoStamp) \/ UNCHANGED <<identity, stamp>>
    BY <1>1 DEF Hook, SessionStart, SessionEnd, Teardown, Begin, ForgetBinding, bound, Quiet,
                Alone
  <2> QED BY <1>0, <2>1
          DEF Bindings, CacheTells, StampIsPast, HostAnswerTells, LateAnswerTells,
              HostStampTells, LateStampTells, Tells, Crossed, client, lateVars
<1>2. CASE Test \/ Compare
  <2>1. /\ UNCHANGED <<client, bound, answered, lateVars>> /\ pc' \notin {"store", "stamp"}
        /\ crossed' \in {crossed, generation}
    BY <1>2 DEF Test, Compare, Bound, Quiet, Alone
  <2>2. generation \in Nat
    BY DEF TypeOK, ClientType
  <2>3. CacheTells' /\ StampIsPast'
    BY <2>1, <2>2 DEF Bindings, CacheTells, StampIsPast, client, bound, lateVars
  <2>4. HostAnswerTells' /\ LateAnswerTells' /\ HostStampTells' /\ LateStampTells'
    BY <2>1 DEF Bindings, HostAnswerTells, LateAnswerTells, HostStampTells, LateStampTells,
                Tells, Crossed, client, bound, lateVars
  <2> QED BY <2>3, <2>4 DEF Bindings
<1>3. CASE Bind
  <2>1. pc' = "store" /\ answered' = generation' /\ session \in known'
    BY <1>3 DEF Bind, Answered
  <2>2. UNCHANGED <<session, identity, stamp, crossed, lateGen, lateNamed, latePc>>
    BY <1>3 DEF Bind, bound, Quiet, Alone, lateVars
  <2> QED BY <1>0, <1>3, <2>1, <2>2, CallKeepsBindings DEF Bind
<1>4. CASE BindFails \/ ModelUpdate \/ UseServed \/ UseFails \/ UseRefused \/ ToolRetries
  <2>1. /\ pc' \notin {"store", "stamp"} /\ stamp' \in {stamp, NoStamp}
        /\ UNCHANGED <<session, identity, crossed, answered, lateGen, lateNamed, latePc>>
    BY <1>4 DEF BindFails, Unbound, ModelUpdate, Bound, UseServed, UseFails, UseRefused,
                ToolRetries, After, bound, Quiet, Alone, lateVars
  <2>2. \E s \in SUBSET Sessions : Answered(s) \/ Fails(s)
    BY <1>0, <1>4 DEF BindFails, ModelUpdate, UseServed, UseFails, UseRefused, ToolRetries,
                      Served, Refused
  <2> QED BY <2>1, <2>2, CallKeepsBindings
<1>5. CASE Store
  <2>1. live => identity' \in known \/ crossed' = generation
    BY <1>5 DEF Store, WriteDown, Bindings, HostAnswerTells
  <2> QED BY <1>5, <2>1, IdentityKeepsBindings DEF Store, WriteDown, Alone, lateVars
<1>6. CASE Stamp
  <2>1. live => Tells \/ crossed' = generation
    BY <1>6 DEF Stamp, WriteDown, Bindings, HostStampTells
  <2>2. pc' \notin {"store", "stamp"} /\ crossed' \in {crossed, generation}
    BY <1>6 DEF Stamp, Bound, WriteDown
  <2> QED BY <1>6, <2>1, <2>2, StampKeepsBindings DEF Stamp, Alone, lateVars
<1>7. CASE Close \/ Forget \/ SidecarGone
  <2>1. /\ UNCHANGED <<generation, answered, crossed, lateVars>>
        /\ (identity' = None /\ stamp' = NoStamp) \/ UNCHANGED <<identity, stamp>>
        /\ live' => UNCHANGED client
        /\ pc' \in {"store", "stamp"} => UNCHANGED <<pc, session>>
    BY <1>7 DEF Close, Forget, SidecarGone, Gone, ForgetBinding, client, bound, host, hook,
                Quiet, Alone
  <2> QED BY <1>0, <2>1
          DEF Bindings, CacheTells, StampIsPast, HostAnswerTells, LateAnswerTells,
              HostStampTells, LateStampTells, Tells, Crossed, client, lateVars
<1>8. CASE Abandon
  <2>1. /\ UNCHANGED <<client, bound, crossed>> /\ pc' = "idle" /\ latePc' = pc
        /\ lateGen' = answered /\ answered' = NoStamp
        /\ pc = "store" => lateNamed' = session
    BY <1>8 DEF Abandon
  <2> QED BY <1>0, <2>1
          DEF Bindings, CacheTells, StampIsPast, HostAnswerTells, LateAnswerTells,
              HostStampTells, LateStampTells, Tells, Crossed, client, bound
<1>9. CASE LateTest
  <2>1. /\ UNCHANGED <<client, bound, host, crossed, lateGen, lateNamed>>
        /\ latePc' \notin {"store", "stamp"}
    BY <1>9 DEF LateTest
  <2> QED BY <2>1
          DEF Bindings, CacheTells, StampIsPast, HostAnswerTells, LateAnswerTells,
              HostStampTells, LateStampTells, Tells, Crossed, client, bound, host
<1>10. CASE LateBind
  <2>1. latePc' = "store" /\ lateGen' = generation' /\ lateNamed' \in known'
    BY <1>10 DEF LateBind, Answered
  <2>2. UNCHANGED <<session, identity, stamp, crossed, answered, pc>>
    BY <1>10 DEF LateBind, bound, host
  <2> QED BY <1>0, <1>10, <2>1, <2>2, CallKeepsBindings DEF LateBind
<1>11. CASE LateStore
  <2>1. live => identity' \in known \/ crossed' = generation
    BY <1>11 DEF LateStore, WriteDown, Bindings, LateAnswerTells
  <2>2. UNCHANGED <<pc, answered>> /\ latePc' # "store" /\ crossed' \in {crossed, generation}
    BY <1>11 DEF LateStore, WriteDown, host
  <2> QED BY <1>11, <2>1, <2>2, IdentityKeepsBindings DEF LateStore
<1>12. CASE LateStamp
  <2>1. live => Tells \/ crossed' = generation
    BY <1>12 DEF LateStamp, WriteDown, Bindings, LateStampTells
  <2>2. /\ UNCHANGED <<pc, answered>> /\ latePc' \notin {"store", "stamp"}
        /\ crossed' \in {crossed, generation} /\ lateGen' = NoStamp
    BY <1>12 DEF LateStamp, LocalsGone, WriteDown, host
  <2> QED BY <1>12, <2>1, <2>2, StampKeepsBindings DEF LateStamp
<1>13. CASE LateCall
  <2>1. /\ UNCHANGED <<session, identity, stamp, crossed, answered, pc>>
        /\ latePc' \notin {"store", "stamp"} /\ lateGen' = NoStamp
    BY <1>13 DEF LateCall, LocalsGone, bound, host
  <2>2. \E s \in SUBSET Sessions : Fails(s)
    BY <1>0, <1>13 DEF LateCall
  <2> QED BY <2>1, <2>2, CallKeepsBindings
<1>14. CASE UNCHANGED vars
  BY <1>14 DEF vars, client, bound, host, lateVars, Bindings, CacheTells, StampIsPast,
       HostAnswerTells, LateAnswerTells, HostStampTells, LateStampTells, Tells, Crossed
<1> QED BY <1>1, <1>2, <1>3, <1>4, <1>5, <1>6, <1>7, <1>8, <1>9, <1>10, <1>11, <1>12, <1>13,
           <1>14 DEF Next, Late

-----------------------------------------------------------------------------
(* Refusals are counted in the sidecar at work. *)

\* A call that is not refused, or whose refusal is not counted: a replaced
\* sidecar starts with no refusals.
LEMMA CallKeepsRefusals ==
  ASSUME TypeOK, Refusals, NEW s \in SUBSET Sessions, Answered(s) \/ Fails(s), SameCount,
         UNCHANGED <<session, crossed>>,
         pc' \in {"model", "use"} => pc \in {"model", "use"}
  PROVE  Refusals'
<1> USE DEF Refusals, OneHookRefused, FreshRefusal, Unknown, Crossed
<1>1. CASE generation' = generation
  <2>1. refused' = refused /\ mine' = mine
    BY <1>1 DEF SameCount, TypeOK
  <2>2. live' => live /\ known \subseteq known'
    BY <1>1, CallKeepsKnown
  <2>3. Unknown' => Unknown
    BY <2>2
  <2> QED BY <1>1, <2>1, <2>3
<1>2. CASE generation' # generation
  BY <1>2 DEF SameCount
<1> QED BY <1>1, <1>2

\* A step of _bind after the calls: a crossing is noticed.
LEMMA BindKeepsRefusals ==
  ASSUME Refusals, UNCHANGED <<client, session, refused, mine>>,
         crossed' \in {crossed, generation},
         pc' \in {"model", "use"} /\ pc \notin {"model", "use"}
           => ~Unknown \/ crossed' = generation
  PROVE  Refusals'
  BY DEF Refusals, OneHookRefused, FreshRefusal, Unknown, Crossed, client

LEMMA RefusalsStep == TypeOK /\ Bindings /\ Refusals /\ [Next]_vars => Refusals'
<1> SUFFICES ASSUME TypeOK, Bindings, Refusals, [Next]_vars PROVE Refusals'
  OBVIOUS
<1>0. {session} \in SUBSET Sessions /\ {} \in SUBSET Sessions
  BY DEF TypeOK
<1>1. CASE \/ \E o \in Binding \ {"end"} : Hook(o)
           \/ \E s \in Sessions : SessionStart(s) \/ SessionEnd(s)
           \/ \E o \in {"reset", "close"} : Teardown(o)
  BY <1>1 DEF Refusals, OneHookRefused, FreshRefusal, Crossed, Hook, SessionStart, SessionEnd,
              Teardown, Begin, client, Quiet
<1>2. CASE Test
  BY <1>2, BindKeepsRefusals DEF Test, bound, refusals, Quiet
<1>3. CASE Compare
  <2>1. pc' \in {"model", "use"} => ~Unknown \/ crossed' = generation
    BY <1>3, BoundSidecarAssumption
       DEF Compare, Current, Unknown, Bindings, CacheTells, TypeOK
  <2>2. crossed' \in {crossed, generation}
    BY <1>3 DEF Compare
  <2> QED BY <1>3, <2>1, <2>2, BindKeepsRefusals DEF Compare, bound, refusals
<1>4. CASE Bind \/ BindFails \/ ModelUpdate \/ UseServed \/ UseFails
  <2>1. /\ SameCount /\ UNCHANGED <<session, crossed>>
        /\ pc' \in {"model", "use"} => pc \in {"model", "use"}
    BY <1>4 DEF Bind, BindFails, Unbound, ModelUpdate, UseServed, UseFails, bound, Quiet
  <2>2. \E s \in SUBSET Sessions : Answered(s) \/ Fails(s)
    BY <1>0, <1>4 DEF Bind, BindFails, ModelUpdate, UseServed, UseFails, Served
  <2> QED BY <2>1, <2>2, CallKeepsRefusals
<1>5. CASE Store
  <2>1. pc' = "stamp" /\ crossed' \in {crossed, generation}
    BY <1>5 DEF Store, WriteDown
  <2> QED BY <1>5, <2>1, BindKeepsRefusals DEF Store, refusals
<1>6. CASE Stamp
  <2>1. ~Unknown \/ crossed' = generation
    BY <1>6 DEF Stamp, WriteDown, Unknown, Bindings, HostAnswerTells
  <2>2. crossed' \in {crossed, generation}
    BY <1>6 DEF Stamp, WriteDown
  <2> QED BY <1>6, <2>1, <2>2, BindKeepsRefusals DEF Stamp, refusals
<1>7. CASE UseRefused \/ ToolRetries
  <2>1. pc = "use" /\ Refused(session) /\ CountRefusal /\ crossed' = crossed
    BY <1>7 DEF UseRefused, ToolRetries, Quiet
  <2>2. refused' <= 1 \/ crossed = generation'
    <3>1. CASE generation' # generation
      BY <2>1, <3>1 DEF CountRefusal
    <3>2. CASE generation' = generation
      <4>1. Unknown
        BY <2>1, <3>2 DEF Refused, Answered, Unknown, TypeOK, ClientType
      <4>2. mine \/ refused = 0 \/ Crossed
        BY <2>1, <4>1 DEF Refusals, FreshRefusal
      <4> QED BY <2>1, <3>2, <4>2 DEF CountRefusal, Refusals, OneHookRefused, Crossed
    <3> QED BY <3>1, <3>2
  <2>3. mine'
    BY <2>1 DEF CountRefusal
  <2> QED BY <2>1, <2>2, <2>3 DEF Refusals, OneHookRefused, FreshRefusal
<1>8. CASE Close \/ Forget \/ SidecarGone
  BY <1>8 DEF Close, Forget, SidecarGone, Gone, client, bound, host, refusals, Refusals, Quiet,
              OneHookRefused, FreshRefusal, Unknown, Crossed
<1>9. CASE Abandon \/ LateTest
  BY <1>9, BindKeepsRefusals DEF Abandon, LateTest, bound, host, refusals
<1>10. CASE LateStore \/ LateStamp
  <2>1. crossed' \in {crossed, generation} /\ UNCHANGED <<client, session, pc, refused, mine>>
    BY <1>10 DEF LateStore, LateStamp, WriteDown, host, refusals
  <2> QED BY <2>1, BindKeepsRefusals
<1>11. CASE LateBind \/ LateCall
  <2>1. SameCount /\ UNCHANGED <<session, crossed, pc>>
    BY <1>11 DEF LateBind, LateCall, bound, host
  <2>2. \E s \in SUBSET Sessions : Answered(s) \/ Fails(s)
    BY <1>0, <1>11 DEF LateBind, LateCall
  <2> QED BY <2>1, <2>2, CallKeepsRefusals
<1>12. CASE UNCHANGED vars
  BY <1>12 DEF vars, client, bound, host, refusals, Refusals, OneHookRefused, FreshRefusal,
               Unknown, Crossed
<1> QED BY <1>1, <1>2, <1>3, <1>4, <1>5, <1>6, <1>7, <1>8, <1>9, <1>10, <1>11, <1>12
        DEF Next, Late

-----------------------------------------------------------------------------
(* The retry of a tool call. *)

LEMMA Numbers ==
  ASSUME TypeOK
  PROVE  Tries \in {0, 1} /\ generation \in Nat /\ began \in Nat /\ crossed \in Int
  BY DEF TypeOK, ClientType, Tries, NoStamp

\* A call in which the hook goes on, or ends without a refusal, or one of the
\* other thread: what was true of a sidecar without the session is true of its
\* successor.
LEMMA CallKeepsProgress ==
  ASSUME TypeOK, Progress, NEW s \in SUBSET Sessions, Answered(s) \/ Fails(s),
         UNCHANGED <<session, hook, crossed>>,
         pc' \in {"model", "use"} => pc \in {"model", "use"},
         pc' \in {"close", "forget"} => op # "tool" \/ pc' = pc,
         pc' = "idle" => result' # "refused" \/ op # "tool" \/ UNCHANGED <<pc, result>>
  PROVE  Progress'
<1>1. generation' >= generation /\ generation' \in Nat
  BY CallType DEF TypeOK, ClientType
<1>2. UNCHANGED <<session, op, retried, began, crossed, Tries>>
  BY DEF hook, Tries
<1>3. ASSUME op = "tool", pc' \in {"model", "use"}, Unknown'
      PROVE  generation' >= began + Tries + 1 \/ crossed >= began
  <2>1. CASE generation' = generation
    <3>1. Unknown
      BY <1>2, <1>3, <2>1, CallKeepsKnown DEF Unknown
    <3> QED BY <1>3, <2>1, <3>1 DEF Progress, ToolProgress
  <2>2. CASE generation' # generation
    BY <1>1, <1>3, <2>2, Numbers DEF Progress, ToolProgress
  <2> QED BY <2>1, <2>2
<1>4. ASSUME op = "tool"
      PROVE  generation' >= began + Tries \/ crossed >= began
  BY <1>1, <1>4, Numbers DEF Progress, ToolProgress
<1>5. ToolProgress'
  BY <1>2, <1>3, <1>4 DEF Progress, ToolProgress
<1>6. ToolLands'
  BY <1>1, <1>2, Numbers DEF Progress, ToolLands
<1>7. Began'
  BY <1>1, <1>2, Numbers DEF Progress, Began
<1> QED BY <1>5, <1>6, <1>7 DEF Progress

\* A step of _bind after the calls: a crossing is no older than the hook.
LEMMA BindKeepsProgress ==
  ASSUME TypeOK, Progress, UNCHANGED <<client, session, hook, result>>,
         crossed' \in {crossed, generation}, StampIsPast,
         pc' \in {"model", "use"} /\ pc \notin {"model", "use"}
           => ~Unknown \/ crossed' = generation,
         pc' \in {"close", "forget", "idle"} => op # "tool" \/ pc' = pc
  PROVE  Progress'
<1>1. /\ UNCHANGED <<op, retried, began, Tries, generation, Unknown>>
      /\ crossed' >= crossed /\ (crossed' = generation => crossed' >= began)
  BY Numbers DEF hook, client, Tries, Unknown, Progress, Began, StampIsPast
<1>2. crossed' \in Int
  BY Numbers
<1> QED BY <1>1, <1>2, Numbers DEF Progress, Began, ToolProgress, ToolLands

LEMMA ProgressStep == TypeOK /\ Bindings /\ Progress /\ [Next]_vars => Progress'
<1> SUFFICES ASSUME TypeOK, Bindings, Progress, [Next]_vars PROVE Progress'
  OBVIOUS
<1>0. {session} \in SUBSET Sessions /\ {} \in SUBSET Sessions /\ StampIsPast
  BY DEF TypeOK, Bindings
<1>1. CASE \/ \E o \in Binding \ {"end"} : Hook(o)
           \/ \E s \in Sessions : SessionStart(s) \/ SessionEnd(s)
           \/ \E o \in {"reset", "close"} : Teardown(o)
  <2>1. retried' = FALSE /\ began' = generation /\ generation' = generation
        /\ pc' \in {"test", "close"} /\ (pc' = "close" => op' # "tool")
    BY <1>1 DEF Hook, SessionStart, SessionEnd, Teardown, Begin, client
  <2> QED BY <2>1, Numbers DEF Progress, Began, ToolProgress, ToolLands, Tries
<1>2. CASE Test
  BY <1>0, <1>2, BindKeepsProgress DEF Test, bound, Quiet
<1>3. CASE Compare
  <2>1. pc' \in {"model", "use"} => ~Unknown \/ crossed' = generation
    BY <1>3, BoundSidecarAssumption
       DEF Compare, Current, Unknown, Bindings, CacheTells, TypeOK
  <2>2. pc' \in {"close", "forget", "idle"} => op # "tool"
    BY <1>3 DEF Compare, Bound
  <2>3. crossed' \in {crossed, generation} /\ UNCHANGED <<client, session, hook, result>>
    BY <1>3 DEF Compare, bound
  <2> QED BY <1>0, <2>1, <2>2, <2>3, BindKeepsProgress
<1>4. CASE Bind \/ BindFails
  <2>1. /\ UNCHANGED <<session, hook, crossed>> /\ pc' \notin {"model", "use"}
        /\ (pc' \in {"close", "forget"} => op # "tool") /\ (pc' = "idle" => result' # "refused")
    BY <1>4 DEF Bind, BindFails, Unbound, bound, Quiet
  <2>2. \E s \in SUBSET Sessions : Answered(s) \/ Fails(s)
    BY <1>0, <1>4 DEF Bind, BindFails
  <2> QED BY <2>1, <2>2, CallKeepsProgress
<1>5. CASE ModelUpdate \/ UseServed \/ UseFails
  <2>1. /\ UNCHANGED <<session, hook, crossed>> /\ pc \in {"model", "use"}
        /\ (pc' \in {"close", "forget"} => op # "tool")
        /\ (pc' = "idle" => result' # "refused" \/ op # "tool")
    BY <1>5 DEF ModelUpdate, Bound, UseServed, UseFails, After, bound, Quiet
  <2>2. \E s \in SUBSET Sessions : Answered(s) \/ Fails(s)
    BY <1>0, <1>5 DEF ModelUpdate, UseServed, UseFails, Served
  <2> QED BY <2>1, <2>2, CallKeepsProgress
<1>6. CASE Store
  <2>1. /\ pc' = "stamp" /\ crossed' \in {crossed, generation}
        /\ UNCHANGED <<client, session, hook, result>>
    BY <1>6 DEF Store, WriteDown
  <2> QED BY <1>0, <2>1, BindKeepsProgress
<1>7. CASE Stamp
  <2>1. ~Unknown \/ crossed' = generation
    BY <1>7 DEF Stamp, WriteDown, Unknown, Bindings, HostAnswerTells
  <2>2. pc' \in {"close", "forget", "idle"} => op # "tool"
    BY <1>7 DEF Stamp, Bound
  <2>3. crossed' \in {crossed, generation} /\ UNCHANGED <<client, session, hook, result>>
    BY <1>7 DEF Stamp, WriteDown
  <2> QED BY <1>0, <2>1, <2>2, <2>3, BindKeepsProgress
<1>8. ASSUME pc = "use", Refused(session)
      PROVE  op = "tool" => generation' >= began + Tries + 1 \/ crossed >= began
  <2>1. CASE Unknown
    <3>1. generation' >= generation /\ generation' \in Nat
      BY <1>0, <1>8, CallType DEF TypeOK, Refused, ClientType
    <3> QED BY <1>8, <2>1, <3>1, Numbers DEF Progress, ToolProgress
  <2>2. CASE ~Unknown
    <3>1. generation' = generation + 1
      BY <1>8, <2>2 DEF Refused, Answered, Unknown
    <3> QED BY <3>1, Numbers DEF Progress, ToolProgress
  <2> QED BY <2>1, <2>2
<1>9. ASSUME pc = "use", Refused(session), crossed' = crossed, began' = began
      PROVE  Began' /\ generation' \in Nat
  <2>1. generation' >= generation /\ generation' \in Nat
    BY <1>0, <1>9, CallType DEF TypeOK, Refused, ClientType
  <2> QED BY <1>9, <2>1, Numbers DEF Progress, Began
<1>10. CASE UseRefused
  <2>1. /\ UNCHANGED <<op, retried, began, crossed>>
        /\ (op = "tool" => retried /\ pc' = "idle")
    BY <1>10 DEF UseRefused, After, hook, Quiet
  <2>2. op = "tool" => generation' >= began + 2 \/ crossed >= began
    BY <1>8, <1>10, <2>1, Numbers DEF UseRefused, Tries
  <2>3. Began' /\ generation' \in Nat
    BY <1>9, <1>10, <2>1 DEF UseRefused
  <2>4. ToolProgress'
    BY <2>1, <2>2, <2>3, Numbers DEF ToolProgress, Tries
  <2> QED BY <2>1, <2>2, <2>3, <2>4 DEF Progress, ToolLands
<1>11. CASE ToolRetries
  <2>1. retried' /\ pc' = "test" /\ UNCHANGED <<op, began, crossed>> /\ op = "tool" /\ ~retried
    BY <1>11 DEF ToolRetries, Quiet
  <2>2. generation' >= began + 1 \/ crossed >= began
    BY <1>8, <1>11, <2>1, Numbers DEF ToolRetries, Tries
  <2>3. Began'
    BY <1>9, <1>11, <2>1 DEF ToolRetries
  <2> QED BY <2>1, <2>2, <2>3 DEF Progress, ToolProgress, ToolLands, Tries
<1>12. CASE Close \/ Forget
  <2>1. UNCHANGED <<hook, generation, result, crossed>> /\ pc \in {"close", "forget"}
    BY <1>12 DEF Close, Forget, Gone, client, Quiet
  <2>2. op # "tool"
    BY <2>1 DEF Progress, ToolProgress
  <2> QED BY <2>1, <2>2 DEF Progress, Began, ToolProgress, ToolLands, Tries, hook
<1>13. CASE SidecarGone \/ UNCHANGED vars
  <2>1. UNCHANGED <<hook, generation, result, pc, crossed>> /\ (Unknown' => Unknown)
    BY <1>13 DEF SidecarGone, Gone, vars, client, bound, host, Unknown
  <2> QED BY <2>1 DEF Progress, Began, ToolProgress, ToolLands, Tries, hook
<1>14. CASE Abandon
  <2>1. UNCHANGED <<client, session, hook, result, crossed>> /\ op = "compress"
    BY <1>14 DEF Abandon, bound
  <2> QED BY <2>1 DEF Progress, Began, ToolProgress, ToolLands, hook, client
<1>15. CASE LateTest \/ LateStore \/ LateStamp
  <2>1. /\ crossed' \in {crossed, generation}
        /\ UNCHANGED <<client, session, hook, result, pc>>
    BY <1>15 DEF LateTest, LateStore, LateStamp, WriteDown, host, bound
  <2> QED BY <1>0, <2>1, BindKeepsProgress
<1>16. CASE LateBind \/ LateCall
  <2>1. UNCHANGED <<session, hook, crossed, pc, result>>
    BY <1>16 DEF LateBind, LateCall, bound, host
  <2>2. \E s \in SUBSET Sessions : Answered(s) \/ Fails(s)
    BY <1>0, <1>16 DEF LateBind, LateCall
  <2> QED BY <2>1, <2>2, CallKeepsProgress
<1> QED BY <1>1, <1>2, <1>3, <1>4, <1>5, <1>6, <1>7, <1>10, <1>11, <1>12, <1>13, <1>14, <1>15,
           <1>16 DEF Next, Late

-----------------------------------------------------------------------------
LEMMA IInvAlways == Spec => []IInv
<1>1. IInv /\ [Next]_vars => IInv'
  BY TypeStep, BindingsStep, RefusalsStep, ProgressStep DEF IInv
<1> QED BY InitInv, <1>1, PTL DEF Spec

\* But for a crossing with an abandoned compress(), _bind never takes a session
\* for bound that the running sidecar does not know: sidecars come and go under
\* every step of either thread.
THEOREM CachedBindingIsTrue == Spec => []CacheTells
<1>1. IInv => CacheTells
  BY DEF IInv, Bindings
<1> QED BY <1>1, IInvAlways, PTL

\* But for such a crossing, no sidecar answers "Session is not bound" to two
\* hooks, whatever it is asked by the abandoned thread.
THEOREM ReplacementCostsOneHook == Spec => []OneHookRefused
<1>1. IInv => OneHookRefused
  BY DEF IInv, Refusals
<1> QED BY <1>1, IInvAlways, PTL

\* The retry of handle_tool_call is refused only after a second replacement, or
\* in or after a generation in which the threads crossed.
THEOREM ToolCallLands == Spec => []ToolLands
<1>1. IInv => ToolLands
  BY DEF IInv, Progress
<1> QED BY <1>1, IInvAlways, PTL

\* Type correctness: every hook of the engine, in any order, keeps the types of
\* its binding and of the client under it.
THEOREM EngineTypeCorrect == Spec => []TypeOK
<1>1. Init => TypeOK
  BY InitInv DEF IInv
<1> QED BY <1>1, TypeStep, PTL DEF Spec
===============================================================================
