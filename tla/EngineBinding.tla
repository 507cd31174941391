----------------------------- MODULE EngineBinding -----------------------------
(***************************************************************************)
(* How MagicContextEngine (src/magic_hermes/engine.py) keeps its session   *)
(* bound in a sidecar that may be replaced under it: _bind with its cached *)
(* identity and generation, the hooks that call it, handle_tool_call with  *)
(* its one retry, and session start, end and reset.                        *)
(*                                                                         *)
(* The hooks of an engine run one at a time, and its workers have clients  *)
(* of their own; but a compress() that Hermes stopped waiting for (module  *)
(* EngineWorkers) goes on with the engine's own client and fields while    *)
(* the next hooks run.  The idle sweeper and the sidecar act between any   *)
(* two steps.                                                              *)
(***************************************************************************)
EXTENDS BoundSidecar

CONSTANT Bootstrap   \* "magic-hermes-bootstrap"

ASSUME BootstrapAssumption == Bootstrap \in Sessions

VARIABLES
  session,   \* self._session_id (and the project root that goes with it)
  identity,  \* self._bound_identity
  stamp,     \* self._bound_generation
  pc,        \* where the hook at work is
  answered,  \* the generation that has answered its bind
  op,        \* which hook it is, by what it does after _bind
  retried,   \* handle_tool_call has tried once
  result,    \* how the last request of the hook ended
  began,     \* history: the generation when the hook began
  refused,   \* history: hooks this sidecar has told "Session is not bound"
  mine,      \* history: the hook at work is one of them
  crossed,   \* history: the latest generation in which _bind wrote down what another
             \* generation or for another session was answered, or compared with
             \* the session of one binding and the generation of the next
  latePc,    \* where the abandoned compress() is, or "off"
  lateOwn,   \* its `identity` local, in _bind
  lateNamed, \* the session its bind named
  lateGen    \* the generation that has answered this bind

bound    == <<session, identity, stamp>>
hook     == <<op, retried, began>>
refusals == <<refused, mine>>
host     == <<hook, pc, answered, result>>
lateVars == <<latePc, lateOwn, lateNamed, lateGen>>
vars     == <<client, bound, host, refusals, crossed, lateVars>>

NoStamp == -1

\* bind: _bind and nothing more (get_tool_schemas, on_session_start).
\* hook: requests up to the first that fails (select_context,
\*   on_turn_complete, update_model, update_from_response, should_compress).
\* carryOn: requests that go on past a failure, after a new _bind or not
\*   (on_turn_complete when it reports the usage first).
\* compress: requests that go on past a failure.
\* tool: handle_tool_call.  end: on_session_end.  reset: on_session_reset.
\* close: close().
Ops     == {"bind", "hook", "carryOn", "compress", "tool", "end", "reset", "close"}
Binding == {"bind", "hook", "carryOn", "compress", "tool", "end"}
InBind  == {"test", "bind", "store", "stamp", "model"}
Pc      == InBind \cup {"idle", "compare", "use", "close", "forget"}
LatePc  == InBind \cup {"off", "use"}

Init ==
  /\ ClientInit
  /\ session \in Sessions /\ identity = None /\ stamp = NoStamp
  /\ pc = "idle" /\ op = "bind" /\ retried = FALSE
  /\ result = "none" /\ began = 0 /\ refused = 0 /\ mine = FALSE
  /\ answered = NoStamp /\ crossed = NoStamp
  /\ latePc = "off" /\ lateOwn = None /\ lateNamed = None /\ lateGen = NoStamp

\* Refusals are counted per sidecar, and once per hook, up to two.
SameCount ==
  /\ refused' = IF generation' = generation THEN refused ELSE 0
  /\ mine' = (mine /\ generation' = generation)

CountRefusal ==
  /\ refused' = IF generation' # generation THEN 1
                ELSE IF mine \/ refused = 2 THEN refused ELSE refused + 1
  /\ mine' = TRUE

\* A line of _bind writes down for `own` what sidecar g answered for `named`.
WriteDown(own, named, g) ==
  crossed' = IF own # named \/ g # generation THEN generation ELSE crossed

ForgetBinding == identity' = None /\ stamp' = NoStamp

\* What a step of a hook leaves alone.
Alone == UNCHANGED lateVars
Quiet == Alone /\ UNCHANGED crossed

Begin(o) ==
  /\ pc = "idle"
  /\ op' = o
  /\ retried' = FALSE
  /\ began' = generation
  /\ result' = "none"
  /\ mine' = FALSE
  /\ UNCHANGED <<client, answered, refused>> /\ Quiet

Hook(o) ==
  /\ Begin(o)
  /\ pc' = "test"
  /\ UNCHANGED bound

SessionStart(s) ==
  /\ Begin("bind")
  /\ session' = s
  /\ ForgetBinding
  /\ pc' = "test"

\* The session id is replaced, the binding is not; without messages there is
\* nothing to observe.
SessionEnd(s) ==
  /\ Begin("end")
  /\ session' = s
  /\ pc' \in {"test", "close"}
  /\ UNCHANGED <<identity, stamp>>

Teardown(o) ==
  /\ Begin(o)
  /\ pc' = "close"
  /\ UNCHANGED bound

-----------------------------------------------------------------------------
(* _bind                                                                   *)

\* What follows a _bind that returned True, or False.
Bound   == IF op = "bind" THEN "idle" ELSE "use"
Unbound == IF op = "end" THEN "close" ELSE "idle"

\* Mutant: the generation is not compared.
AnyGeneration == TRUE

Current == stamp = generation

\* The identity is compared, and then the generation.
Test ==
  /\ pc = "test"
  /\ pc' = IF identity = session THEN "compare" ELSE "bind"
  /\ UNCHANGED <<client, bound, hook, answered, result, refusals>> /\ Quiet

Compare ==
  /\ pc = "compare"
  /\ pc' = IF Current THEN Bound ELSE "bind"
  /\ crossed' = IF Current /\ identity # session THEN generation ELSE crossed
  /\ UNCHANGED <<client, bound, hook, answered, result, refusals>> /\ Alone

Bind ==
  /\ pc = "bind"
  /\ Answered({session}) /\ SameCount
  /\ answered' = generation'
  /\ pc' = "store"
  /\ UNCHANGED <<bound, hook, result>> /\ Quiet

BindFails ==
  /\ pc = "bind"
  /\ Fails({session}) /\ SameCount
  /\ result' = "failed"
  /\ pc' = Unbound
  /\ UNCHANGED <<bound, hook, answered>> /\ Quiet

\* The identity is written down, and then the generation the client has by now:
\* the sidecar may be gone, or replaced by a call of the other thread.
Store ==
  /\ pc = "store"
  /\ identity' = session
  /\ WriteDown(session, session, answered)
  /\ pc' = "stamp"
  /\ UNCHANGED <<client, session, stamp, hook, answered, result, refusals>> /\ Alone

Stamp ==
  /\ pc = "stamp"
  /\ stamp' = generation
  /\ WriteDown(session, session, answered)
  /\ answered' = NoStamp
  /\ pc' \in {"model", Bound}
  /\ UNCHANGED <<client, session, identity, hook, result, refusals>> /\ Alone

\* model_update, when the host has told its model: whether it is served,
\* refused or fails is only logged (Fails has the client's part of all three),
\* and a sidecar spawned for it does not know the session.
ModelUpdate ==
  /\ pc = "model"
  /\ Fails({}) /\ SameCount
  /\ pc' = Bound
  /\ UNCHANGED <<bound, hook, answered, result>> /\ Quiet

-----------------------------------------------------------------------------
(* The requests of a hook.                                                 *)

After(outcome) ==
  /\ result' = outcome
  /\ pc' \in CASE op = "end"     -> {"close"}
               [] op = "carryOn" -> {"test", "use", "idle"}
               [] op = "compress" -> {"use", "idle"}
               [] op = "hook" /\ outcome = "ok" -> {"use", "idle"}
               [] OTHER          -> {"idle"}

UseServed ==
  /\ pc = "use"
  /\ Served(session) /\ SameCount
  /\ After("ok")
  /\ UNCHANGED <<bound, hook, answered>> /\ Quiet

UseFails ==
  /\ pc = "use"
  /\ Fails({}) /\ SameCount
  /\ After("failed")
  /\ UNCHANGED <<bound, hook, answered>> /\ Quiet

UseRefused ==
  /\ pc = "use"
  /\ op # "tool" \/ retried
  /\ Refused(session) /\ CountRefusal
  /\ After("refused")
  /\ UNCHANGED <<bound, hook, answered>> /\ Quiet

\* Mutant: the retry trusts the generation it has just seen.
ToolRetriesStamped ==
  /\ pc = "use" /\ op = "tool" /\ ~retried
  /\ Refused(session) /\ CountRefusal
  /\ stamp' = generation'
  /\ retried' = TRUE
  /\ result' = "refused"
  /\ pc' = "test"
  /\ UNCHANGED <<session, identity, op, began, answered>> /\ Quiet

\* Mutant: the retry does not go through _bind.
ToolRetriesUnbound ==
  /\ pc = "use" /\ op = "tool" /\ ~retried
  /\ Refused(session) /\ CountRefusal
  /\ stamp' = NoStamp
  /\ retried' = TRUE
  /\ result' = "refused"
  /\ pc' = "use"
  /\ UNCHANGED <<session, identity, op, began, answered>> /\ Quiet

\* handle_tool_call: forget the generation, bind again, try once more.
ToolRetries ==
  /\ pc = "use" /\ op = "tool" /\ ~retried
  /\ Refused(session) /\ CountRefusal
  /\ stamp' = NoStamp
  /\ retried' = TRUE
  /\ result' = "refused"
  /\ pc' = "test"
  /\ UNCHANGED <<session, identity, op, began, answered>> /\ Quiet

\* self._client.close(), then the binding is forgotten.
Close ==
  /\ pc = "close"
  /\ Gone
  /\ pc' = "forget"
  /\ UNCHANGED <<bound, hook, answered, result, refusals>> /\ Quiet

\* Mutant: a reset leaves no session to go back to.
ForgetSession ==
  /\ pc = "forget"
  /\ ForgetBinding
  /\ session' = IF op = "reset" THEN None ELSE session
  /\ pc' = "idle"
  /\ UNCHANGED <<client, hook, answered, result, refusals>> /\ Quiet

Forget ==
  /\ pc = "forget"
  /\ ForgetBinding
  /\ session' = IF op = "reset" THEN Bootstrap ELSE session
  /\ pc' = "idle"
  /\ UNCHANGED <<client, hook, answered, result, refusals>> /\ Quiet

-----------------------------------------------------------------------------
(* The compress() that the host has given up, one at a time.               *)

\* Hermes' deadline: the thread goes on from where it is, in _bind or after it.
\* Which call it makes next is all that its own test decides, so that is one
\* step; a thread between its two comparisons is abandoned after the second.
Abandon ==
  /\ op = "compress" /\ pc \in LatePc \ {"off"} /\ latePc = "off"
  /\ latePc' = pc /\ lateGen' = answered
  /\ lateOwn' = IF pc \in {"bind", "store", "stamp"} THEN session ELSE None
  /\ lateNamed' = IF pc \in {"store", "stamp"} THEN session ELSE None
  /\ pc' = "idle" /\ answered' = NoStamp
  /\ UNCHANGED <<client, bound, hook, result, refusals, crossed>>

LocalsGone == lateOwn' = None /\ lateNamed' = None /\ lateGen' = NoStamp

LateTest ==
  /\ latePc = "test"
  /\ IF identity = session /\ Current
     THEN latePc' = "use" /\ UNCHANGED lateOwn
     ELSE latePc' = "bind" /\ lateOwn' = session
  /\ UNCHANGED <<client, bound, host, refusals, crossed, lateNamed, lateGen>>

\* The call names the session the engine has by now.
LateBind ==
  /\ latePc = "bind"
  /\ Answered({session}) /\ SameCount
  /\ lateNamed' = session /\ lateGen' = generation'
  /\ latePc' = "store"
  /\ UNCHANGED <<bound, host, crossed, lateOwn>>

LateStore ==
  /\ latePc = "store"
  /\ identity' = lateOwn
  /\ WriteDown(lateOwn, lateNamed, lateGen)
  /\ latePc' = "stamp"
  /\ UNCHANGED <<client, session, stamp, host, refusals, lateOwn, lateNamed, lateGen>>

LateStamp ==
  /\ latePc = "stamp"
  /\ stamp' = generation
  /\ WriteDown(lateOwn, lateNamed, lateGen)
  /\ latePc' \in {"model", "use"} /\ LocalsGone
  /\ UNCHANGED <<client, session, identity, host, refusals>>

\* model_update, historian_decide and render_context, whatever they are told,
\* and the end of the thread; a bind that fails ends it too.
LateCall ==
  /\ \/ latePc = "bind" /\ Fails({session}) /\ latePc' = "off"
     \/ latePc = "model" /\ Fails({}) /\ latePc' = "use"
     \/ latePc = "use" /\ Fails({}) /\ latePc' \in {"use", "off"}
  /\ SameCount /\ LocalsGone
  /\ UNCHANGED <<bound, host, crossed>>

Late == LateTest \/ LateBind \/ LateStore \/ LateStamp \/ LateCall

\* The idle sweeper, or the sidecar itself.
SidecarGone ==
  /\ live
  /\ Gone
  /\ UNCHANGED <<bound, host, refusals, crossed, lateVars>>

Next ==
  \/ \E o \in Binding \ {"end"} : Hook(o)
  \/ \E s \in Sessions : SessionStart(s) \/ SessionEnd(s)
  \/ \E o \in {"reset", "close"} : Teardown(o)
  \/ Test \/ Compare \/ Bind \/ BindFails \/ Store \/ Stamp \/ ModelUpdate
  \/ UseServed \/ UseFails \/ UseRefused \/ ToolRetries
  \/ Close \/ Forget
  \/ Abandon \/ Late \/ SidecarGone

Spec == Init /\ [][Next]_vars

-----------------------------------------------------------------------------
TypeOK ==
  /\ ClientType
  /\ session \in Sessions
  /\ identity \in Sessions \cup {None}
  /\ stamp \in {NoStamp} \cup 0..MaxSpawns
  /\ pc \in Pc
  /\ op \in Ops
  /\ retried \in BOOLEAN
  /\ result \in {"none", "ok", "failed", "refused"}
  /\ began \in 0..MaxSpawns
  /\ refused \in 0..2
  /\ mine \in BOOLEAN
  /\ answered \in {NoStamp} \cup 0..MaxSpawns
  /\ crossed \in {NoStamp} \cup 0..MaxSpawns
  /\ latePc \in LatePc
  /\ lateOwn \in Sessions \cup {None} /\ lateNamed \in Sessions \cup {None}
  /\ lateGen \in {NoStamp} \cup 0..MaxSpawns

\* The cached binding lies about a sidecar that runs only where a compress() the
\* host had abandoned crossed a _bind: one of the two threads replaced the
\* sidecar between the answer to the other's bind and the lines that write it
\* down, or the late thread's answer was written down for a session it had not
\* named.  Otherwise a session that _bind takes for bound in this generation is
\* in the sidecar's table.
CacheTells ==
  live /\ identity # None /\ stamp = generation /\ crossed # generation =>
    identity \in known

\* A replaced sidecar costs at most one hook, such a crossing apart: no second
\* hook is told "Session is not bound" by the same sidecar, since the next
\* _bind binds again ("Generation tracking already re-binds on the next
\* _bind()").  What an abandoned compress() is told is not counted.
OneHookRefused == refused <= 1 \/ crossed = generation

\* "so the tool call still lands": a tool call is answered "Session is not
\* bound" only if the sidecar was replaced twice while it ran, or a crossing
\* had left the cache wrong about a sidecar it met.
ToolLands ==
  pc = "idle" /\ op = "tool" /\ retried /\ result = "refused" =>
    generation >= began + 2 \/ crossed >= began
===============================================================================
