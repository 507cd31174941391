---------------------------- MODULE ProviderBinding ----------------------------
(***************************************************************************)
(* How MagicContextMemoryProvider (src/magic_hermes/memory_provider.py)    *)
(* keeps its session bound: _bind caches the identity alone, the host's    *)
(* threads and the provider's background threads share it without a lock.  *)
(***************************************************************************)
EXTENDS BoundSidecar, Sequences

CONSTANT Threads   \* host threads and background threads

VARIABLES
  session,   \* self._session_id (and the project root that goes with it)
  identity,  \* self._bound_identity
  down,      \* self._shutdown is set
  pc,        \* where each thread is
  todo,      \* what each thread runs, the part at work first
  own,       \* the `identity` local of _bind
  asked      \* the `session_id` argument of _observe and _refresh_context

provider == <<session, identity, down>>
threads  == <<pc, todo, own, asked>>
vars == <<client, provider, threads>>

\* get_tool_schemas, handle_tool_call, sync_turn, queue_prefetch,
\* on_session_end, on_pre_compress, and what a session switch does after it.
Tasks ==
  {<<"bind">>, <<"tool">>, <<"observe">>, <<"refresh">>,
   <<"bind", "observe">>, <<"bind", "observe", "refresh">>}
AfterSwitch == <<"bind", "refresh">>

Init ==
  /\ ClientInit
  /\ session \in Sessions /\ identity = None /\ down = FALSE
  /\ pc = [t \in Threads |-> "idle"]
  /\ todo = [t \in Threads |-> <<>>]
  /\ own = [t \in Threads |-> None]
  /\ asked = [t \in Threads |-> None]

Goto(t, label) == pc' = [pc EXCEPT ![t] = label]

\* A part begins: _observe and _refresh_context with their guard.
Enter(t, parts, s) ==
  /\ todo' = [todo EXCEPT ![t] = parts]
  /\ asked' = [asked EXCEPT ![t] = s]
  /\ Goto(t, IF parts = <<>> THEN "idle"
             ELSE IF Head(parts) \in {"bind", "tool"} THEN "test" ELSE "check")

\* One part is over, well or not; _bind returned False.
Continue(t) == Enter(t, Tail(todo[t]), session)
GiveUp(t)   == Enter(t, <<>>, None)

-----------------------------------------------------------------------------
(* What the host calls.  _spawn runs a task in a thread of its own, which  *)
(* is any idle one here; handle_tool_call spawns a refresh this way.       *)

Run(t) ==
  /\ pc[t] = "idle"
  /\ \E parts \in Tasks : Enter(t, parts, session)
  /\ UNCHANGED <<client, provider, own>>

\* on_session_switch; initialize is the same and clears _shutdown.
Switch(t, s) ==
  /\ pc[t] = "idle"
  /\ session' = s
  /\ identity' = None
  /\ down' \in {down, FALSE}
  /\ Enter(t, AfterSwitch, s)
  /\ UNCHANGED <<client, own>>

Shutdown(t) ==
  /\ pc[t] = "idle"
  /\ down' = TRUE
  /\ Goto(t, "close")
  /\ UNCHANGED <<client, session, identity, todo, own, asked>>

Close(t) ==
  /\ pc[t] = "close"
  /\ Gone
  /\ Goto(t, "idle")
  /\ UNCHANGED <<provider, todo, own, asked>>

-----------------------------------------------------------------------------
(* What a thread does.                                                     *)

\* The guard of _observe and _refresh_context; only the second one binds.
Check(t) ==
  /\ pc[t] = "check"
  /\ IF down \/ asked[t] # session THEN Continue(t)
     ELSE /\ Goto(t, IF Head(todo[t]) = "observe" THEN "use" ELSE "test")
          /\ UNCHANGED <<todo, asked>>
  /\ UNCHANGED <<client, provider, own>>

\* _bind returned True.
Bound(t) ==
  IF Head(todo[t]) = "bind" THEN Continue(t)
  ELSE Goto(t, "use") /\ UNCHANGED <<todo, asked>>

\* _bind: the generation of the sidecar is not looked at.
Test(t) ==
  /\ pc[t] = "test"
  /\ own' = [own EXCEPT ![t] = session]
  /\ IF down THEN GiveUp(t)
     ELSE IF identity = session THEN Bound(t)
     ELSE Goto(t, "bind") /\ UNCHANGED <<todo, asked>>
  /\ UNCHANGED <<client, provider>>

Bind(t) ==
  /\ pc[t] = "bind"
  /\ Answered({session})
  /\ Goto(t, "store")
  /\ UNCHANGED <<provider, todo, own, asked>>

BindFails(t) ==
  /\ pc[t] = "bind"
  /\ Fails({session})
  /\ GiveUp(t)
  /\ UNCHANGED <<provider, own>>

Store(t) ==
  /\ pc[t] = "store"
  /\ identity' = own[t]
  /\ Bound(t)
  /\ UNCHANGED <<client, session, down, own>>

\* handle_tool_call names the session of the moment, the others their own.
Target(t) == IF Head(todo[t]) = "tool" THEN session ELSE asked[t]

\* The request; whether it was served, refused or failed changes nothing here.
Use(t) ==
  /\ pc[t] = "use"
  /\ Served(Target(t)) \/ Refused(Target(t)) \/ Fails({})
  /\ Continue(t)
  /\ UNCHANGED <<provider, own>>

\* The idle sweeper, or the sidecar itself.
SidecarGone ==
  /\ live
  /\ Gone
  /\ UNCHANGED <<provider, threads>>

Step(t) ==
  \/ Run(t) \/ Shutdown(t) \/ Close(t) \/ \E s \in Sessions : Switch(t, s)
  \/ Check(t) \/ Test(t) \/ Bind(t) \/ BindFails(t) \/ Store(t) \/ Use(t)

Next == (\E t \in Threads : Step(t)) \/ SidecarGone

Spec == Init /\ [][Next]_vars

-----------------------------------------------------------------------------
\* What the comments promise and the code does not do.

\* "The sidecar restarts lazily on the next call(); DB state is shared, so
\* nothing is lost" (runtime.py:396-397): when no thread is at work and a
\* sidecar runs, the session that _bind takes for bound is bound in it.
RestartedSidecarIsBound ==
  (\A t \in Threads : pc[t] = "idle") /\ live /\ ~down /\ identity = session
    => session \in known
===============================================================================
