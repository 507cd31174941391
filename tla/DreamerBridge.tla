------------------------------ MODULE DreamerBridge ------------------------------
(***************************************************************************)
(* _DreamerHostBridge (src/magic_hermes/plugin.py) and the virtual         *)
(* sessions of the sidecar it serves (createHermesDreamerClient in         *)
(* bridge/runtime.mjs).  Every host callback runs on a thread of its own   *)
(* (module RuntimeClient), so the launch of a child, the abort of another, *)
(* the hooks of the host and the tool calls of a child interleave.         *)
(*                                                                         *)
(* The upstream scheduler that prompts, aborts and deletes, and the Hermes *)
(* registry of subagents, are external: the first may do what its promises *)
(* allow, the second keeps a child per correlation id and calls the start  *)
(* hook on the launching thread.  Of the sessions in Others only what they *)
(* do to the map of launch numbers is followed.                            *)
(***************************************************************************)
EXTENDS Naturals, Sequences, FiniteSets

CONSTANTS
  Virtual,     \* virtual sessions, numbered as they are first prompted
  Others,      \* those of sessions not followed
  Summaries,   \* final answers of children
  MaxPrompts,  \* bound: prompts
  MaxEvents,   \* len(self._stop_events) is kept within it (128)
  MaxSeqs,     \* len(self._launch_seq) is kept within it (256) ...
  Evicted,     \* ... by deleting this many, the oldest (128)
  None         \* no session, prompt or summary

ASSUME BoundsAssumption == MaxPrompts \in Nat \ {0} /\ MaxEvents \in Nat \ {0}
ASSUME EvictionAssumption == MaxSeqs \in Nat /\ Evicted \in 1..MaxSeqs
ASSUME SessionsAssumption == Virtual \subseteq Nat /\ Virtual \cap Others = {}
ASSUME NoneAssumption == None \notin Nat

\* A prompt, its callback thread and the child launched for it share a number.
Prompts == 1..MaxPrompts

VARIABLES
  of,          \* of each prompt: its virtual session
  pc,          \* where its callback thread is
  attrs,       \* _launch_local: the prompt whose capability and project it has
  order,       \* the keys of _launch_seq, in the order they came
  seq,         \* _launch_seq: 0 for a session not in it
  evicted,     \* history: sessions it has dropped
  corr,        \* of each prompt: the number in its correlation id
  childOf,     \* the child in its handle
  handles,     \* _handles: virtual session id to the prompt that registered
  overlap,     \* history: prompts whose session had another in the map
  unwatched,   \* history: running children whose wait() raised
  child,       \* of each child: "none", "running", "told", "done", "failed"
  summary,     \* what it said in the end
  stopped,     \* subagent_stop has been called for it
  guard,       \* _child_capabilities and _child_projects: whose prompt's it has
  tool,        \* its tool call and client: "none", "looked", "client", "orphan"
  events,      \* _stop_events: the children in it
  begun,       \* of each prompt: the children that had stopped when it began
  trace,       \* the child whose tool history it returned
  abort,       \* the session of the abort callback in flight
  target       \* the prompt whose handle it found

seqVars     == <<order, seq, evicted>>
bridgeVars  == <<attrs, seqVars, corr, childOf, handles, overlap, unwatched>>
childVars   == <<child, summary, stopped, guard, tool>>
traceVars   == <<events, begun, trace>>
abortVars   == <<abort, target>>
vars == <<of, pc, bridgeVars, childVars, traceVars, abortVars>>

Init ==
  /\ of = [p \in Prompts |-> None]
  /\ pc = [p \in Prompts |-> "off"]
  /\ attrs = [p \in Prompts |-> None]
  /\ order = <<>> /\ seq = [v \in Virtual |-> 0] /\ evicted = {}
  /\ corr = [p \in Prompts |-> 0]
  /\ childOf = [p \in Prompts |-> None]
  /\ handles = [v \in Virtual |-> None]
  /\ overlap = {} /\ unwatched = {}
  /\ child = [p \in Prompts |-> "none"]
  /\ summary = [p \in Prompts |-> None]
  /\ stopped = {}
  /\ guard = [p \in Prompts |-> None]
  /\ tool = [p \in Prompts |-> "none"]
  /\ events = <<>>
  /\ begun = [p \in Prompts |-> {}]
  /\ trace = [p \in Prompts |-> None]
  /\ abort = None /\ target = None

Goto(p, l) == pc' = [pc EXCEPT ![p] = l]

-----------------------------------------------------------------------------
(* The sidecar: virtual sessions between their create() and their delete() *)

\* prompt(): a host callback.  A session may be prompted again as soon as its
\* last prompt has settled, which by way of the abort signal (Promise.race) may
\* be any time before its thread, and its child, are done.
Prompt(p, v) ==
  /\ pc[p] = "off" /\ \A q \in Prompts : q < p => pc[q] # "off"
  /\ \A w \in Virtual : w < v => \E q \in Prompts : of[q] = w
  /\ of' = [of EXCEPT ![p] = v]
  /\ begun' = [begun EXCEPT ![p] = stopped]
  /\ Goto(p, "asked")
  /\ UNCHANGED <<bridgeVars, childVars, events, trace, abortVars>>

\* abort(): a host callback, for a session in the map; one at a time (bound).
Abort(v) ==
  /\ abort = None /\ v \in {of[p] : p \in Prompts}
  /\ abort' = v
  /\ UNCHANGED <<of, pc, bridgeVars, childVars, traceVars, target>>

-----------------------------------------------------------------------------
(* _run_child                                                              *)

\* Mutant: the launch attributes are fields of the bridge, not thread-local.
OneCell(p) == 1

LaunchLocal(p) == p

\* Mutant: the launches of a session are not told apart.
SameSeq(v) == 1

\* The launch number of a session, in its correlation id from the second on.
NextSeq(v) == seq[v] + 1

Listed(o) == {o[i] : i \in DOMAIN o}

\* "cap the map by evicting the oldest half": oldest by first launch.
Capped(o) == IF Len(o) > MaxSeqs THEN SubSeq(o, Evicted + 1, Len(o)) ELSE o

\* A launch of session v is counted, and numbers are dropped.
Counted(v) ==
  /\ order' = Capped(IF v \in Listed(order) THEN order ELSE Append(order, v))
  /\ seq' = [w \in Virtual |-> IF w \notin Listed(order') THEN 0
                               ELSE IF w = v THEN NextSeq(w) ELSE seq[w]]
  /\ evicted' = evicted \cup (Virtual \cap ((Listed(order) \cup {v}) \ Listed(order')))

\* The launch attributes are set and the launch number is taken.
Begin(p) ==
  /\ pc[p] = "asked"
  /\ attrs' = [attrs EXCEPT ![LaunchLocal(p)] = p]
  /\ Counted(of[p])
  /\ corr' = [corr EXCEPT ![p] = NextSeq(of[p])]
  /\ Goto(p, "launch")
  /\ UNCHANGED <<of, childOf, handles, overlap, unwatched, childVars, traceVars, abortVars>>

\* The same step of a prompt of another session (bound: while a followed
\* session is listed).
BeginOther(o) ==
  /\ Listed(order) \cap Virtual # {}
  /\ Counted(o)
  /\ UNCHANGED <<of, pc, attrs, corr, childOf, handles, overlap, unwatched,
                 childVars, traceVars, abortVars>>

\* Children of this correlation id, which Hermes retains when they have ended.
Retained(p) ==
  {q \in Prompts : q # p /\ of[q] = of[p] /\ corr[q] = corr[p] /\ childOf[q] = q}

\* Hermes answers with the child it retains, or starts one and calls
\* _on_subagent_start on this thread.
Launch(p) ==
  /\ pc[p] = "launch"
  /\ IF Retained(p) # {}
     THEN /\ \E q \in Retained(p) : childOf' = [childOf EXCEPT ![p] = q]
          /\ UNCHANGED <<child, guard>>
     ELSE /\ childOf' = [childOf EXCEPT ![p] = p]
          /\ child' = [child EXCEPT ![p] = "running"]
          /\ guard' = [guard EXCEPT ![p] = attrs[LaunchLocal(p)]]
  /\ attrs' = [attrs EXCEPT ![LaunchLocal(p)] = None]
  /\ Goto(p, "register")
  /\ UNCHANGED <<of, seqVars, corr, handles, overlap, unwatched, summary, stopped,
                 tool, traceVars, abortVars>>

\* The callback is over.
Over(p) == Goto(p, "over")

\* Hermes refuses the launch.
LaunchFails(p) ==
  /\ pc[p] = "launch"
  /\ attrs' = [attrs EXCEPT ![LaunchLocal(p)] = None]
  /\ Over(p)
  /\ UNCHANGED <<of, seqVars, corr, childOf, handles, overlap, unwatched,
                 childVars, traceVars, abortVars>>

\* Mutant: the handle is registered under the correlation id.
RegisteredByCorrelation(p) ==
  handles' = IF corr[p] = 1 THEN [handles EXCEPT ![of[p]] = p] ELSE handles

Registered(p) == handles' = [handles EXCEPT ![of[p]] = p]

\* Prompts of the session whose threads are between Register and Pop.
InMap(v) == {q \in Prompts : of[q] = v /\ pc[q] \in {"wait", "pop", "raise"}}

Register(p) ==
  /\ pc[p] = "register"
  /\ Registered(p)
  /\ overlap' = overlap \cup (IF InMap(of[p]) = {} THEN {} ELSE InMap(of[p]) \cup {p})
  /\ Goto(p, "wait")
  /\ UNCHANGED <<of, attrs, seqVars, corr, childOf, unwatched,
                 childVars, traceVars, abortVars>>

Terminal(c) == child[c] \in {"done", "failed"}

WaitReturns(p) ==
  /\ pc[p] = "wait" /\ Terminal(childOf[p])
  /\ Goto(p, "pop")
  /\ UNCHANGED <<of, bridgeVars, childVars, traceVars, abortVars>>

\* cancel(): a running child is told to stop.
Tell(c) == child' = IF child[c] = "running" THEN [child EXCEPT ![c] = "told"] ELSE child

\* Mutant: a child that overran its twenty minutes is left alone.
LeaveAlone(c) == UNCHANGED child

OnTimeout(c) == Tell(c)

WaitTimesOut(p) ==
  /\ pc[p] = "wait" /\ ~Terminal(childOf[p])
  /\ OnTimeout(childOf[p])
  /\ Goto(p, "raise")
  /\ UNCHANGED <<of, bridgeVars, summary, stopped, guard, tool, traceVars, abortVars>>

\* wait() or result() raises: the child is neither waited for nor cancelled.
WaitFails(p) ==
  /\ pc[p] = "wait"
  /\ unwatched' = unwatched \cup ({childOf[p]} \cap {c \in Prompts : child[c] = "running"})
  /\ Goto(p, "raise")
  /\ UNCHANGED <<of, attrs, seqVars, corr, childOf, handles, overlap,
                 childVars, traceVars, abortVars>>

\* The `finally`: whatever handle the session has by now.  A timeout, an
\* exception or a child that has not succeeded fails the callback.
Pop(p) ==
  /\ pc[p] \in {"pop", "raise"}
  /\ handles' = [handles EXCEPT ![of[p]] = None]
  /\ IF pc[p] = "pop" /\ child[childOf[p]] = "done" THEN Goto(p, "trace") ELSE Over(p)
  /\ UNCHANGED <<of, attrs, seqVars, corr, childOf, overlap, unwatched,
                 childVars, traceVars, abortVars>>

\* A child that stopped since the prompt began and said the same.
Matches(p, c) == c \notin begun[p] /\ summary[c] = summary[childOf[p]]

\* _matching_trace: the first event that matches is taken out.
Trace(p) ==
  /\ pc[p] = "trace"
  /\ \E i \in DOMAIN events :
       /\ Matches(p, events[i])
       /\ \A j \in 1..(i - 1) : ~Matches(p, events[j])
       /\ trace' = [trace EXCEPT ![p] = events[i]]
       /\ events' = SubSeq(events, 1, i - 1) \o SubSeq(events, i + 1, Len(events))
  /\ Over(p)
  /\ UNCHANGED <<of, bridgeVars, childVars, begun, abortVars>>

\* None has come within a second: the history is empty.
NoTrace(p) ==
  /\ pc[p] = "trace"
  /\ \A i \in DOMAIN events : ~Matches(p, events[i])
  /\ Over(p)
  /\ UNCHANGED <<of, bridgeVars, childVars, traceVars, abortVars>>

Callback(p) ==
  \/ Begin(p) \/ Launch(p) \/ LaunchFails(p) \/ Register(p)
  \/ WaitReturns(p) \/ WaitTimesOut(p) \/ WaitFails(p) \/ Pop(p)
  \/ Trace(p) \/ NoTrace(p)

-----------------------------------------------------------------------------
(* _abort_child                                                            *)

\* The handle is read under the lock: none, and the abort is not accepted.
AbortLooks ==
  /\ abort # None /\ target = None
  /\ target' = handles[abort]
  /\ abort' = IF handles[abort] = None THEN None ELSE abort
  /\ UNCHANGED <<of, pc, bridgeVars, childVars, traceVars>>

AbortCancels ==
  /\ target # None
  /\ Tell(childOf[target])
  /\ abort' = None /\ target' = None
  /\ UNCHANGED <<of, pc, bridgeVars, summary, stopped, guard, tool, traceVars>>

-----------------------------------------------------------------------------
(* The children and their hooks                                            *)

\* It succeeds with a summary, or it fails; a child that was told may be either.
ChildEnds(c) ==
  /\ child[c] \in {"running", "told"}
  /\ \/ child' = [child EXCEPT ![c] = "failed"] /\ UNCHANGED summary
     \/ /\ child' = [child EXCEPT ![c] = "done"]
        /\ \E s \in Summaries : summary' = [summary EXCEPT ![c] = s]
  /\ UNCHANGED <<of, pc, bridgeVars, stopped, guard, tool, traceVars, abortVars>>

\* tool_handler: capability and project are read under the lock ...
ToolLooks(c) ==
  /\ child[c] \in {"running", "told"} /\ tool[c] = "none"
  /\ guard[c] # None
  /\ tool' = [tool EXCEPT ![c] = "looked"]
  /\ UNCHANGED <<of, pc, bridgeVars, child, summary, stopped, guard, traceVars, abortVars>>

\* ... and the client is made under it again.  The child may have stopped
\* between, its tool call still on its thread: nobody closes that client.
ToolOpens(c) ==
  /\ tool[c] = "looked"
  /\ tool' = [tool EXCEPT ![c] = IF c \in stopped THEN "orphan" ELSE "client"]
  /\ UNCHANGED <<of, pc, bridgeVars, child, summary, stopped, guard, traceVars, abortVars>>

LastEvents(s) ==
  IF Len(s) > MaxEvents THEN SubSeq(s, Len(s) - MaxEvents + 1, Len(s)) ELSE s

StopCloses(c) == IF tool[c] = "client" THEN "none" ELSE tool[c]

\* _on_subagent_stop
StopHook(c) ==
  /\ Terminal(c) /\ c \notin stopped
  /\ stopped' = stopped \cup {c}
  /\ guard' = [guard EXCEPT ![c] = None]
  /\ tool' = [tool EXCEPT ![c] = StopCloses(c)]
  /\ events' = LastEvents(Append(events, c))
  /\ UNCHANGED <<of, pc, bridgeVars, child, summary, begun, trace, abortVars>>

-----------------------------------------------------------------------------
Next ==
  \/ \E v \in Virtual : Abort(v)
  \/ \E o \in Others : BeginOther(o)
  \/ AbortLooks \/ AbortCancels
  \/ \E p \in Prompts, v \in Virtual : Prompt(p, v)
  \/ \E p \in Prompts :
       Callback(p) \/ ChildEnds(p) \/ ToolLooks(p) \/ ToolOpens(p) \/ StopHook(p)

Spec == Init /\ [][Next]_vars

\* A callback thread runs and its waits time out.  Nothing is assumed of the
\* children: one that is not told to stop may go on for ever.
LiveSpec == Spec /\ \A p \in Prompts : WF_vars(Callback(p))

-----------------------------------------------------------------------------
\* A running child is held to the capability of the task it was launched for,
\* from its first tool call on, however many launches cross; and once it has
\* stopped neither its capability nor a tool client stays, but for a tool call
\* that the stop overtook.
ChildGuarded ==
  \A c \in Prompts :
    /\ child[c] \in {"running", "told"} => guard[c] = c
    /\ c \in stopped => guard[c] = None /\ tool[c] # "client"

\* "This makes cancellation addressable before the long prompt callback returns
\* its final result": an abort finds every child that is being waited for,
\* unless two prompts of one session were in the map together.
AbortReaches ==
  \A p \in Prompts :
    pc[p] = "wait" => handles[of[p]] = p \/ p \in overlap

\* A prompt is answered by the child launched for it and no other ("must not
\* reuse the correlation id"), unless the map has dropped the session's launch
\* number, which then starts again; even so by a child of its own session.  Its
\* tool history is that child's, or that of one that stopped since the prompt
\* began and gave the very same answer.
AnswerIsOwn ==
  \A p \in Prompts :
    /\ childOf[p] \notin {None, p} => of[p] \in evicted /\ of[childOf[p]] = of[p]
    /\ trace[p] \notin {None, childOf[p]} =>
         trace[p] \notin begun[p] /\ summary[trace[p]] = summary[childOf[p]]

\* No child goes on for ever by itself: it ends or it is told to, unless the
\* wait for it raised, after which nobody cancels it.
NoChildForever ==
  \A c \in Prompts : child[c] = "running" ~> child[c] # "running" \/ c \in unwatched
===============================================================================
