-------------------------- MODULE DreamerBridgeProofs --------------------------
(***************************************************************************)
(* Proofs about DreamerBridge, for any number of prompts, sessions,        *)
(* retained stop events and kept launch numbers.                           *)
(***************************************************************************)
EXTENDS DreamerBridge, SequenceTheorems, TLAPS

(* The inductive invariant.                                                *)

Labels == {"off", "asked", "launch", "register", "wait", "pop", "raise", "trace", "over"}
States == {"none", "running", "told", "done", "failed"}
Alive  == {"running", "told"}
Mapped == {"wait", "pop", "raise"}

BridgeType ==
  /\ of \in [Prompts -> Virtual \cup {None}]
  /\ pc \in [Prompts -> Labels]
  /\ attrs \in [Prompts -> Prompts \cup {None}]
  /\ seq \in [Virtual -> Nat] /\ evicted \in SUBSET Virtual
  /\ corr \in [Prompts -> Nat]
  /\ childOf \in [Prompts -> Prompts \cup {None}]
  /\ handles \in [Virtual -> Prompts \cup {None}]
  /\ overlap \in SUBSET Prompts
  /\ \A p \in Prompts : pc[p] # "off" => of[p] \in Virtual
  /\ target \in Prompts \cup {None} /\ abort \in Virtual \cup {None}

ChildType ==
  /\ child \in [Prompts -> States]
  /\ summary \in [Prompts -> Summaries \cup {None}]
  /\ guard \in [Prompts -> Prompts \cup {None}]
  /\ tool \in [Prompts -> {"none", "looked", "client", "orphan"}]
  /\ stopped \in SUBSET Prompts
  /\ events \in Seq(stopped)
  /\ begun \in [Prompts -> SUBSET Prompts]
  /\ trace \in [Prompts -> Prompts \cup {None}]

\* The launches of a session whose number was never dropped have different
\* numbers, so that none is answered with a retained child.
Numbered ==
  /\ \A p \in Prompts : pc[p] \in {"off", "asked"} => corr[p] = 0
  /\ \A p \in Prompts :
       corr[p] > 0 /\ of[p] \notin evicted => of[p] \in Virtual /\ corr[p] <= seq[of[p]]
  /\ \A p, q \in Prompts :
       p # q /\ of[p] = of[q] /\ corr[p] > 0 /\ of[p] \notin evicted => corr[p] # corr[q]
  /\ \A p \in Prompts : pc[p] = "launch" => corr[p] > 0
  /\ \A v \in Virtual : seq[v] > 0 => v \in Listed(order)

\* A prompt that has a child has its own, or that of another prompt of a
\* session whose number was dropped.
OwnChild ==
  \A p \in Prompts :
    /\ childOf[p] \notin {None, p} => of[p] \in evicted /\ of[childOf[p]] = of[p]
    /\ childOf[p] # None => childOf[p] \in Prompts /\ child[childOf[p]] # "none"
    /\ child[p] # "none" => childOf[p] = p
    /\ pc[p] \in {"off", "asked", "launch"} => childOf[p] = None
    /\ pc[p] \in {"register", "wait", "pop", "raise", "trace"} => childOf[p] # None

\* The launching thread's attributes are its own prompt's; a stopped child is
\* at its end.
Attributed ==
  /\ \A p \in Prompts : pc[p] = "launch" => attrs[p] = p
  /\ \A c \in stopped : child[c] \in {"done", "failed"}

\* Prompts whose stays in the map overlap know of it.
Overlapped ==
  \A p, q \in Prompts :
    p # q /\ of[p] = of[q] /\ pc[p] \in Mapped /\ pc[q] \in Mapped => p \in overlap

\* A trace is taken last, when both children have ended.
TraceIsFinal ==
  \A p \in Prompts :
    /\ pc[p] = "trace" => child[childOf[p]] = "done"
    /\ trace[p] # None =>
         /\ pc[p] = "over" /\ childOf[p] # None
         /\ child[childOf[p]] = "done" /\ child[trace[p]] \in {"done", "failed"}

IInv ==
  /\ BridgeType /\ ChildType
  /\ Numbered /\ OwnChild
  /\ Attributed /\ ChildGuarded
  /\ Overlapped /\ AbortReaches
  /\ TraceIsFinal /\ AnswerIsOwn

-----------------------------------------------------------------------------
LEMMA PromptsAreNaturals == Prompts \subseteq Nat \ {0} /\ None \notin Prompts
BY NoneAssumption, BoundsAssumption DEF Prompts

LEMMA InitInv == Init => IInv
<1> SUFFICES ASSUME Init PROVE IInv
  OBVIOUS
<1>1. BridgeType
  BY DEF Init, BridgeType, Labels
<1>2. ChildType
  <2>1. events \in Seq(stopped)
    BY DEF Init
  <2> QED BY <2>1 DEF Init, ChildType, States
<1>3. Numbered /\ OwnChild /\ Attributed /\ ChildGuarded
  BY PromptsAreNaturals DEF Init, Numbered, OwnChild, Attributed, ChildGuarded
<1>4. Overlapped /\ AbortReaches /\ TraceIsFinal /\ AnswerIsOwn
  BY DEF Init, Overlapped, Mapped, AbortReaches, TraceIsFinal, AnswerIsOwn
<1> QED BY <1>1, <1>2, <1>3, <1>4 DEF IInv

-----------------------------------------------------------------------------
(* Types                                                                   *)

\* What a launch does to the numbers.
LEMMA CountedDoes ==
  ASSUME BridgeType, NEW v, Counted(v)
  PROVE  /\ seq' \in [Virtual -> Nat] /\ evicted' \in SUBSET Virtual /\ evicted \subseteq evicted'
         /\ \A w \in Virtual : seq'[w] > 0 => w \in Listed(order')
         /\ \A w \in Virtual : w \notin evicted' /\ w \in Listed(order) \cup {v} =>
              seq'[w] = IF w = v THEN seq[w] + 1 ELSE seq[w]
<1> DEFINE E == Virtual \cap ((Listed(order) \cup {v}) \ Listed(order'))
<1>1. /\ seq' = [w \in Virtual |-> IF w \notin Listed(order') THEN 0
                               ELSE IF w = v THEN seq[w] + 1 ELSE seq[w]]
      /\ evicted' = evicted \cup E
  BY DEF Counted, NextSeq
<1>2. \A w \in Virtual : w \notin evicted' /\ w \in Listed(order) \cup {v} => w \in Listed(order')
  BY <1>1
<1>3. \A w \in Virtual : seq[w] \in Nat
  BY DEF BridgeType
<1>4. evicted' \in SUBSET Virtual /\ evicted \subseteq evicted'
  BY <1>1 DEF BridgeType
<1> HIDE DEF E
<1>5. seq' \in [Virtual -> Nat]
  BY <1>1, <1>3
<1>6. \A w \in Virtual : seq'[w] > 0 => w \in Listed(order')
  BY <1>1, <1>3
<1>7. \A w \in Virtual : w \notin evicted' /\ w \in Listed(order) \cup {v} =>
              seq'[w] = IF w = v THEN seq[w] + 1 ELSE seq[w]
  BY <1>1, <1>2
<1> QED BY <1>4, <1>5, <1>6, <1>7

LEMMA BridgeTypeStep ==
  ASSUME BridgeType, [Next]_vars
  PROVE  BridgeType'
<1>1. ASSUME UNCHANGED <<of, pc, bridgeVars, abortVars>> PROVE BridgeType'
  BY <1>1 DEF BridgeType, bridgeVars, seqVars, abortVars
<1>2. ASSUME NEW p \in Prompts, NEW v \in Virtual, Prompt(p, v) PROVE BridgeType'
  BY <1>2 DEF Prompt, Goto, BridgeType, Labels, bridgeVars, seqVars, abortVars
<1>3. CASE \E v \in Virtual : Abort(v)
  BY <1>3 DEF Abort, BridgeType, bridgeVars, seqVars
<1>4. CASE AbortLooks \/ AbortCancels
  BY <1>4 DEF AbortLooks, AbortCancels, BridgeType, bridgeVars, seqVars
<1>5. ASSUME NEW p \in Prompts, Begin(p) \/ LaunchFails(p) \/ Register(p) \/ Pop(p) PROVE BridgeType'
  <2>1. pc' \in [Prompts -> Labels] /\ pc[p] # "off" /\ UNCHANGED of
        /\ \A q \in Prompts : q # p => pc'[q] = pc[q]
    BY <1>5 DEF Begin, LaunchFails, Register, Pop, Over, Goto, BridgeType, Labels
  <2>2. of[p] \in Virtual
    BY <2>1 DEF BridgeType
  <2>3. CASE Begin(p)
    <3>1. attrs' \in [Prompts -> Prompts \cup {None}] /\ corr' \in [Prompts -> Nat]
      BY <2>2, <2>3 DEF Begin, BridgeType, LaunchLocal, NextSeq
    <3>2. seq' \in [Virtual -> Nat] /\ evicted' \in SUBSET Virtual
      BY <2>2, <2>3, CountedDoes DEF Begin, BridgeType
    <3> QED BY <2>1, <2>2, <2>3, <3>1, <3>2 DEF Begin, BridgeType, abortVars
  <2>4. CASE LaunchFails(p)
    BY <2>1, <2>2, <2>4 DEF LaunchFails, BridgeType, LaunchLocal, seqVars, abortVars
  <2>5. CASE Register(p)
    <3>1. overlap' \in SUBSET Prompts
      BY <2>5 DEF Register, InMap, BridgeType
    <3> QED BY <2>1, <2>2, <2>5, <3>1 DEF Register, Registered, BridgeType, seqVars, abortVars
  <2>6. CASE Pop(p)
    BY <2>1, <2>2, <2>6 DEF Pop, BridgeType, seqVars, abortVars
  <2> QED BY <1>5, <2>3, <2>4, <2>5, <2>6
<1>6. ASSUME NEW p \in Prompts, Launch(p) PROVE BridgeType'
  <2>1. childOf' \in [Prompts -> Prompts \cup {None}]
    BY <1>6 DEF Launch, Retained, BridgeType
  <2> QED BY <1>6, <2>1 DEF Launch, Goto, LaunchLocal, BridgeType, Labels, seqVars, abortVars
<1>7. ASSUME NEW p \in Prompts,
             WaitReturns(p) \/ WaitTimesOut(p) \/ WaitFails(p) \/ Trace(p) \/ NoTrace(p)
      PROVE  BridgeType'
  BY <1>7 DEF WaitReturns, WaitTimesOut, WaitFails, Trace, NoTrace, Over, Goto, BridgeType, Labels,
              bridgeVars, seqVars, abortVars
<1>8. ASSUME NEW c \in Prompts, ChildEnds(c) \/ ToolLooks(c) \/ ToolOpens(c) \/ StopHook(c)
      PROVE  BridgeType'
  BY <1>1, <1>8 DEF ChildEnds, ToolLooks, ToolOpens, StopHook
<1>9. ASSUME NEW o \in Others, BeginOther(o) PROVE BridgeType'
  BY <1>9, CountedDoes DEF BeginOther, BridgeType, abortVars
<1> QED BY <1>1, <1>2, <1>3, <1>4, <1>5, <1>6, <1>7, <1>8, <1>9 DEF Next, Callback, vars

LEMMA SeqGrows ==
  ASSUME NEW S, NEW T, S \subseteq T, NEW s \in Seq(S)
  PROVE  s \in Seq(T)
OBVIOUS

LEMMA LastEventsType ==
  ASSUME NEW S, NEW s \in Seq(S)
  PROVE  LastEvents(s) \in Seq(S)
<1>1. CASE Len(s) > MaxEvents
  <2>1. Len(s) \in Nat /\ MaxEvents \in Nat /\ MaxEvents > 0
    BY BoundsAssumption, LenProperties
  <2>2. (Len(s) - MaxEvents + 1)..Len(s) \subseteq 1..Len(s)
    BY <1>1, <2>1
  <2>3. \A i \in (Len(s) - MaxEvents + 1)..Len(s) : s[i] \in S
    BY <2>2, ElementOfSeq
  <2> QED BY <1>1, <2>1, <2>3, BoundsAssumption, LenProperties, SubSeqProperties DEF LastEvents
<1>2. CASE ~(Len(s) > MaxEvents)
  BY <1>2 DEF LastEvents
<1> QED BY <1>1, <1>2

LEMMA TakenOutType ==
  ASSUME NEW S, NEW s \in Seq(S), NEW i \in DOMAIN s
  PROVE  SubSeq(s, 1, i - 1) \o SubSeq(s, i + 1, Len(s)) \in Seq(S)
<1>1. i \in 1..Len(s) /\ Len(s) \in Nat
  BY LenProperties
<1>2. SubSeq(s, 1, i - 1) \in Seq(S)
  <2>1. \A j \in 1..(i - 1) : s[j] \in S
    BY <1>1
  <2> QED BY <1>1, <2>1, SubSeqProperties
<1>3. SubSeq(s, i + 1, Len(s)) \in Seq(S)
  <2>1. \A j \in (i + 1)..Len(s) : s[j] \in S
    BY <1>1
  <2> QED BY <1>1, <2>1, SubSeqProperties
<1> QED BY <1>2, <1>3, ConcatProperties

LEMMA ChildTypeStep ==
  ASSUME BridgeType, ChildType, OwnChild, [Next]_vars
  PROVE  ChildType'
<1>1. ASSUME UNCHANGED <<childVars, traceVars>> PROVE ChildType'
  BY <1>1 DEF ChildType, childVars, traceVars
<1>2. ASSUME NEW p \in Prompts, NEW v \in Virtual, Prompt(p, v) PROVE ChildType'
  BY <1>2 DEF Prompt, ChildType, childVars
<1>3. CASE \E v \in Virtual : Abort(v)
  BY <1>1, <1>3 DEF Abort
<1>4. ASSUME NEW c, Tell(c), UNCHANGED <<summary, stopped, guard, tool, traceVars>> PROVE ChildType'
  BY <1>4 DEF Tell, ChildType, States, traceVars
<1>5. CASE AbortLooks \/ AbortCancels
  BY <1>1, <1>4, <1>5 DEF AbortLooks, AbortCancels
<1>6. ASSUME NEW p \in Prompts,
             Begin(p) \/ LaunchFails(p) \/ Register(p) \/ WaitReturns(p) \/ WaitFails(p)
             \/ Pop(p) \/ NoTrace(p)
      PROVE  ChildType'
  BY <1>1, <1>6 DEF Begin, LaunchFails, Register, WaitReturns, WaitFails, Pop, NoTrace
<1>7. ASSUME NEW p \in Prompts, WaitTimesOut(p) PROVE ChildType'
  BY <1>4, <1>7 DEF WaitTimesOut, OnTimeout
<1>8. ASSUME NEW p \in Prompts, Launch(p) PROVE ChildType'
  <2>1. child' \in [Prompts -> States] /\ guard' \in [Prompts -> Prompts \cup {None}]
    BY <1>8 DEF Launch, LaunchLocal, BridgeType, ChildType, States
  <2> QED BY <1>8, <2>1 DEF Launch, ChildType, traceVars
<1>9. ASSUME NEW p \in Prompts, Trace(p) PROVE ChildType'
  <2>1. PICK i \in DOMAIN events :
          /\ trace' = [trace EXCEPT ![p] = events[i]]
          /\ events' = SubSeq(events, 1, i - 1) \o SubSeq(events, i + 1, Len(events))
    BY <1>9 DEF Trace
  <2>2. UNCHANGED <<childVars, begun>>
    BY <1>9 DEF Trace
  <2>3. events' \in Seq(stopped)
    BY <2>1, TakenOutType DEF ChildType
  <2>4. events[i] \in Prompts
    BY DEF ChildType
  <2> QED BY <2>1, <2>2, <2>3, <2>4 DEF ChildType, childVars
<1>10. ASSUME NEW c \in Prompts, ChildEnds(c) \/ ToolLooks(c) \/ ToolOpens(c) PROVE ChildType'
  BY <1>10 DEF ChildEnds, ToolLooks, ToolOpens, ChildType, States, traceVars
<1>11. ASSUME NEW c \in Prompts, StopHook(c) PROVE ChildType'
  <2>1. events' \in Seq(stopped')
    <3>1. events \in Seq(stopped') /\ c \in stopped'
      BY <1>11, SeqGrows DEF StopHook, ChildType
    <3>2. Append(events, c) \in Seq(stopped')
      BY <3>1, AppendProperties
    <3> QED BY <1>11, <3>2, LastEventsType DEF StopHook
  <2>2. /\ UNCHANGED <<child, summary, begun, trace>> /\ stopped' \in SUBSET Prompts
        /\ guard' \in [Prompts -> Prompts \cup {None}]
        /\ tool' \in [Prompts -> {"none", "looked", "client", "orphan"}]
    BY <1>11 DEF StopHook, StopCloses, ChildType
  <2> QED BY <2>1, <2>2 DEF ChildType
<1>12. CASE \E o \in Others : BeginOther(o)
  BY <1>1, <1>12 DEF BeginOther
<1> QED BY <1>1, <1>2, <1>3, <1>5, <1>6, <1>7, <1>8, <1>9, <1>10, <1>11, <1>12
        DEF Next, Callback, vars

-----------------------------------------------------------------------------
(* The launches of a session                                               *)

LEMMA NumberedStep ==
  ASSUME BridgeType, Numbered, [Next]_vars
  PROVE  Numbered'
<1>1. ASSUME UNCHANGED <<of, pc, seqVars, corr>> PROVE Numbered'
  BY <1>1 DEF Numbered, seqVars, Listed
<1>2. ASSUME NEW p \in Prompts, NEW v \in Virtual, Prompt(p, v) PROVE Numbered'
  <2>1. /\ pc[p] = "off" /\ corr[p] = 0
        /\ of' = [of EXCEPT ![p] = v] /\ pc' = [pc EXCEPT ![p] = "asked"]
        /\ UNCHANGED <<order, seq, evicted, corr>>
    BY <1>2 DEF Prompt, Goto, bridgeVars, seqVars, Numbered
  <2> QED BY <2>1 DEF Numbered, BridgeType, Listed
<1>3. ASSUME NEW p \in Prompts, Begin(p) PROVE Numbered'
  <2>1. /\ pc[p] = "asked" /\ corr[p] = 0 /\ of[p] \in Virtual /\ UNCHANGED of
        /\ Counted(of[p])
        /\ corr' = [corr EXCEPT ![p] = seq[of[p]] + 1]
        /\ pc' = [pc EXCEPT ![p] = "launch"]
    BY <1>3 DEF Begin, NextSeq, Goto, Numbered, BridgeType
  <2>2. /\ seq' \in [Virtual -> Nat] /\ evicted \subseteq evicted'
        /\ \A w \in Virtual : seq'[w] > 0 => w \in Listed(order')
        /\ \A w \in Virtual : w \notin evicted' /\ w \in Listed(order) \cup {of[p]} =>
             seq'[w] = IF w = of[p] THEN seq[w] + 1 ELSE seq[w]
    BY <2>1, CountedDoes
  <2>3. corr'[p] = seq[of[p]] + 1 /\ \A q \in Prompts : q # p => corr'[q] = corr[q]
    BY <2>1 DEF BridgeType
  <2>4. /\ \A q \in Prompts : corr[q] \in Nat
        /\ \A w \in Virtual : seq[w] \in Nat /\ seq'[w] \in Nat
    BY <2>2 DEF BridgeType
  <2>5. \A w \in Virtual : w \notin evicted' => seq[w] <= seq'[w]
    <3>1. SUFFICES ASSUME NEW w \in Virtual, w \notin evicted' PROVE seq[w] <= seq'[w]
      OBVIOUS
    <3>2. CASE seq[w] > 0
      <4>1. w \in Listed(order)
        BY <3>2 DEF Numbered
      <4> QED BY <2>2, <2>4, <3>1, <4>1
    <3>3. CASE seq[w] = 0
      BY <2>4, <3>3
    <3> QED BY <2>4, <3>2, <3>3
  <2>6. \A q \in Prompts : q # p /\ of[q] = of[p] /\ of[p] \notin evicted' => corr[q] < corr'[p]
    BY <2>1, <2>2, <2>3, <2>4 DEF Numbered
  <2>7. \A q \in Prompts :
          corr'[q] > 0 /\ of[q] \notin evicted' => of[q] \in Virtual /\ corr'[q] <= seq'[of[q]]
    <3>1. SUFFICES ASSUME NEW q \in Prompts, corr'[q] > 0, of[q] \notin evicted'
                   PROVE  of[q] \in Virtual /\ corr'[q] <= seq'[of[q]]
      OBVIOUS
    <3>2. CASE q = p
      BY <2>1, <2>2, <2>3, <2>4, <3>1, <3>2
    <3>3. CASE q # p
      <4>1. corr'[q] = corr[q] /\ of[q] \notin evicted
        BY <2>2, <2>3, <3>1, <3>3
      <4>2. of[q] \in Virtual /\ corr[q] <= seq[of[q]]
        BY <3>1, <4>1 DEF Numbered
      <4> QED BY <2>4, <2>5, <3>1, <4>1, <4>2
    <3> QED BY <3>2, <3>3
  <2>8. \A q, r \in Prompts :
          q # r /\ of[q] = of[r] /\ corr'[q] > 0 /\ of[q] \notin evicted' => corr'[q] # corr'[r]
    <3>1. SUFFICES ASSUME NEW q \in Prompts, NEW r \in Prompts, q # r, of[q] = of[r],
                          corr'[q] > 0, of[q] \notin evicted'
                   PROVE  corr'[q] # corr'[r]
      OBVIOUS
    <3>2. CASE q = p \/ r = p
      BY <2>3, <2>4, <2>6, <3>1, <3>2
    <3>3. CASE q # p /\ r # p
      BY <2>2, <2>3, <3>1, <3>3 DEF Numbered
    <3> QED BY <3>2, <3>3
  <2>9. \A q \in Prompts : /\ pc'[q] \in {"off", "asked"} => corr'[q] = 0
                           /\ pc'[q] = "launch" => corr'[q] > 0
    BY <2>1, <2>3, <2>4 DEF Numbered, BridgeType
  <2> QED BY <2>1, <2>2, <2>7, <2>8, <2>9 DEF Numbered
<1>4. ASSUME NEW p \in Prompts, pc[p] \notin {"off", "asked"}, UNCHANGED <<of, seqVars, corr>>,
             NEW l \in {"register", "wait", "pop", "raise", "trace", "over"},
             pc' = [pc EXCEPT ![p] = l]
      PROVE  Numbered'
  BY <1>4 DEF Numbered, BridgeType, seqVars, Listed
<1>5. ASSUME NEW p \in Prompts, Launch(p) \/ LaunchFails(p) \/ Register(p) \/ WaitReturns(p)
             \/ WaitTimesOut(p) \/ WaitFails(p) \/ Pop(p) \/ Trace(p) \/ NoTrace(p)
      PROVE  Numbered'
  BY <1>4, <1>5 DEF Launch, LaunchFails, Register, WaitReturns, WaitTimesOut, WaitFails, Pop, Trace,
                    NoTrace, Over, Goto, bridgeVars
<1>6. CASE (\E v \in Virtual : Abort(v)) \/ AbortLooks \/ AbortCancels
  BY <1>1, <1>6 DEF Abort, AbortLooks, AbortCancels, bridgeVars
<1>7. ASSUME NEW c \in Prompts, ChildEnds(c) \/ ToolLooks(c) \/ ToolOpens(c) \/ StopHook(c)
      PROVE  Numbered'
  BY <1>1, <1>7 DEF ChildEnds, ToolLooks, ToolOpens, StopHook, bridgeVars
<1>8. CASE UNCHANGED vars
  BY <1>1, <1>8 DEF vars, bridgeVars
<1>9. ASSUME NEW o \in Others, BeginOther(o) PROVE Numbered'
  <2>1. UNCHANGED <<of, pc, corr>> /\ Counted(o)
    BY <1>9 DEF BeginOther
  <2>2. /\ seq' \in [Virtual -> Nat] /\ evicted \subseteq evicted'
        /\ \A w \in Virtual : seq'[w] > 0 => w \in Listed(order')
        /\ \A w \in Virtual : w \notin evicted' /\ w \in Listed(order) => seq'[w] = seq[w]
    BY <2>1, CountedDoes, SessionsAssumption
  <2>3. ASSUME NEW q \in Prompts, corr[q] > 0, of[q] \notin evicted'
        PROVE  of[q] \in Virtual /\ corr[q] <= seq'[of[q]]
    <3>1. of[q] \in Virtual /\ corr[q] <= seq[of[q]]
      BY <2>2, <2>3 DEF Numbered
    <3>2. seq[of[q]] > 0
      BY <2>3, <3>1 DEF BridgeType
    <3>3. of[q] \in Listed(order)
      BY <3>1, <3>2 DEF Numbered
    <3> QED BY <2>2, <2>3, <3>1, <3>3
  <2> QED BY <2>1, <2>2, <2>3 DEF Numbered
<1> QED BY <1>2, <1>3, <1>5, <1>6, <1>7, <1>8, <1>9 DEF Next, Callback

\* Only a session whose number was dropped has a launch that is answered with
\* a child Hermes has retained.
LEMMA RetainedAfterEviction ==
  ASSUME Numbered, NEW p \in Prompts, pc[p] = "launch", of[p] \notin evicted
  PROVE  Retained(p) = {}
BY DEF Numbered, Retained

\* A launch starts a child and guards it, or is answered with another's.
LEMMA LaunchDoes ==
  ASSUME BridgeType, ChildType, Numbered, NEW p \in Prompts, Launch(p)
  PROVE  /\ pc[p] = "launch" /\ pc' = [pc EXCEPT ![p] = "register"]
         /\ attrs' = [attrs EXCEPT ![p] = None]
         /\ UNCHANGED <<of, seqVars, corr, handles, overlap, unwatched, summary, stopped,
                        tool, traceVars, abortVars>>
         /\ \/ /\ childOf' = [childOf EXCEPT ![p] = p]
               /\ child' = [child EXCEPT ![p] = "running"]
               /\ guard' = [guard EXCEPT ![p] = attrs[p]]
            \/ /\ UNCHANGED <<child, guard>> /\ of[p] \in evicted
               /\ \E q \in Prompts : /\ q # p /\ of[q] = of[p] /\ childOf[q] = q
                                     /\ childOf' = [childOf EXCEPT ![p] = q]
<1>1. CASE Retained(p) = {}
  BY <1>1 DEF Launch, LaunchLocal, Goto
<1>2. CASE Retained(p) # {}
  <2>1. PICK q \in Retained(p) : childOf' = [childOf EXCEPT ![p] = q]
    BY <1>2 DEF Launch
  <2>2. q \in Prompts /\ q # p /\ of[q] = of[p] /\ childOf[q] = q
    BY <2>1 DEF Retained
  <2>3. of[p] \in evicted
    BY <1>2, RetainedAfterEviction DEF Launch
  <2> QED BY <1>2, <2>1, <2>2, <2>3 DEF Launch, LaunchLocal, Goto
<1> QED BY <1>1, <1>2

\* Ends of life: what a step may do to a child.
LEMMA TellDoes ==
  ASSUME ChildType, NEW c \in Prompts, Tell(c)
  PROVE  /\ child' \in [Prompts -> States]
         /\ \A d \in Prompts : /\ child'[d] = "none" <=> child[d] = "none"
                               /\ child'[d] \in Alive <=> child[d] \in Alive
                               /\ child[d] \notin Alive => child'[d] = child[d]
BY DEF Tell, ChildType, States, Alive

LEMMA EvictedGrows ==
  ASSUME [Next]_vars
  PROVE  evicted \subseteq evicted'
<1>1. ASSUME NEW v, Counted(v) PROVE evicted \subseteq evicted'
  BY <1>1 DEF Counted
<1>2. ASSUME NEW p \in Prompts, Callback(p) PROVE evicted \subseteq evicted'
  BY <1>1, <1>2 DEF Callback, Begin, Launch, LaunchFails, Register, WaitReturns, WaitTimesOut,
                    WaitFails, Pop, Trace, NoTrace, bridgeVars, seqVars
<1>3. ASSUME UNCHANGED evicted PROVE evicted \subseteq evicted'
  BY <1>3
<1> QED BY <1>1, <1>2, <1>3 DEF Next, Prompt, Abort, AbortLooks, AbortCancels, BeginOther,
             ChildEnds, ToolLooks, ToolOpens, StopHook, bridgeVars, seqVars, vars

\* The children stay whose they are.
LEMMA OwnChildStays ==
  ASSUME BridgeType, OwnChild, evicted \subseteq evicted', UNCHANGED <<of, childOf>>,
         \A d \in Prompts : child'[d] = "none" <=> child[d] = "none",
         NEW p \in Prompts, NEW l \in Labels, pc' = [pc EXCEPT ![p] = l] \/ pc' = pc,
         l \in {"asked", "launch"} => pc[p] \in {"off", "asked"},
         l \in {"wait", "pop", "raise", "trace"} => pc[p] \in {"register", "wait", "pop", "raise"},
         l \notin {"off", "register"}
  PROVE  OwnChild'
<1>1. \A q \in Prompts : q # p => pc'[q] = pc[q]
  BY DEF BridgeType
<1>2. pc'[p] = l \/ pc'[p] = pc[p]
  BY DEF BridgeType
<1> QED BY <1>1, <1>2 DEF OwnChild, Labels

LEMMA OwnChildStep ==
  ASSUME BridgeType, ChildType, Numbered, OwnChild, [Next]_vars
  PROVE  OwnChild'
<1>0. evicted \subseteq evicted'
  BY EvictedGrows
<1>1. ASSUME UNCHANGED <<of, pc, childOf>>,
             \A d \in Prompts : child'[d] = "none" <=> child[d] = "none"
      PROVE  OwnChild'
  BY <1>0, <1>1 DEF OwnChild
<1>2. ASSUME NEW p \in Prompts, NEW v \in Virtual, Prompt(p, v) PROVE OwnChild'
  <2>1. /\ pc[p] = "off" /\ pc' = [pc EXCEPT ![p] = "asked"] /\ of' = [of EXCEPT ![p] = v]
        /\ UNCHANGED <<childOf, child>>
    BY <1>2 DEF Prompt, Goto, bridgeVars, childVars
  <2>2. childOf[p] = None /\ child[p] = "none"
    BY <2>1, PromptsAreNaturals DEF OwnChild
  <2>3. \A q \in Prompts : childOf[q] # p
    BY <2>2, PromptsAreNaturals DEF OwnChild
  <2>4. \A q \in Prompts : q # p => of'[q] = of[q] /\ pc'[q] = pc[q]
    BY <2>1
  <2>5. pc'[p] = "asked"
    BY <2>1 DEF BridgeType
  <2> QED BY <1>0, <2>1, <2>2, <2>3, <2>4, <2>5 DEF OwnChild
<1>3. ASSUME NEW p \in Prompts, Begin(p) PROVE OwnChild'
  BY <1>0, <1>3, OwnChildStays DEF Begin, Goto, childVars, Labels
<1>4. ASSUME NEW p \in Prompts, LaunchFails(p) \/ Register(p) \/ WaitReturns(p)
             \/ WaitFails(p) \/ Pop(p) \/ Trace(p) \/ NoTrace(p)
      PROVE  OwnChild'
  <2>1. UNCHANGED <<of, childOf, child>>
    BY <1>4 DEF LaunchFails, Register, WaitReturns, WaitFails, Pop, Trace, NoTrace,
                bridgeVars, childVars
  <2>2. \E l \in {"wait", "pop", "raise", "trace", "over"} :
           /\ pc' = [pc EXCEPT ![p] = l]
           /\ l # "over" => pc[p] \in {"register", "wait", "pop", "raise"}
    BY <1>4 DEF LaunchFails, Register, WaitReturns, WaitFails, Pop, Trace, NoTrace, Over, Goto
  <2> QED BY <1>0, <2>1, <2>2, OwnChildStays DEF Labels
<1>5. ASSUME NEW p \in Prompts, Launch(p) PROVE OwnChild'
  <2>1. /\ pc[p] = "launch" /\ pc' = [pc EXCEPT ![p] = "register"] /\ UNCHANGED of
        /\ childOf[p] = None /\ child[p] = "none"
    BY <1>5, LaunchDoes, PromptsAreNaturals DEF OwnChild
  <2>2. CASE childOf' = [childOf EXCEPT ![p] = p] /\ child' = [child EXCEPT ![p] = "running"]
    <3>1. /\ childOf'[p] = p /\ child'[p] = "running" /\ pc'[p] = "register"
          /\ \A q \in Prompts : q # p =>
               childOf'[q] = childOf[q] /\ child'[q] = child[q] /\ pc'[q] = pc[q]
      BY <2>1, <2>2 DEF BridgeType, ChildType
    <3>2. \A d \in Prompts : child[d] # "none" => child'[d] # "none"
      BY <3>1
    <3>3. ASSUME NEW q \in Prompts, childOf'[q] # None
          PROVE  childOf'[q] \in Prompts /\ child'[childOf'[q]] # "none"
      BY <3>1, <3>2, <3>3 DEF OwnChild
    <3> QED BY <1>0, <2>1, <3>1, <3>3, PromptsAreNaturals DEF OwnChild
  <2>3. ASSUME NEW q \in Prompts, q # p, of[q] = of[p], childOf[q] = q, of[p] \in evicted,
               UNCHANGED child, childOf' = [childOf EXCEPT ![p] = q]
        PROVE  OwnChild'
    <3>1. /\ childOf'[p] = q /\ pc'[p] = "register" /\ child[q] # "none"
          /\ \A r \in Prompts : r # p => childOf'[r] = childOf[r] /\ pc'[r] = pc[r]
      BY <2>1, <2>3, PromptsAreNaturals DEF BridgeType, OwnChild
    <3> QED BY <1>0, <2>1, <2>3, <3>1, PromptsAreNaturals DEF OwnChild
  <2> QED BY <1>5, <2>2, <2>3, LaunchDoes
<1>6. ASSUME NEW p \in Prompts, WaitTimesOut(p) PROVE OwnChild'
  <2>1. childOf[p] \in Prompts /\ pc[p] = "wait" /\ pc' = [pc EXCEPT ![p] = "raise"]
        /\ UNCHANGED <<of, childOf>> /\ Tell(childOf[p])
    BY <1>6 DEF WaitTimesOut, OnTimeout, Goto, bridgeVars, OwnChild
  <2> QED BY <1>0, <2>1, TellDoes, OwnChildStays DEF Labels
<1>7. CASE AbortCancels
  <2>1. UNCHANGED <<of, pc, childOf>> /\ \A d \in Prompts : child'[d] = "none" <=> child[d] = "none"
    BY <1>7 DEF AbortCancels, Tell, bridgeVars, ChildType
  <2> QED BY <1>1, <2>1
<1>8. ASSUME NEW c \in Prompts, ChildEnds(c) PROVE OwnChild'
  <2>1. UNCHANGED <<of, pc, childOf>> /\ \A d \in Prompts : child'[d] = "none" <=> child[d] = "none"
    BY <1>8 DEF ChildEnds, bridgeVars, ChildType
  <2> QED BY <1>1, <2>1
<1>9. CASE (\E v \in Virtual : Abort(v)) \/ AbortLooks \/ (\E o \in Others : BeginOther(o))
  BY <1>1, <1>9 DEF Abort, AbortLooks, BeginOther, bridgeVars, childVars
<1>10. ASSUME NEW c \in Prompts, ToolLooks(c) \/ ToolOpens(c) \/ StopHook(c) PROVE OwnChild'
  BY <1>1, <1>10 DEF ToolLooks, ToolOpens, StopHook, bridgeVars
<1>11. CASE UNCHANGED vars
  BY <1>1, <1>11 DEF vars, bridgeVars, childVars
<1> QED BY <1>2, <1>3, <1>4, <1>5, <1>6, <1>7, <1>8, <1>9, <1>10, <1>11 DEF Next, Callback

-----------------------------------------------------------------------------
(* The capability of a child                                               *)

Guarded == Attributed /\ ChildGuarded

LEMMA GuardedStep ==
  ASSUME BridgeType, ChildType, Numbered, OwnChild, Guarded, [Next]_vars
  PROVE  Guarded'
<1>1. ASSUME UNCHANGED <<pc, attrs, childVars>> PROVE Guarded'
  BY <1>1 DEF Guarded, Attributed, ChildGuarded, childVars
<1>2. ASSUME NEW p \in Prompts, NEW l \in Labels \ {"launch"}, pc' = [pc EXCEPT ![p] = l],
             \A q \in Prompts \ {p} : attrs'[q] = attrs[q], UNCHANGED childVars
      PROVE  Guarded'
  BY <1>2 DEF Guarded, Attributed, ChildGuarded, childVars, BridgeType
<1>3. ASSUME NEW p \in Prompts, NEW v \in Virtual, Prompt(p, v) PROVE Guarded'
  BY <1>2, <1>3 DEF Prompt, Goto, bridgeVars, Labels
<1>4. ASSUME NEW p \in Prompts, Begin(p) PROVE Guarded'
  BY <1>4 DEF Begin, Goto, LaunchLocal, Guarded, Attributed, ChildGuarded, childVars, BridgeType
<1>5. ASSUME NEW p \in Prompts, LaunchFails(p) \/ Register(p) \/ WaitReturns(p) \/ WaitFails(p)
             \/ Pop(p) \/ Trace(p) \/ NoTrace(p)
      PROVE  Guarded'
  <2>1. \A q \in Prompts \ {p} : attrs'[q] = attrs[q]
    BY <1>5 DEF LaunchFails, Register, WaitReturns, WaitFails, Pop, Trace, NoTrace, LaunchLocal,
                bridgeVars, BridgeType
  <2> QED BY <1>2, <1>5, <2>1 DEF LaunchFails, Register, WaitReturns, WaitFails, Pop, Trace,
                                  NoTrace, Over, Goto, Labels
<1>6. ASSUME NEW p \in Prompts, Launch(p) PROVE Guarded'
  <2>1. /\ pc[p] = "launch" /\ pc' = [pc EXCEPT ![p] = "register"]
        /\ attrs' = [attrs EXCEPT ![p] = None] /\ UNCHANGED <<stopped, tool>>
    BY <1>6, LaunchDoes
  <2>2. CASE /\ child' = [child EXCEPT ![p] = "running"]
             /\ guard' = [guard EXCEPT ![p] = attrs[p]]
    <3>1. child[p] = "none"
      BY <2>1, PromptsAreNaturals DEF OwnChild
    <3>2. p \notin stopped
      BY <3>1 DEF Guarded, Attributed
    <3>3. attrs[p] = p
      BY <2>1 DEF Guarded, Attributed
    <3>4. Attributed'
      BY <2>1, <2>2, <3>2 DEF Guarded, Attributed, BridgeType, ChildType
    <3>5. ChildGuarded'
      BY <2>1, <2>2, <3>2, <3>3 DEF Guarded, ChildGuarded, ChildType
    <3> QED BY <3>4, <3>5 DEF Guarded
  <2>3. CASE UNCHANGED <<child, guard>>
    <3>1. UNCHANGED childVars
      BY <1>6, <2>1, <2>3, LaunchDoes DEF childVars
    <3>2. \A q \in Prompts \ {p} : attrs'[q] = attrs[q]
      BY <2>1
    <3> QED BY <1>2, <2>1, <3>1, <3>2 DEF Labels
  <2> QED BY <1>6, <2>2, <2>3, LaunchDoes
<1>7. ASSUME NEW c \in Prompts, Tell(c), UNCHANGED <<attrs, stopped, guard, tool>>,
             \A q \in Prompts : pc'[q] = "launch" => pc[q] = "launch"
      PROVE  Guarded'
  <2>1. \A d \in Prompts : /\ child'[d] \in Alive <=> child[d] \in Alive
                           /\ child[d] \notin Alive => child'[d] = child[d]
    BY <1>7, TellDoes
  <2>2. Attributed'
    BY <1>7, <2>1 DEF Guarded, Attributed, Alive, ChildType
  <2>3. ChildGuarded'
    BY <1>7, <2>1 DEF Guarded, ChildGuarded, Alive
  <2> QED BY <2>2, <2>3 DEF Guarded
<1>8. ASSUME NEW p \in Prompts, WaitTimesOut(p) PROVE Guarded'
  <2>1. childOf[p] \in Prompts /\ Tell(childOf[p]) /\ UNCHANGED <<attrs, stopped, guard, tool>>
    BY <1>8 DEF WaitTimesOut, OnTimeout, OwnChild, bridgeVars
  <2>2. \A q \in Prompts : pc'[q] = "launch" => pc[q] = "launch"
    BY <1>8 DEF WaitTimesOut, Goto, BridgeType
  <2> QED BY <1>7, <2>1, <2>2
<1>9. ASSUME AbortCancels PROVE Guarded'
  <2>1. Tell(childOf[target]) /\ UNCHANGED <<pc, attrs, stopped, guard, tool>>
    BY <1>9 DEF AbortCancels, bridgeVars
  <2>2. CASE childOf[target] \in Prompts
    BY <1>7, <2>1, <2>2
  <2>3. CASE childOf[target] \notin Prompts
    <3>1. child' = child
      BY <2>1, <2>3 DEF Tell, ChildType
    <3> QED BY <1>1, <2>1, <3>1, <1>9 DEF AbortCancels, childVars
  <2> QED BY <2>2, <2>3
<1>10. ASSUME NEW c \in Prompts, ChildEnds(c) PROVE Guarded'
  BY <1>10 DEF ChildEnds, Guarded, Attributed, ChildGuarded, ChildType, bridgeVars
<1>11. ASSUME NEW c \in Prompts, ToolLooks(c) PROVE Guarded'
  BY <1>11 DEF ToolLooks, Guarded, Attributed, ChildGuarded, ChildType, bridgeVars
<1>12. ASSUME NEW c \in Prompts, ToolOpens(c) PROVE Guarded'
  BY <1>12 DEF ToolOpens, Guarded, Attributed, ChildGuarded, ChildType, bridgeVars
<1>13. ASSUME NEW c \in Prompts, StopHook(c) PROVE Guarded'
  BY <1>13 DEF StopHook, StopCloses, Terminal, Guarded, Attributed, ChildGuarded, ChildType,
               bridgeVars
<1>14. CASE (\E v \in Virtual : Abort(v)) \/ AbortLooks \/ (\E o \in Others : BeginOther(o))
  BY <1>1, <1>14 DEF Abort, AbortLooks, BeginOther, bridgeVars
<1>15. CASE UNCHANGED vars
  BY <1>1, <1>15 DEF vars, bridgeVars
<1> QED BY <1>3, <1>4, <1>5, <1>6, <1>8, <1>9, <1>10, <1>11, <1>12, <1>13, <1>14, <1>15
        DEF Next, Callback

-----------------------------------------------------------------------------
(* The handles                                                             *)

Reached == Overlapped /\ AbortReaches

LEMMA ReachedStep ==
  ASSUME BridgeType, Reached, [Next]_vars
  PROVE  Reached'
<1>1. ASSUME UNCHANGED <<of, pc, handles, overlap>> PROVE Reached'
  BY <1>1 DEF Reached, Overlapped, AbortReaches
<1>2. ASSUME NEW p \in Prompts, pc[p] \notin Mapped, NEW l \in Labels \ Mapped,
             pc' = [pc EXCEPT ![p] = l], \A q \in Prompts \ {p} : of'[q] = of[q],
             UNCHANGED <<handles, overlap>>
      PROVE  Reached'
  <2>1. \A q \in Prompts : pc'[q] \in Mapped => q # p /\ pc[q] = pc'[q] /\ of'[q] = of[q]
    BY <1>2 DEF BridgeType
  <2> QED BY <1>2, <2>1 DEF Reached, Overlapped, AbortReaches, Mapped
<1>3. ASSUME NEW p \in Prompts, NEW v \in Virtual, Prompt(p, v) PROVE Reached'
  <2>1. \A q \in Prompts \ {p} : of'[q] = of[q]
    BY <1>3 DEF Prompt, BridgeType
  <2> QED BY <1>2, <1>3, <2>1 DEF Prompt, Goto, bridgeVars, Labels, Mapped
<1>4. ASSUME NEW p \in Prompts, Begin(p) \/ LaunchFails(p) \/ Launch(p) \/ Trace(p) \/ NoTrace(p)
      PROVE  Reached'
  BY <1>2, <1>4 DEF Begin, LaunchFails, Launch, Trace, NoTrace, Over, Goto, bridgeVars, Labels,
                    Mapped
<1>5. ASSUME NEW p \in Prompts, Register(p) PROVE Reached'
  <2>1. /\ UNCHANGED of /\ handles' = [handles EXCEPT ![of[p]] = p]
        /\ pc[p] = "register" /\ pc' = [pc EXCEPT ![p] = "wait"]
        /\ overlap' = overlap \cup (IF InMap(of[p]) = {} THEN {} ELSE InMap(of[p]) \cup {p})
    BY <1>5 DEF Register, Registered, Goto
  <2>2. of[p] \in Virtual /\ handles'[of[p]] = p
    BY <2>1 DEF BridgeType
  <2>3. \A q \in Prompts \ {p} : pc'[q] = pc[q]
    BY <2>1 DEF BridgeType
  <2>4. \A q \in Prompts \ {p} :
          of[q] = of[p] /\ pc[q] \in Mapped => q \in overlap' /\ p \in overlap'
    BY <2>1 DEF InMap, Mapped
  <2>5. Overlapped'
    BY <2>1, <2>3, <2>4 DEF Reached, Overlapped, Mapped
  <2>6. \A q \in Prompts \ {p} : of[q] # of[p] => handles'[of[q]] = handles[of[q]]
    BY <2>1, <2>2 DEF BridgeType
  <2>7. AbortReaches'
    BY <2>1, <2>2, <2>3, <2>4, <2>6 DEF Reached, AbortReaches, Mapped
  <2> QED BY <2>5, <2>7 DEF Reached
<1>6. ASSUME NEW p \in Prompts, pc[p] = "wait", NEW l \in {"pop", "raise"},
             pc' = [pc EXCEPT ![p] = l], UNCHANGED <<of, handles, overlap>>
      PROVE  Reached'
  <2>1. \A q \in Prompts : /\ pc'[q] \in Mapped <=> pc[q] \in Mapped
                           /\ pc'[q] = "wait" => pc[q] = "wait"
    BY <1>6 DEF BridgeType, Mapped
  <2> QED BY <1>6, <2>1 DEF Reached, Overlapped, AbortReaches
<1>7. ASSUME NEW p \in Prompts, WaitReturns(p) \/ WaitTimesOut(p) \/ WaitFails(p) PROVE Reached'
  BY <1>6, <1>7 DEF WaitReturns, WaitTimesOut, WaitFails, Goto, bridgeVars
<1>8. ASSUME NEW p \in Prompts, Pop(p) PROVE Reached'
  <2>1. /\ UNCHANGED <<of, overlap>> /\ handles' = [handles EXCEPT ![of[p]] = None]
        /\ pc[p] \in {"pop", "raise"} /\ of[p] \in Virtual
        /\ \A q \in Prompts \ {p} : pc'[q] = pc[q]
        /\ pc'[p] \in {"trace", "over"}
    BY <1>8 DEF Pop, Over, Goto, BridgeType
  <2>2. Overlapped'
    BY <2>1 DEF Reached, Overlapped, Mapped
  <2>3. ASSUME NEW q \in Prompts, pc'[q] = "wait", q \notin overlap PROVE handles'[of[q]] = q
    <3>1. q # p /\ pc[q] = "wait" /\ handles[of[q]] = q
      BY <2>1, <2>3 DEF Reached, AbortReaches
    <3>2. of[q] # of[p]
      BY <2>1, <2>3, <3>1 DEF Reached, Overlapped, Mapped
    <3> QED BY <2>1, <3>1, <3>2 DEF BridgeType
  <2> QED BY <2>1, <2>2, <2>3 DEF Reached, AbortReaches
<1>9. CASE (\E v \in Virtual : Abort(v)) \/ AbortLooks \/ AbortCancels
            \/ (\E o \in Others : BeginOther(o))
  BY <1>1, <1>9 DEF Abort, AbortLooks, AbortCancels, BeginOther, bridgeVars
<1>10. ASSUME NEW c \in Prompts, ChildEnds(c) \/ ToolLooks(c) \/ ToolOpens(c) \/ StopHook(c)
       PROVE  Reached'
  BY <1>1, <1>10 DEF ChildEnds, ToolLooks, ToolOpens, StopHook, bridgeVars
<1>11. CASE UNCHANGED vars
  BY <1>1, <1>11 DEF vars, bridgeVars
<1> QED BY <1>3, <1>4, <1>5, <1>7, <1>8, <1>9, <1>10, <1>11 DEF Next, Callback

-----------------------------------------------------------------------------
(* The tool history                                                        *)

Traced == TraceIsFinal /\ AnswerIsOwn

\* What has ended keeps its end and its summary.
EndsKept ==
  \A c \in Prompts : Terminal(c) => child'[c] = child[c] /\ summary'[c] = summary[c]

LEMMA TraceStays ==
  ASSUME BridgeType, ChildType, OwnChild, OwnChild', Traced, EndsKept,
         UNCHANGED <<begun, trace>>,
         \A p \in Prompts : childOf[p] # None => childOf'[p] = childOf[p],
         \A p \in Prompts : pc[p] = "over" => pc'[p] = "over",
         \A p \in Prompts : pc'[p] = "trace" => child'[childOf'[p]] = "done"
  PROVE  Traced'
<1>1. ASSUME NEW p \in Prompts, trace[p] # None
      PROVE  /\ pc'[p] = "over" /\ childOf'[p] = childOf[p] /\ childOf[p] # None
             /\ child'[childOf[p]] = "done" /\ child'[trace[p]] \in {"done", "failed"}
             /\ summary'[childOf[p]] = summary[childOf[p]]
             /\ summary'[trace[p]] = summary[trace[p]]
  <2>1. trace[p] \in Prompts /\ childOf[p] # None /\ childOf[p] \in Prompts
    BY <1>1 DEF ChildType, Traced, TraceIsFinal, OwnChild
  <2>2. Terminal(childOf[p]) /\ Terminal(trace[p]) /\ pc[p] = "over" /\ child[childOf[p]] = "done"
    BY <1>1 DEF Traced, TraceIsFinal, Terminal
  <2> QED BY <2>1, <2>2 DEF EndsKept, Terminal
<1>2. TraceIsFinal'
  BY <1>1 DEF TraceIsFinal
<1>3. AnswerIsOwn'
  BY <1>1 DEF Traced, AnswerIsOwn, OwnChild
<1> QED BY <1>2, <1>3 DEF Traced

LEMMA TellKeepsEnds ==
  ASSUME ChildType, NEW c \in Prompts, Tell(c), UNCHANGED summary
  PROVE  EndsKept
BY DEF Tell, EndsKept, Terminal, ChildType

LEMMA TracedStep ==
  ASSUME BridgeType, ChildType, Numbered, OwnChild, OwnChild', Attributed, Traced, [Next]_vars
  PROVE  Traced'
<1>1. ASSUME EndsKept, UNCHANGED <<begun, trace>>,
             \A p \in Prompts : childOf[p] # None => childOf'[p] = childOf[p],
             \A p \in Prompts : pc[p] = "over" => pc'[p] = "over",
             \A p \in Prompts : pc'[p] = "trace" => pc[p] = "trace"
      PROVE  Traced'
  <2>1. ASSUME NEW p \in Prompts, pc'[p] = "trace" PROVE child'[childOf'[p]] = "done"
    <3>1. pc[p] = "trace" /\ childOf[p] \in Prompts /\ childOf'[p] = childOf[p]
      BY <1>1, <2>1 DEF OwnChild
    <3> QED BY <1>1, <3>1 DEF Traced, TraceIsFinal, EndsKept, Terminal
  <2> QED BY <1>1, <2>1, TraceStays
<1>2. UNCHANGED <<child, summary>> => EndsKept
  BY DEF EndsKept
<1>3. ASSUME NEW p \in Prompts, pc[p] # "over", NEW l \in Labels \ {"trace"},
             pc' = [pc EXCEPT ![p] = l], EndsKept, UNCHANGED <<begun, trace>>,
             \A q \in Prompts : childOf[q] # None => childOf'[q] = childOf[q]
      PROVE  Traced'
  <2>1. \A q \in Prompts : /\ pc[q] = "over" => pc'[q] = "over"
                           /\ pc'[q] = "trace" => pc[q] = "trace"
    BY <1>3 DEF BridgeType
  <2> QED BY <1>1, <1>3, <2>1
<1>4. ASSUME NEW p \in Prompts, NEW v \in Virtual, Prompt(p, v) PROVE Traced'
  <2>1. /\ pc[p] = "off" /\ pc' = [pc EXCEPT ![p] = "asked"]
        /\ begun' = [begun EXCEPT ![p] = stopped] /\ UNCHANGED <<child, summary, childOf, trace>>
    BY <1>4 DEF Prompt, Goto, childVars, bridgeVars
  <2>2. trace[p] = None
    BY <2>1 DEF Traced, TraceIsFinal
  <2>3. TraceIsFinal'
    BY <2>1, <2>2 DEF Traced, TraceIsFinal, BridgeType
  <2>4. \A q \in Prompts \ {p} : begun'[q] = begun[q]
    BY <2>1
  <2>5. AnswerIsOwn'
    BY <2>1, <2>2, <2>4 DEF Traced, AnswerIsOwn, OwnChild
  <2> QED BY <2>3, <2>5 DEF Traced
<1>5. ASSUME NEW p \in Prompts, Begin(p) \/ LaunchFails(p) \/ Register(p) \/ WaitReturns(p)
             \/ WaitFails(p) \/ NoTrace(p)
      PROVE  Traced'
  <2>1. UNCHANGED <<child, summary, childOf, begun, trace>> /\ pc[p] # "over"
    BY <1>5 DEF Begin, LaunchFails, Register, WaitReturns, WaitFails, NoTrace, bridgeVars,
                childVars, traceVars
  <2>2. \E l \in Labels \ {"trace"} : pc' = [pc EXCEPT ![p] = l]
    BY <1>5 DEF Begin, LaunchFails, Register, WaitReturns, WaitFails, NoTrace, Over, Goto, Labels
  <2> QED BY <1>2, <1>3, <2>1, <2>2
<1>6. ASSUME NEW p \in Prompts, Launch(p) PROVE Traced'
  <2>1. /\ pc[p] = "launch" /\ pc' = [pc EXCEPT ![p] = "register"]
        /\ UNCHANGED <<summary, begun, trace>>
    BY <1>6, LaunchDoes DEF traceVars
  <2>2. childOf[p] = None /\ child[p] = "none"
    BY <2>1, PromptsAreNaturals DEF OwnChild
  <2>3. EndsKept
    <3>1. \A c \in Prompts : c # p => child'[c] = child[c]
      BY <1>6, LaunchDoes DEF ChildType
    <3> QED BY <2>1, <2>2, <3>1 DEF EndsKept, Terminal
  <2>4. \A q \in Prompts : childOf[q] # None => childOf'[q] = childOf[q]
    BY <1>6, <2>2, LaunchDoes DEF BridgeType
  <2> QED BY <1>3, <2>1, <2>3, <2>4 DEF Labels
<1>7. ASSUME NEW p \in Prompts, WaitTimesOut(p) PROVE Traced'
  <2>1. /\ childOf[p] \in Prompts /\ Tell(childOf[p]) /\ UNCHANGED <<summary, childOf, begun, trace>>
        /\ pc[p] = "wait" /\ pc' = [pc EXCEPT ![p] = "raise"]
    BY <1>7 DEF WaitTimesOut, OnTimeout, OwnChild, bridgeVars, traceVars, Goto
  <2> QED BY <1>3, <2>1, TellKeepsEnds DEF Labels
<1>8. ASSUME NEW p \in Prompts, Pop(p) PROVE Traced'
  <2>1. /\ pc[p] \in {"pop", "raise"} /\ UNCHANGED <<child, summary, childOf, begun, trace>>
        /\ \A q \in Prompts \ {p} : pc'[q] = pc[q]
        /\ pc'[p] = "trace" => child[childOf[p]] = "done"
    BY <1>8 DEF Pop, Over, Goto, childVars, traceVars, BridgeType
  <2>2. \A q \in Prompts : /\ pc[q] = "over" => pc'[q] = "over"
                           /\ pc'[q] = "trace" => child'[childOf'[q]] = "done"
    BY <2>1 DEF Traced, TraceIsFinal
  <2> QED BY <1>2, <2>1, <2>2, TraceStays
<1>9. ASSUME NEW p \in Prompts, Trace(p) PROVE Traced'
  <2>1. PICK i \in DOMAIN events :
          Matches(p, events[i]) /\ trace' = [trace EXCEPT ![p] = events[i]]
    BY <1>9 DEF Trace
  <2>2. /\ pc[p] = "trace" /\ pc' = [pc EXCEPT ![p] = "over"]
        /\ UNCHANGED <<child, summary, begun, childOf>>
    BY <1>9 DEF Trace, Over, Goto, childVars, bridgeVars
  <2>3. events[i] \in stopped /\ events[i] \in Prompts
    BY DEF ChildType
  <2>4. /\ childOf[p] # None /\ child[childOf[p]] = "done"
        /\ child[events[i]] \in {"done", "failed"}
    BY <2>2, <2>3 DEF OwnChild, Traced, TraceIsFinal, Attributed
  <2>5. trace'[p] = events[i] /\ \A q \in Prompts \ {p} : trace'[q] = trace[q]
    BY <2>1 DEF ChildType
  <2>6. events[i] \notin begun[p] /\ summary[events[i]] = summary[childOf[p]]
    BY <2>1 DEF Matches
  <2>7. TraceIsFinal'
    BY <2>2, <2>4, <2>5 DEF Traced, TraceIsFinal, BridgeType
  <2>8. AnswerIsOwn'
    BY <2>2, <2>5, <2>6 DEF Traced, AnswerIsOwn, OwnChild
  <2> QED BY <2>7, <2>8 DEF Traced
<1>10. ASSUME NEW c \in Prompts, ChildEnds(c) PROVE Traced'
  <2>1. EndsKept /\ UNCHANGED <<pc, childOf, begun, trace>>
    BY <1>10 DEF ChildEnds, EndsKept, Terminal, ChildType, bridgeVars, traceVars
  <2> QED BY <1>1, <2>1
<1>11. ASSUME AbortCancels PROVE Traced'
  <2>1. Tell(childOf[target]) /\ UNCHANGED <<pc, childOf, summary, begun, trace>>
    BY <1>11 DEF AbortCancels, bridgeVars, traceVars
  <2>2. EndsKept
    BY <2>1 DEF Tell, EndsKept, Terminal, ChildType
  <2> QED BY <1>1, <2>1, <2>2
<1>12. ASSUME NEW c \in Prompts, ToolLooks(c) \/ ToolOpens(c) \/ StopHook(c) PROVE Traced'
  BY <1>1, <1>2, <1>12 DEF ToolLooks, ToolOpens, StopHook, bridgeVars, traceVars
<1>13. CASE (\E v \in Virtual : Abort(v)) \/ AbortLooks \/ (\E o \in Others : BeginOther(o))
  BY <1>1, <1>2, <1>13 DEF Abort, AbortLooks, BeginOther, bridgeVars, childVars, traceVars
<1>14. CASE UNCHANGED vars
  BY <1>1, <1>2, <1>14 DEF vars, bridgeVars, childVars, traceVars
<1> QED BY <1>4, <1>5, <1>6, <1>7, <1>8, <1>9, <1>10, <1>11, <1>12, <1>13, <1>14
        DEF Next, Callback

-----------------------------------------------------------------------------
\* Every step keeps the inductive invariant, part by part.
LEMMA NextInv == IInv /\ [Next]_vars => IInv'
<1> SUFFICES ASSUME IInv, [Next]_vars PROVE IInv'
  OBVIOUS
<1> USE DEF IInv
<1>1. BridgeType' /\ ChildType'
  BY BridgeTypeStep, ChildTypeStep
<1>2. Numbered' /\ OwnChild'
  BY NumberedStep, OwnChildStep
<1>3. Guarded'
  BY GuardedStep DEF Guarded
<1>4. Reached'
  BY ReachedStep DEF Reached
<1>5. Traced'
  BY <1>2, TracedStep DEF Traced
<1> QED BY <1>1, <1>2, <1>3, <1>4, <1>5 DEF Guarded, Reached, Traced

\* The inductive invariant holds in every reachable state.
THEOREM Invariance == Spec => []IInv
<1> QED BY InitInv, NextInv, PTL DEF Spec

-----------------------------------------------------------------------------
\* However many launches cross, a running child is held to the capability of
\* its own task and a stopped one keeps neither capability nor client.
THEOREM ChildrenAreGuarded == Spec => []ChildGuarded
<1>1. IInv => ChildGuarded
  BY DEF IInv
<1> QED BY <1>1, Invariance, PTL

\* An abort finds every child that is waited for, unless two prompts of one
\* session were in the map together.
THEOREM AbortsReach == Spec => []AbortReaches
<1>1. IInv => AbortReaches
  BY DEF IInv
<1> QED BY <1>1, Invariance, PTL

\* However many launch numbers are kept, a prompt is answered by its own child
\* unless its session's number was dropped, and then by one of its session; with
\* that child's tool history or one of the same answer that stopped since the
\* prompt began.
THEOREM AnswersAreOwn == Spec => []AnswerIsOwn
<1>1. IInv => AnswerIsOwn
  BY DEF IInv
<1> QED BY <1>1, Invariance, PTL
===============================================================================
