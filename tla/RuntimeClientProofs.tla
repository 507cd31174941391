-------------------------- MODULE RuntimeClientProofs --------------------------
(***************************************************************************)
(* Proofs about RuntimeClient, for any number of host threads, callbacks,  *)
(* requests, spawns and lines.                                             *)
(***************************************************************************)
EXTENDS RuntimeClient, TLAPS

(* Type correctness. *)

LEMMA ClearType ==
  ASSUME TypeOK, NEW p
  PROVE  /\ [inflight EXCEPT ![p] = 0] \in [Procs -> Nat]
         /\ [lines EXCEPT ![p] = <<>>] \in [Procs -> Seq(Line)]
         /\ [buffered EXCEPT ![p] = 0] \in [Procs -> Nat]
<1>1. <<>> \in Seq(Line)
  OBVIOUS
<1> QED BY <1>1 DEF TypeOK

LEMMA DisposeType ==
  ASSUME TypeOK, NEW p, Dispose(p)
  PROVE  /\ proc' \in 0..generation
         /\ live' \subseteq 1..generation /\ open' \subseteq 1..generation
         /\ inflight' \in [Procs -> Nat]
         /\ lines' \in [Procs -> Seq(Line)]
         /\ buffered' \in [Procs -> Nat]
<1>1. generation \in Nat /\ proc \in 0..generation
  BY BoundsAssumption DEF TypeOK
<1>2. proc' \in 0..generation
  BY <1>1 DEF Dispose, NoProc
<1>3. live' \subseteq 1..generation /\ open' \subseteq 1..generation
  BY DEF TypeOK, Dispose
<1> QED
  BY <1>2, <1>3, ClearType DEF Dispose

LEMMA LeaveType ==
  ASSUME TypeOK, NEW c \in Callers, Leave(c)
  PROVE  /\ lock' \in Callers \cup {None}
         /\ pc' \in [Callers -> CallerPc]
         /\ target' \in [Callers -> 0..MaxSpawns]
         /\ request' \in [Callers -> Nat]
  BY BoundsAssumption DEF TypeOK, Leave, CallerPc, NoProc

LEMMA TakeLineType ==
  ASSUME TypeOK, NEW p \in Procs, lines[p] # <<>>, TakeLine(p)
  PROVE  lines' \in [Procs -> Seq(Line)] /\ buffered' \in [Procs -> Nat]
<1>1. lines[p] \in Seq(Line) /\ Tail(lines[p]) \in Seq(Line) /\ Len(lines[p]) \in Nat
  BY DEF TypeOK
<1>2. lines' \in [Procs -> Seq(Line)]
  BY <1>1 DEF TypeOK, TakeLine
<1>3. CASE buffered[p] > 0 /\ buffered' = [buffered EXCEPT ![p] = @ - 1]
  BY <1>2, <1>3 DEF TypeOK
<1>4. CASE \E k \in 1..Len(lines[p]) : buffered' = [buffered EXCEPT ![p] = k - 1]
  BY <1>1, <1>2, <1>4 DEF TypeOK
<1> QED BY <1>3, <1>4 DEF TakeLine

LEMMA EmitType ==
  ASSUME TypeOK, NEW p \in Procs, NEW line \in Line, Emit(p, line)
  PROVE  lines' \in [Procs -> Seq(Line)]
<1>1. Append(lines[p], line) \in Seq(Line)
  BY DEF TypeOK
<1> QED BY <1>1 DEF TypeOK, Emit

LEMMA TypeStep == TypeOK /\ [Next]_vars => TypeOK'
<1> SUFFICES ASSUME TypeOK, [Next]_vars PROVE TypeOK'
  OBVIOUS
<1> USE BoundsAssumption
<1> USE DEF NoProc, Procs, callerVars, clientVars, sidecarVars, cbVars
<1>0. open \subseteq Procs /\ live \subseteq Procs /\ proc \in 0..MaxSpawns
  BY DEF TypeOK
<1>1. ASSUME NEW c \in Callers, Enter(c) PROVE TypeOK'
  BY <1>1 DEF TypeOK, Enter, CallerPc
<1>2. ASSUME NEW c \in Callers, EnsureCooldown(c) PROVE TypeOK'
  BY <1>2, LeaveType DEF TypeOK, EnsureCooldown
<1>3. ASSUME NEW c \in Callers, EnsureLive(c) PROVE TypeOK'
  <2>1. /\ pc' \in [Callers -> CallerPc]
        /\ target' \in [Callers -> 0..MaxSpawns]
        /\ request' \in [Callers -> Nat]
        /\ nextId' \in Nat \ {0}
    <3>1. /\ pc' = [pc EXCEPT ![c] = "write"] /\ target' = [target EXCEPT ![c] = proc]
          /\ request' = [request EXCEPT ![c] = nextId] /\ nextId' = nextId + 1
      BY <1>3 DEF EnsureLive, Claim
    <3>2. pc' \in [Callers -> CallerPc] /\ target' \in [Callers -> 0..MaxSpawns]
      BY <3>1, <1>0 DEF TypeOK, CallerPc
    <3> QED BY <3>1, <3>2 DEF TypeOK
  <2> QED BY <1>3, <2>1 DEF TypeOK, EnsureLive, Claim
<1>4. ASSUME NEW c \in Callers, EnsureSpawn(c) PROVE TypeOK'
  <2>1. /\ inflight' \in [Procs -> Nat]
        /\ lines' \in [Procs -> Seq(Line)]
        /\ buffered' \in [Procs -> Nat]
    <3>1. CASE proc = NoProc
      <4>1. UNCHANGED <<inflight, lines, buffered>>
        BY <1>4, <3>1 DEF EnsureSpawn
      <4> QED BY <4>1 DEF TypeOK
    <3>2. CASE proc # NoProc
      <4>1. /\ inflight' = [inflight EXCEPT ![proc] = 0]
            /\ lines' = [lines EXCEPT ![proc] = <<>>]
            /\ buffered' = [buffered EXCEPT ![proc] = 0]
        BY <1>4, <3>2 DEF EnsureSpawn
      <4> QED BY <4>1, ClearType
    <3> QED BY <3>1, <3>2
  <2>2. /\ pc' \in [Callers -> CallerPc]
        /\ target' \in [Callers -> 0..MaxSpawns]
        /\ request' \in [Callers -> Nat]
        /\ nextId' \in Nat \ {0}
    <3>1. /\ pc' = [pc EXCEPT ![c] = "write"] /\ target' = [target EXCEPT ![c] = generation + 1]
          /\ request' = [request EXCEPT ![c] = nextId] /\ nextId' = nextId + 1
      BY <1>4 DEF EnsureSpawn, Claim
    <3>2. generation + 1 \in 0..MaxSpawns
      BY <1>4 DEF TypeOK, EnsureSpawn
    <3>3. pc' \in [Callers -> CallerPc] /\ target' \in [Callers -> 0..MaxSpawns]
      BY <3>1, <3>2 DEF TypeOK, CallerPc
    <3>4. nextId \in Nat \ {0} /\ request \in [Callers -> Nat]
      BY DEF TypeOK
    <3> QED BY <3>1, <3>3, <3>4
  <2>3. /\ generation' = generation + 1 /\ generation' \in 0..MaxSpawns
        /\ proc' = generation + 1
        /\ live' \subseteq 1..generation' /\ open' \subseteq 1..generation'
        /\ dropped' \subseteq 1..generation'
    <3>1. /\ generation' = generation + 1 /\ proc' = generation + 1
          /\ live' = live \cup {generation + 1} /\ open' = (open \ {proc}) \cup {generation + 1}
          /\ dropped' = dropped /\ generation < MaxSpawns
      BY <1>4 DEF EnsureSpawn, Spawn, Claim
    <3>2. /\ generation \in 0..MaxSpawns /\ live \subseteq 1..generation
          /\ open \subseteq 1..generation /\ dropped \subseteq 1..generation
      BY DEF TypeOK
    <3>3. 1..generation \subseteq 1..(generation + 1) /\ generation + 1 \in 1..(generation + 1)
      BY <3>2
    <3>4. generation' \in 0..MaxSpawns
      BY <3>1, <3>2
    <3>5. /\ live' \subseteq 1..generation' /\ open' \subseteq 1..generation'
          /\ dropped' \subseteq 1..generation'
      BY <3>1, <3>2, <3>3, Zenon
    <3> QED BY <3>1, <3>4, <3>5
  <2>4. proc' \in 0..generation'
    BY <2>3
  <2>5. /\ lock' \in Callers \cup {None} /\ closed' \in BOOLEAN
        /\ cooldown' \in BOOLEAN /\ idle' \in BOOLEAN
        /\ cbPc' \in [Callbacks -> CallbackPc]
        /\ cbTarget' \in [Callbacks -> 0..MaxSpawns]
    BY <1>4 DEF TypeOK, EnsureSpawn, Claim
  <2> QED BY <2>1, <2>2, <2>3, <2>4, <2>5 DEF TypeOK
<1>5. ASSUME NEW c \in Callers, EnsureSpawnFails(c) PROVE TypeOK'
  <2>1. CASE proc = NoProc
    BY <1>5, <2>1, LeaveType DEF TypeOK, EnsureSpawnFails
  <2>2. CASE proc # NoProc
    BY <1>5, <2>2, LeaveType, DisposeType DEF TypeOK, EnsureSpawnFails
  <2> QED BY <2>1, <2>2
<1>6. ASSUME NEW c \in Callers, Write(c) PROVE TypeOK'
  <2>1. CASE target[c] \in live
    BY <1>6, <2>1, <1>0 DEF TypeOK, Write, CallerPc
  <2>2. CASE target[c] \notin live
    BY <1>6, <2>2, LeaveType, DisposeType DEF TypeOK, Write
  <2> QED BY <2>1, <2>2
<1>7. ASSUME NEW c \in Callers, ReadReply(c) PROVE TypeOK'
  BY <1>7, <1>0, LeaveType, TakeLineType DEF TypeOK, ReadReply, NextLine, AtSelect
<1>8. ASSUME NEW c \in Callers, ReadCallback(c) PROVE TypeOK'
  <2>1. lines' \in [Procs -> Seq(Line)] /\ buffered' \in [Procs -> Nat]
    BY <1>8, <1>0, TakeLineType DEF ReadCallback, NextLine, AtSelect
  <2>2. cbPc' \in [Callbacks -> CallbackPc]
    BY <1>8 DEF TypeOK, ReadCallback, CallbackPc
  <2> QED BY <1>8, <2>1, <2>2 DEF TypeOK, ReadCallback
<1>9. ASSUME NEW c \in Callers, ReadBadLine(c) PROVE TypeOK'
  BY <1>9, LeaveType, DisposeType DEF TypeOK, ReadBadLine
<1>10. ASSUME NEW c \in Callers, ReadEof(c) PROVE TypeOK'
  BY <1>10, LeaveType, DisposeType DEF TypeOK, ReadEof
<1>11. ASSUME NEW c \in Callers, SelectTimeout(c) PROVE TypeOK'
  BY <1>11, LeaveType, DisposeType DEF TypeOK, SelectTimeout
<1>12. ASSUME NEW c \in Callers, SelectClosed(c) PROVE TypeOK'
  BY <1>12, LeaveType DEF TypeOK, SelectClosed
<1>13. ASSUME Reap PROVE TypeOK'
  BY <1>13, DisposeType DEF TypeOK, Reap
<1>14. ASSUME Close PROVE TypeOK'
  <2>1. CASE proc = NoProc
    BY <1>14, <2>1 DEF TypeOK, Close
  <2>2. CASE proc # NoProc
    BY <1>14, <2>2, DisposeType DEF TypeOK, Close
  <2> QED BY <2>1, <2>2
<1>15. ASSUME NEW k \in Callbacks, CallbackStep(k) PROVE TypeOK'
  <2>1. CASE CallbackReply(k)
    BY <2>1 DEF TypeOK, CallbackReply, CallbackPc
  <2>2. CASE CallbackDisposeTest(k)
    BY <2>2 DEF TypeOK, CallbackDisposeTest, CallbackPc
  <2>3. CASE CallbackDisposeClear(k)
    <3>0. generation \in Nat /\ proc \in 0..generation /\ dropped \subseteq 1..generation
      BY DEF TypeOK
    <3>1. dropped' \subseteq 1..generation /\ proc' \in 0..generation
      <4>1. proc' = 0
        BY <2>3 DEF CallbackDisposeClear
      <4>2. {proc} \ {0, cbTarget[k]} \subseteq 1..generation
        BY <3>0
      <4>3. dropped' = dropped \cup ({proc} \ {0, cbTarget[k]})
        BY <2>3 DEF CallbackDisposeClear
      <4>4. dropped' \subseteq 1..generation
        BY <3>0, <4>2, <4>3
      <4>5. proc' \in 0..generation
        BY <3>0, <4>1
      <4> QED BY <4>4, <4>5
    <3>2. cbPc' \in [Callbacks -> CallbackPc]
      BY <2>3 DEF TypeOK, CallbackDisposeClear, CallbackPc
    <3> QED BY <2>3, <3>1, <3>2 DEF TypeOK, CallbackDisposeClear
  <2>4. CASE CallbackDisposeKill(k)
    BY <2>4, ClearType DEF TypeOK, CallbackDisposeKill, CallbackPc
  <2> QED BY <1>15, <2>1, <2>2, <2>3, <2>4 DEF CallbackStep
<1>16. ASSUME NEW p \in Procs, SidecarReply(p) PROVE TypeOK'
  <2>1. Reply(inflight[p]) \in Line
    BY DEF TypeOK, Reply, Line
  <2> QED BY <1>16, <2>1, EmitType DEF TypeOK, SidecarReply
<1>17. ASSUME NEW p \in Procs, NEW k \in Callbacks, SidecarCallback(p, k) PROVE TypeOK'
  <2>1. Callback(k) \in Line
    BY DEF Callback, Line
  <2>2. /\ cbPc' \in [Callbacks -> CallbackPc]
        /\ cbTarget' \in [Callbacks -> 0..MaxSpawns]
    BY <1>17 DEF TypeOK, SidecarCallback, CallbackPc
  <2> QED BY <1>17, <2>1, <2>2, EmitType DEF TypeOK, SidecarCallback
<1>18. ASSUME NEW p \in Procs, SidecarStray(p) PROVE TypeOK'
  <2>1. StrayLine \in Line
    BY DEF Line
  <2> QED BY <1>18, <2>1, EmitType DEF TypeOK, SidecarStray
<1>19. ASSUME NEW p \in Procs, SidecarDies(p) PROVE TypeOK'
  BY <1>19 DEF TypeOK, SidecarDies
<1>20. ASSUME CooldownExpires \/ IdleElapses PROVE TypeOK'
  BY <1>20 DEF TypeOK, CooldownExpires, IdleElapses
<1>21. CASE UNCHANGED vars
  BY <1>21 DEF TypeOK, vars
<1> QED
  BY <1>1, <1>2, <1>3, <1>4, <1>5, <1>6, <1>7, <1>8, <1>9, <1>10, <1>11, <1>12,
     <1>13, <1>14, <1>15, <1>16, <1>17, <1>18, <1>19, <1>20, <1>21
  DEF Next, CallStep

LEMMA TypeInit == Init => TypeOK
<1> SUFFICES ASSUME Init PROVE TypeOK
  OBVIOUS
<1>1. lines \in [Procs -> Seq(Line)]
  <2>1. <<>> \in Seq(Line)
    OBVIOUS
  <2> QED BY <2>1 DEF Init
<1>2. lock \in Callers \cup {None}
  BY DEF Init
<1>3. /\ pc \in [Callers -> CallerPc]
      /\ target \in [Callers -> 0..MaxSpawns]
      /\ request \in [Callers -> Nat]
      /\ inflight \in [Procs -> Nat] /\ buffered \in [Procs -> Nat]
      /\ cbPc \in [Callbacks -> CallbackPc]
      /\ cbTarget \in [Callbacks -> 0..MaxSpawns]
  BY BoundsAssumption DEF Init, NoProc, CallerPc, CallbackPc
<1>4. /\ generation \in 0..MaxSpawns /\ proc \in 0..generation
      /\ closed \in BOOLEAN /\ cooldown \in BOOLEAN /\ idle \in BOOLEAN
      /\ nextId \in Nat \ {0}
      /\ live \subseteq 1..generation /\ open \subseteq 1..generation
      /\ dropped \subseteq 1..generation
  <2>1. generation = 0 /\ proc = 0 /\ live = {} /\ open = {} /\ dropped = {}
    BY DEF Init, NoProc
  <2>2. /\ closed = FALSE /\ cooldown = FALSE /\ idle = FALSE /\ nextId = 1
    BY DEF Init
  <2>3. 0 \in 0..MaxSpawns /\ 0 \in 0..0
    BY BoundsAssumption
  <2>4. closed \in BOOLEAN /\ cooldown \in BOOLEAN /\ idle \in BOOLEAN
    BY <2>2
  <2>5. nextId \in Nat \ {0}
    BY <2>2
  <2> QED BY <2>1, <2>3, <2>4, <2>5
<1> QED
  BY <1>1, <1>2, <1>3, <1>4 DEF TypeOK

\* Every variable of the client, the pipes and the callbacks keeps its type;
\* in particular the client's handle is always one of the sidecars it spawned.
THEOREM TypeCorrect == Spec => []TypeOK
  BY TypeInit, TypeStep, PTL DEF Spec
-----------------------------------------------------------------------------
(* The safety invariant.  NoForeignAnswer and NoOrphan are not inductive   *)
(* alone: a new sidecar must start with empty pipes, a running one must    *)
(* have its pipes open, and a callback thread that is disposing of a       *)
(* sidecar must have found it dead.                                        *)

ClosedPipesAreEmpty ==
  \A p \in Procs \ open : inflight[p] = 0 /\ lines[p] = <<>>

LiveIsOpen == live \subseteq open

DisposedIsDead ==
  \A k \in Callbacks :
    /\ cbTarget[k] \in 0..generation
    /\ cbPc[k] \in {"check", "clear", "kill"} => cbTarget[k] \notin live

IInv ==
  /\ TypeOK /\ Serialized /\ NoForeignAnswer /\ NoOrphan
  /\ ClosedPipesAreEmpty /\ LiveIsOpen /\ DisposedIsDead

LEMMA SerializedStep == TypeOK /\ Serialized /\ [Next]_vars => Serialized'
<1> SUFFICES ASSUME TypeOK, Serialized, [Next]_vars PROVE Serialized'
  OBVIOUS
<1> USE CallersAssumption
<1> USE DEF Serialized, callerVars
<1>0. pc \in [Callers -> CallerPc]
  BY DEF TypeOK
<1>1. ASSUME NEW c \in Callers, Enter(c) PROVE Serialized'
  BY <1>0, <1>1 DEF Enter
<1>2. ASSUME NEW c \in Callers, Leave(c), pc[c] # "out" PROVE Serialized'
  BY <1>0, <1>2 DEF Leave
<1>3. ASSUME NEW c \in Callers, NEW p, Claim(c, p), pc[c] # "out" PROVE Serialized'
  BY <1>0, <1>3 DEF Claim
<1>4. ASSUME NEW c \in Callers, CallStep(c) PROVE Serialized'
  <2>1. CASE EnsureCooldown(c)
    BY <2>1, <1>2 DEF EnsureCooldown
  <2>2. CASE EnsureLive(c)
    BY <2>2, <1>3 DEF EnsureLive
  <2>3. CASE EnsureSpawn(c)
    BY <2>3, <1>3 DEF EnsureSpawn
  <2>4. CASE EnsureSpawnFails(c)
    BY <2>4, <1>2 DEF EnsureSpawnFails
  <2>5. CASE Write(c)
    <3>1. CASE target[c] \in live
      BY <1>0, <2>5, <3>1 DEF Write
    <3>2. CASE target[c] \notin live
      BY <1>2, <2>5, <3>2 DEF Write
    <3> QED BY <3>1, <3>2
  <2>6. CASE ReadReply(c)
    BY <2>6, <1>2 DEF ReadReply, NextLine, AtSelect
  <2>7. CASE ReadCallback(c)
    BY <2>7 DEF ReadCallback
  <2>8. CASE ReadBadLine(c)
    BY <2>8, <1>2 DEF ReadBadLine, NextLine, AtSelect
  <2>9. CASE ReadEof(c)
    BY <2>9, <1>2 DEF ReadEof, AtSelect
  <2>10. CASE SelectTimeout(c)
    BY <2>10, <1>2 DEF SelectTimeout, AtSelect
  <2>11. CASE SelectClosed(c)
    BY <2>11, <1>2 DEF SelectClosed
  <2> QED
    BY <1>4, <2>1, <2>2, <2>3, <2>4, <2>5, <2>6, <2>7, <2>8, <2>9, <2>10, <2>11
    DEF CallStep
<1>5. ASSUME UNCHANGED <<lock, pc>> PROVE Serialized'
  BY <1>5
<1>6. ASSUME NEW k \in Callbacks, CallbackStep(k) PROVE UNCHANGED <<lock, pc>>
  BY <1>6 DEF CallbackStep, CallbackReply, CallbackDisposeTest,
              CallbackDisposeClear, CallbackDisposeKill
<1>7. ASSUME NEW p \in Procs,
             \/ SidecarReply(p) \/ SidecarStray(p) \/ SidecarDies(p)
             \/ \E k \in Callbacks : SidecarCallback(p, k)
      PROVE  UNCHANGED <<lock, pc>>
  BY <1>7 DEF SidecarReply, SidecarStray, SidecarDies, SidecarCallback
<1>8. ASSUME Reap \/ Close \/ CooldownExpires \/ IdleElapses \/ UNCHANGED vars
      PROVE  UNCHANGED <<lock, pc>>
  BY <1>8 DEF Reap, Close, CooldownExpires, IdleElapses, vars
<1> QED
  BY <1>1, <1>4, <1>5, <1>6, <1>7, <1>8 DEF Next

(* The bookkeeping part of the invariant: pipes, handles, callbacks. *)

Bookkeeping ==
  NoOrphan /\ ClosedPipesAreEmpty /\ LiveIsOpen /\ DisposedIsDead

LEMMA DisposeBookkeeping ==
  ASSUME TypeOK, Bookkeeping, NEW p, Dispose(p),
         UNCHANGED <<generation, cbVars, dropped>>
  PROVE  Bookkeeping'
<1>1. NoOrphan'
  BY DEF Bookkeeping, NoOrphan, Dispose
<1>2. ClosedPipesAreEmpty'
  BY DEF Bookkeeping, ClosedPipesAreEmpty, Dispose, TypeOK
<1>3. LiveIsOpen' /\ DisposedIsDead'
  BY DEF Bookkeeping, LiveIsOpen, DisposedIsDead, Dispose, cbVars
<1> QED BY <1>1, <1>2, <1>3 DEF Bookkeeping

LEMMA SameBookkeeping ==
  ASSUME Bookkeeping,
         UNCHANGED <<proc, generation, sidecarVars, cbVars, dropped>>
  PROVE  Bookkeeping'
  BY DEF Bookkeeping, NoOrphan, ClosedPipesAreEmpty, LiveIsOpen, DisposedIsDead,
         sidecarVars, cbVars

\* Output of an open sidecar changes, or which request it executes.
LEMMA PipeBookkeeping ==
  ASSUME TypeOK, Bookkeeping, NEW p \in open,
         \A q \in Procs : q # p => inflight'[q] = inflight[q] /\ lines'[q] = lines[q],
         UNCHANGED <<proc, generation, live, open, dropped>>,
         DisposedIsDead'
  PROVE  Bookkeeping'
  BY DEF Bookkeeping, NoOrphan, ClosedPipesAreEmpty, LiveIsOpen

LEMMA BookkeepingStep == TypeOK /\ Bookkeeping /\ [Next]_vars => Bookkeeping'
<1> SUFFICES ASSUME TypeOK, Bookkeeping, [Next]_vars PROVE Bookkeeping'
  OBVIOUS
<1> USE DEF callerVars, clientVars
<1>0. /\ generation \in 0..MaxSpawns /\ proc \in 0..generation
      /\ live \subseteq 1..generation /\ open \subseteq 1..generation
      /\ open \subseteq Procs /\ live \subseteq open
  BY BoundsAssumption DEF TypeOK, Bookkeeping, LiveIsOpen, Procs
<1>1. ASSUME NEW c \in Callers, Enter(c) \/ EnsureCooldown(c) \/ EnsureLive(c)
      PROVE  Bookkeeping'
  BY <1>1, SameBookkeeping DEF Enter, EnsureCooldown, EnsureLive, Claim
<1>2. ASSUME NEW c \in Callers, EnsureSpawn(c) PROVE Bookkeeping'
  <2> DEFINE p == generation + 1
  <2>1. /\ proc' = p /\ generation' = p /\ live' = live \cup {p}
        /\ open' = (open \ {proc}) \cup {p} /\ dropped' = dropped
        /\ proc \notin live /\ p \notin open /\ cbVars' = cbVars
    BY <1>0, <1>2 DEF EnsureSpawn, Spawn, Claim
  <2>2. NoOrphan'
    BY <2>1 DEF Bookkeeping, NoOrphan
  <2>3. LiveIsOpen'
    BY <2>1 DEF Bookkeeping, LiveIsOpen
  <2>4. ClosedPipesAreEmpty'
    BY <1>2, <2>1 DEF Bookkeeping, ClosedPipesAreEmpty, EnsureSpawn, TypeOK, NoProc
  <2>5. DisposedIsDead'
    <3> SUFFICES ASSUME NEW k \in Callbacks
                 PROVE  /\ cbTarget[k] \in 0..p
                        /\ cbPc[k] \in {"check", "clear", "kill"} =>
                             cbTarget[k] \notin live \cup {p}
      BY <2>1 DEF DisposedIsDead, cbVars
    <3> QED BY <1>0 DEF Bookkeeping, DisposedIsDead
  <2> QED BY <2>2, <2>3, <2>4, <2>5 DEF Bookkeeping
<1>3. ASSUME NEW c \in Callers, EnsureSpawnFails(c) PROVE Bookkeeping'
  <2>1. CASE proc = NoProc
    BY <1>3, <2>1, SameBookkeeping DEF EnsureSpawnFails
  <2>2. CASE proc # NoProc
    BY <1>3, <2>2, DisposeBookkeeping DEF EnsureSpawnFails
  <2> QED BY <2>1, <2>2
<1>4. ASSUME NEW c \in Callers, Write(c) PROVE Bookkeeping'
  <2>1. CASE target[c] \in live
    <3>1. DisposedIsDead'
      BY <1>4, <2>1 DEF Write, Bookkeeping, DisposedIsDead, cbVars
    <3> QED BY <1>0, <1>4, <2>1, <3>1, PipeBookkeeping DEF Write, TypeOK
  <2>2. CASE target[c] \notin live
    BY <1>4, <2>2, DisposeBookkeeping DEF Write
  <2> QED BY <2>1, <2>2
<1>5. ASSUME NEW c \in Callers, ReadReply(c) PROVE Bookkeeping'
  <2>1. DisposedIsDead'
    BY <1>5 DEF ReadReply, Bookkeeping, DisposedIsDead, cbVars
  <2>2. \A q \in Procs : q # target[c] => lines'[q] = lines[q]
    BY <1>5 DEF ReadReply, TakeLine, TypeOK
  <2> QED
    BY <1>5, <2>1, <2>2, PipeBookkeeping DEF ReadReply, NextLine, AtSelect
<1>6. ASSUME NEW c \in Callers, ReadCallback(c) PROVE Bookkeeping'
  <2>1. DisposedIsDead'
    BY <1>6 DEF ReadCallback, Bookkeeping, DisposedIsDead, TypeOK
  <2>2. \A q \in Procs : q # target[c] => lines'[q] = lines[q]
    BY <1>6 DEF ReadCallback, TakeLine, TypeOK
  <2> QED
    BY <1>6, <2>1, <2>2, PipeBookkeeping DEF ReadCallback, NextLine, AtSelect
<1>7. ASSUME NEW c \in Callers, ReadBadLine(c) \/ ReadEof(c) \/ SelectTimeout(c)
      PROVE  Bookkeeping'
  BY <1>7, DisposeBookkeeping DEF ReadBadLine, ReadEof, SelectTimeout
<1>8. ASSUME NEW c \in Callers, SelectClosed(c) PROVE Bookkeeping'
  BY <1>8, SameBookkeeping DEF SelectClosed
<1>9. ASSUME Reap PROVE Bookkeeping'
  BY <1>9, DisposeBookkeeping DEF Reap
<1>10. ASSUME Close PROVE Bookkeeping'
  <2>1. CASE proc = NoProc
    BY <1>10, <2>1, SameBookkeeping DEF Close
  <2>2. CASE proc # NoProc
    BY <1>10, <2>2, DisposeBookkeeping DEF Close
  <2> QED BY <2>1, <2>2
<1>11. ASSUME NEW k \in Callbacks, CallbackStep(k) PROVE Bookkeeping'
  <2>1. CASE CallbackReply(k) \/ CallbackDisposeTest(k)
    <3>1. DisposedIsDead'
      BY <2>1 DEF CallbackReply, CallbackDisposeTest, Bookkeeping, DisposedIsDead,
                  TypeOK, sidecarVars
    <3>2. NoOrphan' /\ ClosedPipesAreEmpty' /\ LiveIsOpen'
      BY <2>1 DEF CallbackReply, CallbackDisposeTest, Bookkeeping, NoOrphan,
                  ClosedPipesAreEmpty, LiveIsOpen, sidecarVars
    <3> QED BY <3>1, <3>2 DEF Bookkeeping
  <2>2. CASE CallbackDisposeClear(k)
    <3>1. DisposedIsDead'
      BY <2>2 DEF CallbackDisposeClear, Bookkeeping, DisposedIsDead, TypeOK, sidecarVars
    <3>2. cbTarget[k] \notin live /\ 0 \notin live
      BY <1>0, <2>2 DEF CallbackDisposeClear, Bookkeeping, DisposedIsDead
    <3>3. NoOrphan'
      BY <2>2, <3>2 DEF CallbackDisposeClear, Bookkeeping, NoOrphan, NoProc, sidecarVars
    <3>4. ClosedPipesAreEmpty' /\ LiveIsOpen'
      BY <2>2 DEF CallbackDisposeClear, Bookkeeping, ClosedPipesAreEmpty, LiveIsOpen,
                  sidecarVars
    <3> QED BY <3>1, <3>3, <3>4 DEF Bookkeeping
  <2>3. CASE CallbackDisposeKill(k)
    <3>1. DisposedIsDead'
      BY <2>3 DEF CallbackDisposeKill, Bookkeeping, DisposedIsDead, TypeOK
    <3>2. NoOrphan' /\ LiveIsOpen'
      BY <2>3 DEF CallbackDisposeKill, Bookkeeping, NoOrphan, LiveIsOpen
    <3>3. ClosedPipesAreEmpty'
      BY <2>3 DEF CallbackDisposeKill, Bookkeeping, ClosedPipesAreEmpty, TypeOK
    <3> QED BY <3>1, <3>2, <3>3 DEF Bookkeeping
  <2> QED BY <1>11, <2>1, <2>2, <2>3 DEF CallbackStep
<1>12. ASSUME NEW p \in Procs, SidecarReply(p) \/ SidecarStray(p) PROVE Bookkeeping'
  <2>1. DisposedIsDead'
    BY <1>12 DEF SidecarReply, SidecarStray, Bookkeeping, DisposedIsDead, cbVars
  <2>2. \A q \in Procs : q # p => inflight'[q] = inflight[q] /\ lines'[q] = lines[q]
    BY <1>12 DEF SidecarReply, SidecarStray, Emit, TypeOK
  <2> QED
    BY <1>0, <1>12, <2>1, <2>2, PipeBookkeeping DEF SidecarReply, SidecarStray
<1>13. ASSUME NEW p \in Procs, NEW k \in Callbacks, SidecarCallback(p, k)
       PROVE  Bookkeeping'
  <2>1. DisposedIsDead'
    BY <1>0, <1>13 DEF SidecarCallback, Bookkeeping, DisposedIsDead, TypeOK
  <2>2. \A q \in Procs : q # p => lines'[q] = lines[q]
    BY <1>13 DEF SidecarCallback, Emit, TypeOK
  <2> QED BY <1>0, <1>13, <2>1, <2>2, PipeBookkeeping DEF SidecarCallback
<1>14. ASSUME NEW p \in Procs, SidecarDies(p) PROVE Bookkeeping'
  BY <1>14 DEF SidecarDies, Bookkeeping, NoOrphan, ClosedPipesAreEmpty, LiveIsOpen,
               DisposedIsDead, cbVars
<1>15. ASSUME CooldownExpires \/ IdleElapses \/ UNCHANGED vars PROVE Bookkeeping'
  BY <1>15, SameBookkeeping DEF CooldownExpires, IdleElapses, vars
<1> QED
  BY <1>1, <1>2, <1>3, <1>4, <1>5, <1>6, <1>7, <1>8, <1>9, <1>10, <1>11, <1>12,
     <1>13, <1>14, <1>15
  DEF Next, CallStep

(* NoForeignAnswer, one sidecar at a time. *)

Quiet(p) ==
  inflight[p] = 0 /\ \A i \in 1..Len(lines[p]) : lines[p][i].kind # "reply"

Owned(p) ==
  /\ inflight[p] # 0 => Awaited(p, inflight[p])
  /\ \A i \in 1..Len(lines[p]) :
       lines[p][i].kind = "reply" =>
         /\ Awaited(p, lines[p][i].id)
         /\ inflight[p] = 0
         /\ \A j \in 1..Len(lines[p]) : lines[p][j].kind = "reply" => i = j

LEMMA OwnedAll == NoForeignAnswer <=> \A p \in open : Owned(p)
  BY DEF NoForeignAnswer, Owned

LEMMA QuietIsOwned == ASSUME NEW p, Quiet(p) PROVE Owned(p)
  BY DEF Quiet, Owned

\* A sidecar nobody waits on is quiet.
LEMMA UnawaitedIsQuiet ==
  ASSUME NEW p, Owned(p), \A id : ~Awaited(p, id)
  PROVE  Quiet(p)
  BY DEF Quiet, Owned

\* Between calls, and until a call has written, every open sidecar is quiet.
LEMMA QuietUnlessSelecting ==
  ASSUME NoForeignAnswer, NEW p \in open,
         \A c \in Callers : lock = c => (pc[c] # "select" \/ target[c] # p)
  PROVE  Quiet(p)
<1>1. \A id : ~Awaited(p, id)
  BY DEF Awaited
<1> QED BY <1>1, OwnedAll, UnawaitedIsQuiet

LEMMA StillQuiet ==
  ASSUME NEW p, Quiet(p), inflight'[p] = inflight[p], lines'[p] = lines[p]
  PROVE  Owned(p)'
  BY DEF Quiet, Owned

\* Nothing that concerns the waiting caller or the sidecars still open changes.
LEMMA NothingForeign ==
  ASSUME NoForeignAnswer, UNCHANGED <<lock, callerVars>>, open' \subseteq open,
         \A p \in open' : inflight'[p] = inflight[p] /\ lines'[p] = lines[p]
  PROVE  NoForeignAnswer'
<1> SUFFICES ASSUME NEW p \in open' PROVE Owned(p)'
  BY DEF NoForeignAnswer, Owned
<1>1. Owned(p)
  BY OwnedAll
<1>2. \A id : Awaited(p, id)' <=> Awaited(p, id)
  BY DEF Awaited, callerVars
<1> QED BY <1>1, <1>2 DEF Owned

\* A caller leaves call() and what its sidecar still held is gone or quiet.
LEMMA LeaveQuiet ==
  ASSUME TypeOK, Serialized, NoForeignAnswer, NEW c \in Callers, pc[c] # "out",
         open' \subseteq open,
         \A p \in open' :
           \/ inflight'[p] = inflight[p] /\ lines'[p] = lines[p]
              /\ (p # target[c] \/ pc[c] # "select")
           \/ Quiet(p)'
  PROVE  NoForeignAnswer'
<1> SUFFICES ASSUME NEW p \in open' PROVE Owned(p)'
  BY DEF NoForeignAnswer, Owned
<1>1. CASE Quiet(p)'
  BY <1>1 DEF Quiet, Owned
<1>2. CASE /\ inflight'[p] = inflight[p] /\ lines'[p] = lines[p]
           /\ (p # target[c] \/ pc[c] # "select")
  <2>1. lock = c
    BY DEF Serialized
  <2>2. Quiet(p)
    BY <1>2, <2>1, QuietUnlessSelecting
  <2> QED BY <1>2, <2>2, StillQuiet
<1> QED BY <1>1, <1>2

LEMMA DisposeLeaveQuiet ==
  ASSUME TypeOK, Serialized, NoForeignAnswer, NEW c \in Callers, pc[c] # "out",
         NEW p, Dispose(p), p = target[c] \/ pc[c] # "select"
  PROVE  NoForeignAnswer'
<1>1. open' \subseteq open /\ p \notin open' /\ open \subseteq Procs
  BY BoundsAssumption DEF Dispose, TypeOK, Procs
<1>2. \A q \in open' : inflight'[q] = inflight[q] /\ lines'[q] = lines[q]
  BY <1>1 DEF Dispose, TypeOK
<1> QED BY <1>1, <1>2, LeaveQuiet

LEMMA ForeignStep ==
  TypeOK /\ Serialized /\ Bookkeeping /\ NoForeignAnswer /\ [Next]_vars
    => NoForeignAnswer'
<1> SUFFICES ASSUME TypeOK, Serialized, Bookkeeping, NoForeignAnswer, [Next]_vars
             PROVE  NoForeignAnswer'
  OBVIOUS
<1> USE CallersAssumption
<1>0. /\ open \subseteq Procs /\ pc \in [Callers -> CallerPc]
      /\ target \in [Callers -> 0..MaxSpawns] /\ request \in [Callers -> Nat]
  BY BoundsAssumption DEF TypeOK, Procs
<1>1. ASSUME lock = None, open' \subseteq open,
             \A p \in open' : inflight'[p] = inflight[p] /\ lines'[p] = lines[p]
      PROVE  NoForeignAnswer'
  <2> SUFFICES ASSUME NEW p \in open' PROVE Owned(p)'
    BY DEF NoForeignAnswer, Owned
  <2>1. Quiet(p)
    BY <1>1, QuietUnlessSelecting
  <2> QED BY <1>1, <2>1, StillQuiet
<1>2. ASSUME NEW c \in Callers, Enter(c) PROVE NoForeignAnswer'
  BY <1>1, <1>2 DEF Enter, sidecarVars
<1>3. ASSUME NEW c \in Callers, EnsureCooldown(c) PROVE NoForeignAnswer'
  BY <1>3, LeaveQuiet DEF EnsureCooldown, sidecarVars
<1>4. ASSUME NEW c \in Callers, EnsureLive(c) PROVE NoForeignAnswer'
  BY <1>4, LeaveQuiet DEF EnsureLive, sidecarVars
<1>5. ASSUME NEW c \in Callers, EnsureSpawn(c) PROVE NoForeignAnswer'
  <2> DEFINE n == generation + 1
  <2>1. n \in Procs /\ n \notin open /\ open' = (open \ {proc}) \cup {n}
    BY <1>5, BoundsAssumption DEF TypeOK, EnsureSpawn, Spawn, Procs
  <2>2. \A p \in Procs \ {proc} : inflight'[p] = inflight[p] /\ lines'[p] = lines[p]
    BY <1>5 DEF EnsureSpawn, TypeOK
  <2>3. lock = c /\ pc[c] = "ensure"
    BY <1>5 DEF EnsureSpawn, Serialized
  <2>4. proc # n
    BY BoundsAssumption DEF TypeOK
  <2> SUFFICES ASSUME NEW p \in open' PROVE Owned(p)'
    BY DEF NoForeignAnswer, Owned
  <2>5. CASE p = n
    <3>1. inflight'[p] = 0 /\ lines'[p] = <<>>
      BY <2>1, <2>2, <2>4, <2>5 DEF Bookkeeping, ClosedPipesAreEmpty
    <3> QED BY <3>1 DEF Owned
  <2>6. CASE p # n
    <3>1. p \in open /\ p # proc
      BY <2>1, <2>6
    <3>2. Quiet(p)
      BY <2>3, <3>1, QuietUnlessSelecting
    <3> QED BY <1>0, <2>2, <3>1, <3>2, StillQuiet
  <2> QED BY <2>5, <2>6
<1>6. ASSUME NEW c \in Callers, EnsureSpawnFails(c) PROVE NoForeignAnswer'
  <2>1. CASE proc = NoProc
    BY <1>6, <2>1, LeaveQuiet DEF EnsureSpawnFails, sidecarVars
  <2>2. CASE proc # NoProc
    BY <1>6, <2>2, DisposeLeaveQuiet DEF EnsureSpawnFails
  <2> QED BY <2>1, <2>2
<1>7. ASSUME NEW c \in Callers, Write(c) PROVE NoForeignAnswer'
  <2>1. CASE target[c] \in live
    <3> DEFINE t == target[c]
    <3>1. lock = c /\ pc[c] = "write"
      BY <1>7 DEF Write, Serialized
    <3>2. t \in open /\ t \in Procs
      BY <1>0, <2>1 DEF Bookkeeping, LiveIsOpen
    <3>3. /\ inflight' = [inflight EXCEPT ![t] = request[c]]
          /\ pc' = [pc EXCEPT ![c] = "select"]
          /\ lock' = lock /\ target' = target /\ request' = request
          /\ open' = open /\ lines' = lines
      BY <1>7, <2>1 DEF Write
    <3> SUFFICES ASSUME NEW p \in open' PROVE Owned(p)'
      BY DEF NoForeignAnswer, Owned
    <3>4. Quiet(p)
      BY <3>1, <3>3, QuietUnlessSelecting
    <3>5. CASE p = t
      <4>1. Awaited(p, request[c])'
        BY <1>0, <3>1, <3>3, <3>5 DEF Awaited
      <4>2. inflight'[p] = request[c]
        BY <3>2, <3>3, <3>5 DEF TypeOK
      <4> QED BY <3>3, <3>4, <4>1, <4>2 DEF Owned, Quiet
    <3>6. CASE p # t
      BY <1>0, <3>3, <3>4, <3>6, StillQuiet DEF TypeOK
    <3> QED BY <3>5, <3>6
  <2>2. CASE target[c] \notin live
    BY <1>7, <2>2, DisposeLeaveQuiet DEF Write
  <2> QED BY <2>1, <2>2
<1>8. ASSUME NEW c \in Callers, ReadReply(c) PROVE NoForeignAnswer'
  <2> DEFINE t == target[c]
  <2>1. /\ t \in open /\ t \in Procs /\ pc[c] = "select"
        /\ lines[t] # <<>> /\ lines[t] \in Seq(Line) /\ Head(lines[t]).kind = "reply"
    BY <1>0, <1>8 DEF ReadReply, NextLine, AtSelect, TypeOK
  <2>2. /\ open' = open /\ inflight' = inflight
        /\ lines' = [lines EXCEPT ![t] = Tail(@)]
    BY <1>8 DEF ReadReply, TakeLine
  <2>3. ASSUME NEW p, p = t PROVE Quiet(p)'
    <3>1. Owned(t)
      BY <2>1, OwnedAll
    <3>2. lines[t][1].kind = "reply" /\ Len(lines[t]) >= 1
      BY <2>1
    <3>3. inflight[t] = 0 /\ \A j \in 1..Len(lines[t]) : lines[t][j].kind = "reply" => 1 = j
      BY <3>1, <3>2 DEF Owned
    <3>4. lines'[t] = Tail(lines[t])
      BY <2>1, <2>2 DEF TypeOK
    <3>5. ASSUME NEW i \in 1..Len(Tail(lines[t]))
          PROVE  Tail(lines[t])[i].kind # "reply"
      <4>1. i + 1 \in 1..Len(lines[t]) /\ i + 1 # 1 /\ Tail(lines[t])[i] = lines[t][i + 1]
        BY <2>1
      <4> QED BY <3>3, <4>1
    <3>6. \A i \in 1..Len(lines'[p]) : lines'[p][i].kind # "reply"
      BY <2>3, <3>4, <3>5
    <3>7. inflight'[p] = 0
      BY <2>2, <2>3, <3>3
    <3> QED BY <3>6, <3>7 DEF Quiet
  <2>4. \A p \in open' : p # t => inflight'[p] = inflight[p] /\ lines'[p] = lines[p]
    BY <1>0, <2>2 DEF TypeOK
  <2>5. \A p \in open' :
          \/ inflight'[p] = inflight[p] /\ lines'[p] = lines[p]
             /\ (p # target[c] \/ pc[c] # "select")
          \/ Quiet(p)'
    BY <2>3, <2>4
  <2> QED BY <2>1, <2>2, <2>5, LeaveQuiet
<1>9. ASSUME NEW c \in Callers, ReadCallback(c) PROVE NoForeignAnswer'
  <2> DEFINE t == target[c]
  <2>1. /\ t \in open /\ t \in Procs
        /\ lines[t] # <<>> /\ lines[t] \in Seq(Line) /\ Head(lines[t]).kind = "callback"
    BY <1>0, <1>9 DEF ReadCallback, NextLine, AtSelect, TypeOK
  <2>2. /\ open' = open /\ inflight' = inflight
        /\ lines' = [lines EXCEPT ![t] = Tail(@)]
        /\ UNCHANGED <<lock, callerVars>>
    BY <1>9 DEF ReadCallback, TakeLine
  <2>3. \A p, id : Awaited(p, id)' <=> Awaited(p, id)
    BY <2>2 DEF Awaited, callerVars
  <2> SUFFICES ASSUME NEW p \in open' PROVE Owned(p)'
    BY DEF NoForeignAnswer, Owned
  <2>4. Owned(p)
    BY <2>2, OwnedAll
  <2>5. CASE p # t
    <3>1. lines'[p] = lines[p]
      BY <1>0, <2>2, <2>5 DEF TypeOK
    <3> QED BY <2>2, <2>3, <2>4, <3>1 DEF Owned
  <2>6. CASE p = t
    <3>1. lines'[p] = Tail(lines[p])
      BY <2>1, <2>2, <2>6 DEF TypeOK
    <3>2. ASSUME NEW i \in 1..Len(Tail(lines[p]))
          PROVE  i + 1 \in 1..Len(lines[p]) /\ Tail(lines[p])[i] = lines[p][i + 1]
      BY <2>1, <2>6
    <3>3. ASSUME NEW i \in 1..Len(lines'[p]), lines'[p][i].kind = "reply",
                 NEW id, id = lines'[p][i].id
          PROVE  /\ Awaited(p, id)' /\ inflight'[p] = 0
                 /\ \A j \in 1..Len(lines'[p]) : lines'[p][j].kind = "reply" => i = j
      <4>0. Len(Tail(lines[p])) \in Nat
        BY <2>1, <2>6
      <4>1. i + 1 \in 1..Len(lines[p]) /\ lines'[p][i] = lines[p][i + 1] /\ i \in Nat
        BY <3>1, <3>2, <3>3, <4>0
      <4>2. /\ Awaited(p, id) /\ inflight[p] = 0
            /\ \A j \in 1..Len(lines[p]) : lines[p][j].kind = "reply" => i + 1 = j
        BY <2>4, <3>3, <4>1 DEF Owned
      <4>3. ASSUME NEW j \in 1..Len(lines'[p]), lines'[p][j].kind = "reply" PROVE i = j
        <5>1. j + 1 \in 1..Len(lines[p]) /\ lines'[p][j] = lines[p][j + 1] /\ j \in Nat
          BY <3>1, <3>2, <4>0, <4>3
        <5>2. i + 1 = j + 1
          BY <4>2, <4>3, <5>1
        <5> QED BY <4>1, <5>1, <5>2
      <4>4. Awaited(p, id)' /\ inflight'[p] = 0
        BY <2>2, <2>3, <4>2
      <4> QED BY <4>3, <4>4
    <3>4. ASSUME NEW id, id = inflight'[p], id # 0 PROVE Awaited(p, id)'
      BY <2>2, <2>3, <2>4, <3>4 DEF Owned
    <3> QED BY <3>3, <3>4 DEF Owned
  <2> QED BY <2>5, <2>6
<1>10. ASSUME NEW c \in Callers, ReadBadLine(c) \/ ReadEof(c) \/ SelectTimeout(c)
       PROVE  NoForeignAnswer'
  BY <1>10, DisposeLeaveQuiet
  DEF ReadBadLine, ReadEof, SelectTimeout, NextLine, AtSelect
<1>11. ASSUME NEW c \in Callers, SelectClosed(c) PROVE NoForeignAnswer'
  BY <1>11, LeaveQuiet DEF SelectClosed, sidecarVars
<1>12. ASSUME Reap \/ Close PROVE NoForeignAnswer'
  <2>1. lock = None /\ open' \subseteq open
    BY <1>12 DEF Reap, Close, Dispose, sidecarVars
  <2>2. \A p \in open' : inflight'[p] = inflight[p] /\ lines'[p] = lines[p]
    <3>1. CASE UNCHANGED sidecarVars
      BY <3>1 DEF sidecarVars
    <3>2. CASE Dispose(proc)
      BY <1>0, <3>2 DEF Dispose, TypeOK
    <3> QED BY <1>12, <3>1, <3>2 DEF Reap, Close
  <2> QED BY <1>1, <2>1, <2>2
<1>13. ASSUME NEW k \in Callbacks, CallbackStep(k) PROVE NoForeignAnswer'
  <2>1. CASE CallbackReply(k) \/ CallbackDisposeTest(k) \/ CallbackDisposeClear(k)
    BY <2>1, NothingForeign
    DEF CallbackReply, CallbackDisposeTest, CallbackDisposeClear, sidecarVars
  <2>2. CASE CallbackDisposeKill(k)
    <3>1. \A p \in open' : inflight'[p] = inflight[p] /\ lines'[p] = lines[p]
      BY <1>0, <2>2 DEF CallbackDisposeKill, TypeOK
    <3> QED BY <2>2, <3>1, NothingForeign DEF CallbackDisposeKill
  <2> QED BY <1>13, <2>1, <2>2 DEF CallbackStep
<1>14. ASSUME NEW s \in Procs, NEW line \in Line, Emit(s, line), s \in live,
              UNCHANGED <<lock, callerVars, open>>,
              \/ line.kind # "reply" /\ inflight' = inflight
              \/ /\ inflight[s] # 0 /\ line = Reply(inflight[s])
                 /\ inflight' = [inflight EXCEPT ![s] = 0]
       PROVE  NoForeignAnswer'
  <2>1. s \in open /\ lines[s] \in Seq(Line)
    BY <1>14 DEF Bookkeeping, LiveIsOpen, TypeOK
  <2>2. lines'[s] = Append(lines[s], line)
    BY <1>14 DEF Emit, TypeOK
  <2>3. \A p, id : Awaited(p, id)' <=> Awaited(p, id)
    BY <1>14 DEF Awaited, callerVars
  <2> SUFFICES ASSUME NEW p \in open' PROVE Owned(p)'
    BY DEF NoForeignAnswer, Owned
  <2>4. Owned(p)
    BY <1>14, OwnedAll
  <2>5. CASE p # s
    <3>1. lines'[p] = lines[p] /\ inflight'[p] = inflight[p]
      BY <1>0, <1>14, <2>5 DEF Emit, TypeOK
    <3> QED BY <2>3, <2>4, <3>1 DEF Owned
  <2>6. CASE p = s
    <3> DEFINE n == Len(lines[p])
    <3>1. /\ n \in Nat /\ Len(lines'[p]) = n + 1 /\ lines'[p][n + 1] = line
          /\ \A i \in 1..n : lines'[p][i] = lines[p][i]
      BY <2>1, <2>2, <2>6
    <3>2. CASE line.kind # "reply" /\ inflight' = inflight
      <4>1. \A i \in 1..Len(lines'[p]) :
              lines'[p][i].kind = "reply" => i \in 1..n /\ lines'[p][i] = lines[p][i]
        BY <3>1, <3>2
      <4> HIDE DEF n
      <4> QED BY <2>3, <2>4, <3>2, <4>1 DEF Owned, n
    <3>3. CASE /\ inflight[s] # 0 /\ line = Reply(inflight[s])
               /\ inflight' = [inflight EXCEPT ![s] = 0]
      <4>1. \A i \in 1..n : lines[p][i].kind # "reply"
        BY <2>4, <2>6, <3>3 DEF Owned
      <4>2. inflight'[p] = 0 /\ Awaited(p, line.id)'
        BY <2>3, <2>4, <2>6, <3>3 DEF Owned, Reply, TypeOK
      <4>3. \A i \in 1..Len(lines'[p]) :
              lines'[p][i].kind = "reply" => i = n + 1 /\ lines'[p][i] = line
        BY <3>1, <4>1
      <4> HIDE DEF n
      <4> QED BY <4>2, <4>3 DEF Owned
    <3> QED BY <1>14, <3>2, <3>3
  <2> QED BY <2>5, <2>6
<1>15. ASSUME NEW p \in Procs, SidecarReply(p) PROVE NoForeignAnswer'
  <2>1. Reply(inflight[p]) \in Line
    BY DEF TypeOK, Reply, Line
  <2> QED BY <1>14, <1>15, <2>1 DEF SidecarReply
<1>16. ASSUME NEW p \in Procs, NEW k \in Callbacks, SidecarCallback(p, k)
       PROVE  NoForeignAnswer'
  <2>1. Callback(k) \in Line /\ Callback(k).kind # "reply"
    BY DEF Callback, Line
  <2> QED BY <1>14, <1>16, <2>1 DEF SidecarCallback
<1>17. ASSUME NEW p \in Procs, SidecarStray(p) PROVE NoForeignAnswer'
  <2>1. StrayLine \in Line /\ StrayLine.kind # "reply"
    BY DEF StrayLine, Line
  <2> QED BY <1>14, <1>17, <2>1 DEF SidecarStray
<1>18. ASSUME \/ \E p \in Procs : SidecarDies(p)
              \/ CooldownExpires \/ IdleElapses \/ UNCHANGED vars
       PROVE  NoForeignAnswer'
  BY <1>18, NothingForeign
  DEF SidecarDies, CooldownExpires, IdleElapses, vars, sidecarVars
<1> QED
  BY <1>2, <1>3, <1>4, <1>5, <1>6, <1>7, <1>8, <1>9, <1>10, <1>11, <1>12,
     <1>13, <1>15, <1>16, <1>17, <1>18
  DEF Next, CallStep

LEMMA InvInit == Init => IInv
<1> SUFFICES ASSUME Init PROVE IInv
  OBVIOUS
<1>1. Serialized /\ NoForeignAnswer /\ NoOrphan /\ LiveIsOpen
  BY DEF Init, Serialized, NoForeignAnswer, NoOrphan, LiveIsOpen
<1>2. ClosedPipesAreEmpty
  BY DEF Init, ClosedPipesAreEmpty
<1>3. DisposedIsDead
  BY DEF Init, DisposedIsDead, NoProc
<1> QED BY <1>1, <1>2, <1>3, TypeInit DEF IInv

LEMMA InvStep == IInv /\ [Next]_vars => IInv'
  BY TypeStep, SerializedStep, BookkeepingStep, ForeignStep DEF IInv, Bookkeeping

LEMMA InvAlways == Spec => []IInv
  BY InvInit, InvStep, PTL DEF Spec

\* The lock admits one caller into call() at a time.
THEOREM CallsAreSerialized == Spec => []Serialized
<1>1. IInv => Serialized
  BY DEF IInv
<1> QED BY <1>1, InvAlways, PTL

\* No call ever finds in the pipe, or waits for, the answer to another call.
THEOREM AnswersAreOnesOwn == Spec => []NoForeignAnswer
<1>1. IInv => NoForeignAnswer
  BY DEF IInv
<1> QED BY <1>1, InvAlways, PTL

\* One sidecar per client, held by its handle, the lock-free dispose apart.
THEOREM OneSidecar == Spec => []NoOrphan
<1>1. IInv => NoOrphan
  BY DEF IInv
<1> QED BY <1>1, InvAlways, PTL

(* The action property: which steps close the pipes of a live sidecar that *)
(* executes a request.                                                     *)

KilledByItsCaller ==
  \A p \in live : (p \notin open' /\ inflight[p] # 0) =>
    \E c \in Callers : Awaited(p, inflight[p]) /\ lock = c /\ lock' = None

LEMMA KillStep == IInv /\ [Next]_vars => KilledByItsCaller
<1> SUFFICES ASSUME IInv, [Next]_vars, NEW p \in live, p \notin open', inflight[p] # 0
             PROVE  \E c \in Callers : Awaited(p, inflight[p]) /\ lock = c /\ lock' = None
  BY DEF KilledByItsCaller
<1>0. /\ p \in open /\ Awaited(p, inflight[p])
      /\ Serialized /\ NoForeignAnswer /\ DisposedIsDead
  BY DEF IInv, LiveIsOpen, NoForeignAnswer
<1>1. PICK c \in Callers : lock = c /\ pc[c] = "select" /\ target[c] = p
  BY <1>0 DEF Awaited
<1> SUFFICES lock' = None
  BY <1>0, <1>1
<1> USE CallersAssumption
<1>2. lock # None
  BY <1>1
<1>3. ASSUME NEW d \in Callers, CallStep(d), pc[d] # "out" PROVE lock' = None
  <2>1. d = c
    BY <1>0, <1>1, <1>3 DEF Serialized
  <2>2. CASE ReadReply(d) \/ ReadBadLine(d) \/ ReadEof(d) \/ SelectTimeout(d) \/ SelectClosed(d)
    BY <2>2 DEF ReadReply, ReadBadLine, ReadEof, SelectTimeout, SelectClosed, Leave
  <2>3. CASE ReadCallback(d)
    BY <1>0, <2>3 DEF ReadCallback
  <2>4. CASE EnsureCooldown(d) \/ EnsureLive(d) \/ EnsureSpawn(d) \/ EnsureSpawnFails(d)
             \/ Write(d)
    BY <1>1, <2>1, <2>4
    DEF EnsureCooldown, EnsureLive, EnsureSpawn, EnsureSpawnFails, Write
  <2> QED BY <1>3, <2>2, <2>3, <2>4 DEF CallStep
<1>4. ASSUME NEW d \in Callers, CallStep(d) PROVE pc[d] # "out"
  BY <1>4
  DEF CallStep, EnsureCooldown, EnsureLive, EnsureSpawn, EnsureSpawnFails, Write,
      ReadReply, ReadCallback, ReadBadLine, ReadEof, SelectTimeout, SelectClosed,
      NextLine, AtSelect
<1>5. ASSUME NEW d \in Callers, Enter(d) PROVE FALSE
  BY <1>2, <1>5 DEF Enter
<1>6. ASSUME Reap \/ Close PROVE FALSE
  BY <1>2, <1>6 DEF Reap, Close
<1>7. ASSUME NEW k \in Callbacks, CallbackStep(k) PROVE FALSE
  BY <1>0, <1>7
  DEF CallbackStep, CallbackReply, CallbackDisposeTest, CallbackDisposeClear,
      CallbackDisposeKill, DisposedIsDead, sidecarVars
<1>8. ASSUME \/ \E q \in Procs :
                  \/ SidecarReply(q) \/ SidecarStray(q) \/ SidecarDies(q)
                  \/ \E k \in Callbacks : SidecarCallback(q, k)
             \/ CooldownExpires \/ IdleElapses \/ UNCHANGED vars
      PROVE  FALSE
  BY <1>0, <1>8
  DEF SidecarReply, SidecarStray, SidecarDies, SidecarCallback, CooldownExpires,
      IdleElapses, vars, sidecarVars
<1> QED BY <1>3, <1>4, <1>5, <1>6, <1>7, <1>8 DEF Next

\* A sidecar that is executing a request is killed only by that request's own
\* caller, as it leaves call(); never by the sweeper, close() or a callback.
THEOREM CallsAreNotCutShort == Spec => InFlightOnlyKilledByItsCaller
<1>1. IInv /\ [Next]_vars => [KilledByItsCaller]_vars
  BY KillStep
<1>2. Spec => [][KilledByItsCaller]_vars
  BY <1>1, InvAlways, PTL DEF Spec
<1> QED BY <1>2 DEF InFlightOnlyKilledByItsCaller, KilledByItsCaller
-----------------------------------------------------------------------------
(* The client implements the serial channel of SerialCalls. *)

\* A call has a number from when it is given a sidecar until it ends.
Numbered == \A c \in Callers : request[c] = 0 <=> pc[c] \in {"out", "ensure"}

CallVars ==
  <<lock, Current, Written, Worked, Answers, nextId - 1, generation, proc \in live>>

LEMMA NumberedStep ==
  ASSUME TypeOK, Numbered, [Next]_vars
  PROVE  Numbered'
<1> USE DEF Numbered
<1>0. /\ pc \in [Callers -> CallerPc] /\ request \in [Callers -> Nat]
      /\ nextId \in Nat \ {0}
  BY DEF TypeOK
<1>1. ASSUME NEW c \in Callers, Enter(c) PROVE Numbered'
  BY <1>0, <1>1 DEF Enter
<1>2. ASSUME NEW c \in Callers, Leave(c) PROVE Numbered'
  BY <1>0, <1>2 DEF Leave
<1>3. ASSUME NEW c \in Callers, NEW p, Claim(c, p) PROVE Numbered'
  BY <1>0, <1>3 DEF Claim
<1>4. ASSUME NEW c \in Callers, Write(c) PROVE Numbered'
  <2>1. CASE target[c] \in live
    BY <1>0, <1>4, <2>1 DEF Write
  <2>2. CASE target[c] \notin live
    BY <1>2, <1>4, <2>2 DEF Write
  <2> QED BY <2>1, <2>2
<1>5. ASSUME UNCHANGED <<pc, request>> PROVE Numbered'
  BY <1>5
<1>6. ASSUME NEW c \in Callers, CallStep(c) PROVE Numbered'
  <2>1. CASE Write(c)
    BY <1>4, <2>1
  <2>2. CASE EnsureLive(c) \/ EnsureSpawn(c)
    BY <1>3, <2>2 DEF EnsureLive, EnsureSpawn
  <2>3. CASE ReadCallback(c)
    BY <1>5, <2>3 DEF ReadCallback, callerVars
  <2>4. CASE \/ EnsureCooldown(c) \/ EnsureSpawnFails(c) \/ ReadReply(c) \/ ReadBadLine(c)
             \/ ReadEof(c) \/ SelectTimeout(c) \/ SelectClosed(c)
    BY <1>2, <2>4 DEF EnsureCooldown, EnsureSpawnFails, ReadReply, ReadBadLine, ReadEof,
                      SelectTimeout, SelectClosed
  <2> QED BY <1>6, <2>1, <2>2, <2>3, <2>4 DEF CallStep
<1>7. ASSUME NEW k \in Callbacks, CallbackStep(k) PROVE UNCHANGED <<pc, request>>
  BY <1>7 DEF CallbackStep, CallbackReply, CallbackDisposeTest, CallbackDisposeClear,
              CallbackDisposeKill, callerVars
<1>8. ASSUME NEW p \in Procs,
             \/ SidecarReply(p) \/ SidecarStray(p) \/ SidecarDies(p)
             \/ \E k \in Callbacks : SidecarCallback(p, k)
      PROVE  UNCHANGED <<pc, request>>
  BY <1>8 DEF SidecarReply, SidecarStray, SidecarDies, SidecarCallback, callerVars
<1>9. ASSUME Reap \/ Close \/ CooldownExpires \/ IdleElapses \/ UNCHANGED vars
      PROVE  UNCHANGED <<pc, request>>
  BY <1>9 DEF Reap, Close, CooldownExpires, IdleElapses, vars, callerVars
<1> QED BY <1>1, <1>5, <1>6, <1>7, <1>8, <1>9 DEF Next

(* What there is of requests and answers. *)

LEMMA Work ==
  ASSUME NEW r
  PROVE  r \in Worked <=> r # 0 /\ \E p \in live : inflight[p] = r
  BY DEF Worked

LEMMA Answer ==
  ASSUME NEW r
  PROVE  r \in Answers <=>
           \E p \in open : \E i \in 1..Len(lines[p]) :
             lines[p][i].kind = "reply" /\ lines[p][i].id = r
  BY DEF Answers, Replies

LEMMA AnswerNext ==
  ASSUME NEW r
  PROVE  r \in Answers' <=>
           \E p \in open' : \E i \in 1..Len(lines'[p]) :
             lines'[p][i].kind = "reply" /\ lines'[p][i].id = r
  BY DEF Answers, Replies

LEMMA TailIs ==
  ASSUME NEW S, NEW s \in Seq(S), s # <<>>
  PROVE  /\ Len(s) \in Nat \ {0} /\ Len(Tail(s)) = Len(s) - 1 /\ Head(s) = s[1]
         /\ \A i \in 1..Len(Tail(s)) : i + 1 \in 1..Len(s) /\ Tail(s)[i] = s[i + 1]
         /\ \A i \in 1..Len(s) : i # 1 => i - 1 \in 1..Len(Tail(s)) /\ Tail(s)[i - 1] = s[i]
<1>1. Len(s) \in Nat \ {0} /\ Len(Tail(s)) = Len(s) - 1 /\ Head(s) = s[1]
  OBVIOUS
<1>2. \A i \in 1..(Len(s) - 1) : Tail(s)[i] = s[i + 1]
  OBVIOUS
<1> QED BY <1>1, <1>2

LEMMA Pipes ==
  ASSUME IInv
  PROVE  /\ live \subseteq open /\ open \subseteq Procs /\ NoProc \notin live
         /\ inflight \in [Procs -> Nat] /\ lines \in [Procs -> Seq(Line)]
         /\ \A p \in open : lines[p] \in Seq(Line)
<1>1. live \subseteq open /\ open \subseteq 1..generation /\ generation \in 0..MaxSpawns
  BY DEF IInv, LiveIsOpen, TypeOK
<1>2. open \subseteq Procs
  BY <1>1, BoundsAssumption DEF Procs
<1>3. inflight \in [Procs -> Nat] /\ lines \in [Procs -> Seq(Line)]
  BY DEF IInv, TypeOK
<1> QED BY <1>1, <1>2, <1>3 DEF NoProc

\* Only the request of the call in progress is worked on or answered.
LEMMA OnlyCurrent ==
  ASSUME IInv
  PROVE  /\ Worked \cup Answers \subseteq {Current}
         /\ Worked = {} \/ Answers = {}
         /\ ~Written => Worked = {} /\ Answers = {}
<1>0. live \subseteq open /\ open \subseteq Procs
  BY Pipes
<1>1. ASSUME NEW p \in open, NEW r, Awaited(p, r)
      PROVE  /\ r = Current /\ Written
             /\ \E c \in Callers : lock = c /\ target[c] = p
  BY <1>1, CallersAssumption DEF Awaited, Current, Written
<1>2. ASSUME NEW r \in Worked
      PROVE  \E p \in open : inflight[p] = r /\ r # 0 /\ Awaited(p, r)
  BY <1>0, <1>2, Work DEF IInv, NoForeignAnswer
<1>3. ASSUME NEW r \in Answers
      PROVE  \E p \in open : Awaited(p, r) /\ inflight[p] = 0
  <2>1. PICK p \in open : \E i \in 1..Len(lines[p]) :
          lines[p][i].kind = "reply" /\ lines[p][i].id = r
    BY <1>3, Answer
  <2> QED BY <2>1 DEF IInv, NoForeignAnswer
<1>4. ASSUME NEW r \in Worked, NEW s \in Answers PROVE FALSE
  <2>1. PICK p \in open : inflight[p] = r /\ r # 0 /\ Awaited(p, r)
    BY <1>2
  <2>2. PICK q \in open : Awaited(q, s) /\ inflight[q] = 0
    BY <1>3
  <2> QED BY <1>1, <2>1, <2>2
<1>5. Worked \cup Answers \subseteq {Current}
  BY <1>1, <1>2, <1>3
<1>6. ~Written => Worked = {} /\ Answers = {}
  BY <1>1, <1>2, <1>3
<1>7. Worked = {} \/ Answers = {}
  BY <1>4
<1> QED BY <1>5, <1>6, <1>7

\* The same of the next state, for a call that is over.
LEMMA NothingLeft ==
  ASSUME IInv', lock' = None
  PROVE  Current' = 0 /\ Written' = FALSE /\ Worked' = {} /\ Answers' = {}
<1>1. \A c \in Callers : pc'[c] = "out"
  BY CallersAssumption DEF IInv, Serialized
<1>2. Current' = 0 /\ Written' = FALSE
  BY <1>1 DEF Current, Written
<1>3. \A p, r : ~Awaited(p, r)'
  BY <1>1 DEF Awaited
<1>4. \A p \in open' : inflight'[p] = 0
  BY <1>3 DEF IInv, NoForeignAnswer
<1>5. \A p \in open' : \A i \in 1..Len(lines'[p]) : lines'[p][i].kind # "reply"
  BY <1>3 DEF IInv, NoForeignAnswer
<1>6. Worked' = {}
  <2>1. \A p \in live' : inflight'[p] = 0
    BY <1>4 DEF IInv, LiveIsOpen
  <2> QED BY <2>1 DEF Worked
<1>7. Answers' = {}
  BY <1>5, AnswerNext
<1> QED BY <1>2, <1>6, <1>7

\* Nothing of what the channel is made of changes.
LEMMA SameWork ==
  ASSUME UNCHANGED <<live, inflight>>
  PROVE  Worked' = Worked
  BY DEF Worked

LEMMA SameAnswers ==
  ASSUME UNCHANGED <<open, lines>>
  PROVE  Answers' = Answers
  BY DEF Answers, Replies

LEMMA SameCall ==
  ASSUME UNCHANGED <<lock, pc, request>>
  PROVE  Current' = Current /\ Written' = Written
  BY DEF Current, Written

\* A handle that is forgotten or kept.
LEMMA DisposeUp ==
  ASSUME IInv, IInv', NEW p, Dispose(p)
  PROVE  (proc \in live)' = (proc \in live) \/ (proc \in live)' = FALSE
<1>1. CASE proc = p
  BY <1>1 DEF Dispose, IInv, TypeOK, NoProc
<1>2. CASE proc # p
  BY <1>2 DEF Dispose
<1> QED BY <1>1, <1>2

(* The steps *)

LEMMA EndsCall ==
  ASSUME IInv, IInv', NEW c \in Callers, lock = c, Leave(c),
         UNCHANGED <<nextId, generation>>
  PROVE  Calls!Over
<1>1. lock # None /\ lock' = None
  BY CallersAssumption DEF Leave
<1> QED BY <1>1, NothingLeft DEF Calls!Over

LEMMA CallImplements ==
  ASSUME IInv, IInv', Numbered, NEW c \in Callers, Enter(c) \/ CallStep(c)
  PROVE  [Calls!Next]_CallVars
<1> USE CallersAssumption DEF IInv
<1>0. /\ pc \in [Callers -> CallerPc] /\ request \in [Callers -> Nat]
      /\ nextId \in Nat \ {0} /\ proc \in 0..generation /\ generation \in Nat
  <2>1. /\ pc \in [Callers -> CallerPc] /\ request \in [Callers -> Nat]
        /\ nextId \in Nat \ {0} /\ proc \in 0..generation /\ generation \in 0..MaxSpawns
    BY Zenon DEF TypeOK
  <2>2. generation \in Nat
    BY <2>1, BoundsAssumption
  <2> QED BY <2>1, <2>2
<1>1. CASE Enter(c)
  <2>1. /\ lock = None /\ lock' = c /\ pc[c] = "out" /\ c # None
        /\ UNCHANGED <<request, proc, generation, nextId, live, open, inflight, lines>>
    BY <1>1 DEF Enter, clientVars, sidecarVars
  <2>2. Current = 0 /\ Current' = 0
    BY <2>1 DEF Current, Numbered
  <2>3. Written' = Written
    <3>1. \A d \in Callers : pc'[d] = "select" <=> pc[d] = "select"
      BY <1>0, <1>1 DEF Enter
    <3> QED BY <3>1 DEF Written
  <2>4. Calls!Begin(c)
    BY <2>1, <2>2, <2>3, SameWork, SameAnswers DEF Calls!Begin
  <2> QED BY <2>4 DEF Calls!Next
<1> SUFFICES ASSUME CallStep(c)
             PROVE  [Calls!Next]_CallVars
  BY <1>1
<1>2. pc[c] # "out" /\ lock = c /\ lock # None
  BY DEF Serialized, CallStep, EnsureCooldown, EnsureLive, EnsureSpawn, EnsureSpawnFails,
         Write, ReadReply, ReadCallback, ReadBadLine, ReadEof, SelectTimeout, SelectClosed,
         NextLine, AtSelect
<1>3. ASSUME Leave(c), UNCHANGED <<nextId, generation>>,
             (proc \in live)' = (proc \in live) \/ (proc \in live)' = FALSE
      PROVE  Calls!Next
  <2>1. Calls!Raise
    BY <1>2, <1>3, EndsCall DEF Calls!Raise
  <2> QED BY <2>1 DEF Calls!Next
<1>4. CASE EnsureCooldown(c) \/ SelectClosed(c)
  <2>1. Leave(c) /\ UNCHANGED <<nextId, generation, proc, live>>
    BY <1>4 DEF EnsureCooldown, SelectClosed, clientVars, sidecarVars
  <2> QED BY <1>3, <2>1
<1>5. CASE EnsureSpawnFails(c)
  <2>1. Leave(c) /\ UNCHANGED <<nextId, generation>>
    BY <1>5 DEF EnsureSpawnFails
  <2>2. CASE proc = NoProc
    BY <1>3, <1>5, <2>1, <2>2 DEF EnsureSpawnFails, sidecarVars
  <2>3. CASE proc # NoProc
    BY <1>3, <1>5, <2>1, <2>3, DisposeUp DEF EnsureSpawnFails
  <2> QED BY <2>2, <2>3
<1>6. CASE ReadBadLine(c) \/ ReadEof(c) \/ SelectTimeout(c)
  <2>1. Leave(c) /\ Dispose(target[c]) /\ UNCHANGED <<nextId, generation>>
    BY <1>6 DEF ReadBadLine, ReadEof, SelectTimeout
  <2> QED BY <1>3, <2>1, DisposeUp
<1>7. CASE EnsureLive(c) \/ EnsureSpawn(c)
  <2>1. /\ pc[c] = "ensure" /\ pc' = [pc EXCEPT ![c] = "write"] /\ lock' = lock
        /\ request' = [request EXCEPT ![c] = nextId] /\ nextId' = nextId + 1
    BY <1>7 DEF EnsureLive, EnsureSpawn, Claim
  <2>2. Current = 0 /\ Current' = nextId
    BY <1>0, <1>2, <2>1 DEF Current, Numbered
  <2>3. Written = FALSE /\ Written' = FALSE
    <3>1. \A d \in Callers : pc[d] # "select" /\ pc'[d] # "select"
      BY <1>0, <1>2, <2>1 DEF Serialized
    <3> QED BY <3>1 DEF Written
  <2>4. Worked = {} /\ Answers = {}
    BY <2>3, OnlyCurrent
  <2>5. Worked' = {} /\ Answers' = {}
    <3>1. \A p, r : ~Awaited(p, r)'
      BY <2>3 DEF Awaited, Written
    <3>2. \A p \in live' : inflight'[p] = 0
      BY <3>1 DEF NoForeignAnswer, LiveIsOpen
    <3>3. \A p \in open' : \A i \in 1..Len(lines'[p]) : lines'[p][i].kind # "reply"
      BY <3>1 DEF NoForeignAnswer
    <3>4. Worked' = {}
      BY <3>2 DEF Worked
    <3>5. Answers' = {}
      BY <3>3, AnswerNext
    <3> QED BY <3>4, <3>5
  <2>6. /\ (proc \in live)' = TRUE
        /\ generation' = IF proc \in live THEN generation ELSE generation + 1
    BY <1>7 DEF EnsureLive, EnsureSpawn, Spawn, sidecarVars
  <2>7. /\ (nextId - 1)' = (nextId - 1) + 1
        /\ nextId = (nextId - 1) + 1
    BY <1>0, <2>1
  <2>8. Calls!Number
    BY <1>2, <2>1, <2>2, <2>3, <2>4, <2>5, <2>6, <2>7 DEF Calls!Number
  <2> QED BY <2>8 DEF Calls!Next
<1>8. CASE Write(c)
  <2>1. CASE target[c] \notin live
    BY <1>3, <1>8, <2>1, DisposeUp DEF Write
  <2>2. CASE target[c] \in live
    <3>1. /\ pc[c] = "write" /\ pc' = [pc EXCEPT ![c] = "select"]
          /\ inflight' = [inflight EXCEPT ![target[c]] = request[c]]
          /\ UNCHANGED <<lock, request, proc, live, open, lines, generation, nextId>>
      BY <1>8, <2>2 DEF Write
    <3>2. request[c] # 0 /\ Current = request[c] /\ Current' = Current
      BY <1>2, <3>1 DEF Current, Numbered
    <3>3. Written = FALSE
      <4>1. \A d \in Callers : pc[d] # "select"
        BY <1>2, <3>1 DEF Serialized
      <4> QED BY <4>1 DEF Written
    <3>4. Written' = TRUE
      BY <1>0, <3>1 DEF Written
    <3>5. Worked = {} /\ Answers = {}
      BY <3>3, OnlyCurrent
    <3>6. Worked' = {request[c]}
      <4>1. \A p \in live : p # target[c] => inflight[p] = 0
        BY <3>5, Work
      <4>2. live \subseteq Procs /\ inflight \in [Procs -> Nat]
        BY Pipes
      <4>3. \A p \in live' : inflight'[p] = IF p = target[c] THEN request[c] ELSE 0
        BY <3>1, <4>1, <4>2
      <4>4. target[c] \in live'
        BY <2>2, <3>1
      <4>5. Worked' = {IF p = target[c] THEN request[c] ELSE 0 : p \in live'} \ {0}
        BY <4>3 DEF Worked
      <4> QED BY <3>2, <4>4, <4>5
    <3>7. Calls!Write
      BY <3>1, <3>2, <3>3, <3>4, <3>5, <3>6, SameAnswers DEF Calls!Write
    <3> QED BY <3>7 DEF Calls!Next
  <2> QED BY <2>1, <2>2
<1>9. CASE ReadReply(c)
  <2> DEFINE p == target[c]
  <2>1. /\ Leave(c) /\ pc[c] = "select" /\ p \in open
        /\ lines[p] # <<>> /\ Head(lines[p]).kind = "reply" /\ Head(lines[p]).id = request[c]
        /\ UNCHANGED <<proc, generation, nextId, live>>
    BY <1>9 DEF ReadReply, NextLine, AtSelect
  <2>2. Calls!Over
    BY <1>2, <2>1, EndsCall
  <2>3. Written /\ Current = request[c]
    BY <1>2, <2>1 DEF Written, Current
  <2>4. request[c] \in Answers
    <3>1. lines[p] \in Seq(Line)
      BY <2>1, Pipes
    <3>2. 1 \in 1..Len(lines[p]) /\ Head(lines[p]) = lines[p][1]
      BY <2>1, <3>1
    <3> QED BY <2>1, <3>2, Answer
  <2>5. Answers = {Current}
    BY <2>3, <2>4, OnlyCurrent
  <2>6. Calls!Return
    BY <2>1, <2>2, <2>3, <2>5 DEF Calls!Return
  <2> QED BY <2>6 DEF Calls!Next
<1>10. CASE ReadCallback(c)
  <2> DEFINE p == target[c]
  <2>1. /\ pc[c] = "select" /\ p \in open
        /\ lines[p] # <<>> /\ Head(lines[p]).kind = "callback"
        /\ lines' = [lines EXCEPT ![p] = Tail(lines[p])]
        /\ UNCHANGED <<lock, pc, request, proc, generation, nextId, live, open, inflight>>
    BY <1>10 DEF ReadCallback, NextLine, AtSelect, TakeLine, callerVars
  <2>2. lines \in [Procs -> Seq(Line)] /\ open \subseteq Procs
    BY Pipes
  <2>3. Answers' = Answers
    <3>0. /\ lines[p] \in Seq(Line) /\ lines'[p] = Tail(lines[p])
          /\ \A q \in open : q # p => lines'[q] = lines[q]
      BY <2>1, <2>2
    <3>1. lines[p][1].kind = "callback"
      BY <2>1, <3>0, TailIs
    <3> DEFINE t == Tail(lines[p])
    <3>a. lines[p] # <<>> /\ lines'[p] = t
      BY <2>1, <3>0
    <3>b. /\ \A i \in 1..Len(t) : i + 1 \in 1..Len(lines[p]) /\ t[i] = lines[p][i + 1]
          /\ \A i \in 1..Len(lines[p]) : i # 1 => i - 1 \in 1..Len(t) /\ t[i - 1] = lines[p][i]
      BY <3>0, <3>a, TailIs
    <3>2. \A i \in 1..Len(lines'[p]) : i + 1 \in 1..Len(lines[p]) /\ lines'[p][i] = lines[p][i + 1]
      BY <3>a, <3>b
    <3>3. \A i \in 1..Len(lines[p]) :
            i # 1 => i - 1 \in 1..Len(lines'[p]) /\ lines'[p][i - 1] = lines[p][i]
      BY <3>a, <3>b
    <3> HIDE DEF t
    <3>4. ASSUME NEW r \in Answers PROVE r \in Answers'
      <4>1. PICK q \in open : \E i \in 1..Len(lines[q]) :
              lines[q][i].kind = "reply" /\ lines[q][i].id = r
        BY <3>4, Answer
      <4>2. PICK i \in 1..Len(lines[q]) : lines[q][i].kind = "reply" /\ lines[q][i].id = r
        BY <4>1
      <4>3. CASE q # p
        BY <2>1, <3>0, <4>2, <4>3, AnswerNext
      <4>4. CASE q = p
        <5>1. i # 1
          BY <3>1, <4>2, <4>4
        <5>2. i - 1 \in 1..Len(lines'[q]) /\ lines'[q][i - 1] = lines[q][i]
          BY <3>3, <4>4, <5>1
        <5>3. \E j \in 1..Len(lines'[q]) : lines'[q][j].kind = "reply" /\ lines'[q][j].id = r
          BY <4>2, <5>2
        <5>4. q \in open'
          BY <2>1
        <5> QED BY <5>3, <5>4, AnswerNext, Zenon
      <4> QED BY <4>3, <4>4
    <3>5. ASSUME NEW r \in Answers' PROVE r \in Answers
      <4>1. PICK q \in open : \E i \in 1..Len(lines'[q]) :
              lines'[q][i].kind = "reply" /\ lines'[q][i].id = r
        BY <2>1, <3>5, AnswerNext
      <4>2. PICK i \in 1..Len(lines'[q]) : lines'[q][i].kind = "reply" /\ lines'[q][i].id = r
        BY <4>1
      <4>3. CASE q # p
        BY <3>0, <4>2, <4>3, Answer
      <4>4. CASE q = p
        <5>1. i + 1 \in 1..Len(lines[q]) /\ lines[q][i + 1] = lines'[q][i]
          BY <3>2, <4>4
        <5> QED BY <4>2, <5>1, Answer
      <4> QED BY <4>3, <4>4
    <3> QED BY <3>4, <3>5
  <2> QED BY <2>1, <2>3, SameCall, SameWork DEF CallVars
<1> QED BY <1>4, <1>5, <1>6, <1>7, <1>8, <1>9, <1>10 DEF CallStep

LEMMA OthersImplement ==
  ASSUME IInv, IInv', Reap \/ Close \/ (\E k \in Callbacks : CallbackStep(k))
  PROVE  [Calls!Next]_CallVars
<1> USE DEF IInv
<1>0. /\ NoProc \notin live /\ live \subseteq open /\ open \subseteq Procs
      /\ inflight \in [Procs -> Nat] /\ lines \in [Procs -> Seq(Line)]
  BY Pipes
<1>1. CASE Reap \/ Close
  <2>1. lock = None /\ lock' = None /\ UNCHANGED <<pc, request, generation, nextId>>
    BY <1>1 DEF Reap, Close, callerVars
  <2>2. (proc \in live)' = FALSE
    BY <1>0, <1>1 DEF Reap, Close, Dispose, sidecarVars
  <2>3. Current = 0 /\ Written = FALSE
    <3>1. \A d \in Callers : pc[d] = "out"
      BY <2>1, CallersAssumption DEF Serialized
    <3> QED BY <2>1, <3>1 DEF Current, Written
  <2>4. Worked = {} /\ Answers = {}
    BY <2>3, OnlyCurrent
  <2>5. Current' = 0 /\ Written' = FALSE /\ Worked' = {} /\ Answers' = {}
    BY <2>1, NothingLeft
  <2>6. Calls!Stop
    BY <2>1, <2>2, <2>3, <2>4, <2>5 DEF Calls!Stop
  <2> QED BY <2>6 DEF Calls!Next
<1>2. ASSUME NEW k \in Callbacks, CallbackReply(k) \/ CallbackDisposeTest(k)
      PROVE  UNCHANGED CallVars
  <2>1. UNCHANGED <<lock, pc, request, proc, generation, nextId, live, open, inflight, lines>>
    BY <1>2 DEF CallbackReply, CallbackDisposeTest, callerVars, clientVars, sidecarVars
  <2> QED BY <2>1, SameCall, SameWork, SameAnswers DEF CallVars
<1>3. ASSUME NEW k \in Callbacks, CallbackDisposeClear(k)
      PROVE  Calls!Next
  <2>1. /\ UNCHANGED <<lock, pc, request, generation, nextId, live, open, inflight, lines>>
        /\ proc' = NoProc
    BY <1>3 DEF CallbackDisposeClear, callerVars, sidecarVars
  <2>2. (proc \in live)' = FALSE
    BY <1>0, <2>1
  <2>3. Calls!Lose
    BY <2>1, <2>2, SameCall, SameWork, SameAnswers DEF Calls!Lose
  <2> QED BY <2>3 DEF Calls!Next
<1>4. ASSUME NEW k \in Callbacks, CallbackDisposeKill(k)
      PROVE  [Calls!Next]_CallVars
  <2> DEFINE p == cbTarget[k]
  <2>1. /\ p \notin live /\ live' = live /\ open' = open \ {p}
        /\ inflight' = [inflight EXCEPT ![p] = 0] /\ lines' = [lines EXCEPT ![p] = <<>>]
        /\ UNCHANGED <<lock, pc, request, proc, generation, nextId>>
    BY <1>4 DEF CallbackDisposeKill, DisposedIsDead, callerVars, clientVars
  <2>3. Worked' = Worked
    <3>1. \A q \in live : inflight'[q] = inflight[q]
      BY <1>0, <2>1
    <3> QED BY <2>1, <3>1 DEF Worked
  <2>4. \A q \in open' : q \in open /\ lines'[q] = lines[q]
    BY <1>0, <2>1
  <2>5. Answers' \subseteq Answers
    BY <2>4, Answer, AnswerNext
  <2>6. CASE Answers' = Answers
    BY <2>1, <2>3, <2>6, SameCall DEF CallVars
  <2>7. CASE Answers' # Answers
    <3>1. Answers # {} /\ Answers \subseteq {Current} /\ Worked = {}
      BY <2>5, <2>7, OnlyCurrent
    <3>2. Answers' = {}
      BY <2>5, <2>7, <3>1
    <3>3. Calls!CloseDead
      BY <2>1, <2>3, <3>1, <3>2, SameCall DEF Calls!CloseDead
    <3> QED BY <3>3 DEF Calls!Next
  <2> QED BY <2>6, <2>7
<1> QED BY <1>1, <1>2, <1>3, <1>4 DEF CallbackStep

LEMMA SidecarImplements ==
  ASSUME IInv, IInv', Numbered, NEW p \in Procs,
         \/ SidecarReply(p) \/ SidecarStray(p) \/ SidecarDies(p)
         \/ \E k \in Callbacks : SidecarCallback(p, k)
  PROVE  [Calls!Next]_CallVars
<1> USE DEF IInv
<1>0. /\ live \subseteq open /\ open \subseteq Procs
      /\ inflight \in [Procs -> Nat] /\ lines \in [Procs -> Seq(Line)]
      /\ \A q \in open : lines[q] \in Seq(Line)
  BY Pipes
<1>1. CASE SidecarReply(p)
  <2> DEFINE r == inflight[p]
  <2>1. /\ p \in live /\ r # 0
        /\ lines' = [lines EXCEPT ![p] = Append(lines[p], Reply(r))]
        /\ inflight' = [inflight EXCEPT ![p] = 0]
        /\ UNCHANGED <<lock, pc, request, proc, generation, nextId, live, open>>
    BY <1>1 DEF SidecarReply, Emit, callerVars, clientVars
  <2>2. r \in Worked
    BY <2>1, Work
  <2>3. Worked = {Current} /\ Answers = {} /\ r = Current
    BY <2>2, OnlyCurrent
  <2>4. PICK c \in Callers : lock = c /\ target[c] = p /\ pc[c] = "select"
    BY <1>0, <2>1 DEF NoForeignAnswer, Awaited
  <2>5. Worked' = {}
    <3>1. \A q \in live : q # p => inflight[q] = 0
      <4> SUFFICES ASSUME NEW q \in live, q # p, inflight[q] # 0 PROVE FALSE
        OBVIOUS
      <4>1. Awaited(q, inflight[q])
        BY <1>0 DEF NoForeignAnswer
      <4> QED BY <2>4, <4>1 DEF Awaited
    <3>2. \A q \in live' : inflight'[q] = 0
      BY <1>0, <2>1, <3>1
    <3> QED BY <3>2 DEF Worked
  <2>6. Answers' = {r}
    <3>0. /\ lines'[p] = Append(lines[p], Reply(r)) /\ lines[p] \in Seq(Line)
          /\ \A q \in open : q # p => lines'[q] = lines[q]
          /\ p \in open'
      BY <1>0, <2>1
    <3>1. r \in Answers'
      <4>1. /\ Len(lines[p]) + 1 \in 1..Len(lines'[p])
            /\ lines'[p][Len(lines[p]) + 1] = Reply(r)
        BY <3>0
      <4> QED BY <3>0, <4>1, AnswerNext DEF Reply
    <3>2. ASSUME NEW s \in Answers', s # r PROVE FALSE
      <4>1. PICK q \in open : \E i \in 1..Len(lines'[q]) :
              lines'[q][i].kind = "reply" /\ lines'[q][i].id = s
        BY <2>1, <3>2, AnswerNext
      <4>2. PICK i \in 1..Len(lines'[q]) : lines'[q][i].kind = "reply" /\ lines'[q][i].id = s
        BY <4>1
      <4>3. i \in 1..Len(lines[q]) /\ lines'[q][i] = lines[q][i]
        <5>1. CASE q # p
          BY <3>0, <4>2, <5>1
        <5>2. CASE q = p
          <6>1. /\ Len(lines'[p]) = Len(lines[p]) + 1 /\ Len(lines[p]) \in Nat
                /\ lines'[p][Len(lines[p]) + 1] = Reply(r)
                /\ \A j \in 1..Len(lines[p]) : lines'[p][j] = lines[p][j]
            BY <3>0
          <6>2. i # Len(lines[p]) + 1
            BY <3>2, <4>2, <5>2, <6>1 DEF Reply
          <6>3. i \in 1..Len(lines[p])
            BY <4>2, <5>2, <6>1, <6>2
          <6> QED BY <5>2, <6>1, <6>3
        <5> QED BY <5>1, <5>2
      <4>4. s \in Answers
        BY <4>2, <4>3, Answer
      <4> QED BY <2>3, <4>4
    <3> QED BY <3>1, <3>2
  <2>7. Calls!Answer
    BY <2>1, <2>3, <2>5, <2>6, SameCall DEF Calls!Answer
  <2> QED BY <2>7 DEF Calls!Next
<1>2. ASSUME NEW line, line.kind # "reply", p \in live, Emit(p, line),
             UNCHANGED <<lock, pc, request, proc, generation, nextId, live, open, inflight>>
      PROVE  UNCHANGED CallVars
  <2>1. /\ lines'[p] = Append(lines[p], line) /\ lines[p] \in Seq(Line)
        /\ \A q \in open : q # p => lines'[q] = lines[q]
    BY <1>0, <1>2 DEF Emit
  <2>2. /\ Len(lines'[p]) = Len(lines[p]) + 1 /\ Len(lines[p]) \in Nat
        /\ lines'[p][Len(lines[p]) + 1] = line
        /\ \A i \in 1..Len(lines[p]) : lines'[p][i] = lines[p][i]
    BY <2>1
  <2>3. \A q \in open : \A i : i \in 1..Len(lines'[q]) /\ lines'[q][i].kind = "reply" <=>
                                i \in 1..Len(lines[q]) /\ lines[q][i].kind = "reply"
    <3> SUFFICES ASSUME NEW q \in open, NEW i
                 PROVE  i \in 1..Len(lines'[q]) /\ lines'[q][i].kind = "reply" <=>
                        i \in 1..Len(lines[q]) /\ lines[q][i].kind = "reply"
      OBVIOUS
    <3>1. CASE q # p
      BY <2>1, <3>1
    <3>2. CASE q = p
      <4>1. i \in 1..Len(lines'[p]) <=> i \in 1..Len(lines[p]) \/ i = Len(lines[p]) + 1
        BY <2>2
      <4> QED BY <1>2, <2>2, <3>2, <4>1
    <3> QED BY <3>1, <3>2
  <2>4. Answers' = Answers
    <3>1. \A q \in open : \A i \in 1..Len(lines[q]) : lines'[q][i] = lines[q][i]
      BY <2>1, <2>2
    <3>2. \A r : r \in Answers' <=> r \in Answers
      BY <1>2, <2>3, <3>1, Answer, AnswerNext
    <3> QED BY <3>2
  <2> QED BY <1>2, <2>4, SameCall, SameWork DEF CallVars
<1>3. CASE SidecarStray(p) \/ \E k \in Callbacks : SidecarCallback(p, k)
  <2>1. UNCHANGED CallVars
    BY <1>2, <1>3 DEF SidecarStray, SidecarCallback, StrayLine, Callback, callerVars, clientVars
  <2> QED BY <2>1
<1>4. CASE SidecarDies(p)
  <2>1. /\ live' = live \ {p}
        /\ UNCHANGED <<lock, pc, request, proc, generation, nextId, open, inflight, lines>>
    BY <1>4 DEF SidecarDies, callerVars, clientVars
  <2>2. Worked' \subseteq Worked
    BY <2>1 DEF Worked
  <2>3. Worked' = Worked \/ Worked' = {}
    BY <2>2, OnlyCurrent
  <2>4. (proc \in live)' = (proc \in live) \/ (proc \in live)' = FALSE
    BY <2>1
  <2>5. Calls!Lose
    BY <2>1, <2>3, <2>4, SameCall, SameAnswers DEF Calls!Lose
  <2> QED BY <2>5 DEF Calls!Next
<1> QED BY <1>1, <1>3, <1>4

\* Whatever host threads, sweeper, callback threads and sidecars do, the client
\* is a serial channel: one numbered call at a time, written once, returning
\* its own answer, and over when it ends.
THEOREM ClientIsSerial == Spec => CallsAreSerial
<1>1. Init => Calls!Init
  <2> SUFFICES ASSUME Init PROVE Calls!Init
    OBVIOUS
  <2>1. Current = 0 /\ Written = FALSE
    BY DEF Init, Current, Written
  <2>2. Worked = {} /\ Answers = {}
    BY DEF Init, Worked, Answers
  <2>3. (proc \in live) = FALSE /\ nextId - 1 = 0
    BY DEF Init
  <2> QED BY <2>1, <2>2, <2>3 DEF Init, Calls!Init
<1>2. IInv /\ IInv' /\ Numbered /\ [Next]_vars => [Calls!Next]_CallVars
  <2> SUFFICES ASSUME IInv, IInv', Numbered, [Next]_vars
               PROVE  [Calls!Next]_CallVars
    OBVIOUS
  <2>1. CASE CooldownExpires \/ IdleElapses \/ UNCHANGED vars
    <3>1. UNCHANGED <<lock, pc, request, proc, generation, nextId, live, open, inflight, lines>>
      BY <2>1 DEF CooldownExpires, IdleElapses, vars, callerVars, clientVars, sidecarVars
    <3> QED BY <3>1, SameCall, SameWork, SameAnswers DEF CallVars
  <2> QED BY <2>1, CallImplements, OthersImplement, SidecarImplements DEF Next
<1>3. Init => Numbered
  BY DEF Init, Numbered
<1>4. IInv /\ Numbered /\ [Next]_vars => Numbered'
  BY NumberedStep DEF IInv
<1> QED BY <1>1, <1>2, <1>3, <1>4, InvAlways, PTL
        DEF Spec, CallsAreSerial, Calls!Spec, CallVars, Calls!calls
================================================================================
