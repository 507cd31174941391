---------------------------- MODULE CommandLineProofs ----------------------------
(***************************************************************************)
(* Proofs about CommandLine, for any number of processes that configure,   *)
(* pids, holders that start again and runs of the repair.                  *)
(***************************************************************************)
EXTENDS CommandLine, TLAPS

-----------------------------------------------------------------------------
(* install: the invariant of runs no two of which had the temporary file   *)
(* at once                                                                 *)

WLabels == {"off", "again", "configure", "open", "write", "replace", "lease"}
Saving  == {"open", "write", "replace"}
InFile  == {"write", "replace"}

WiringType ==
  /\ config \in Docs
  /\ role \in [Procs -> {"none", "converge", "install"}]
  /\ wpc \in [Procs -> WLabels]
  /\ doc \in [Procs -> Docs \cup {None}]
  /\ fd \in [Procs -> {"none", "tmp", "config", "lost"}]
  /\ \A p \in Procs : role[p] = "none" => wpc[p] = "off"

\* The temporary file is one process's, which is what a crowd would break: its
\* open file goes by the temporary name, is empty until it has written it, and
\* its whole document after that.
OneWriter ==
  /\ \A p, q \in Procs : wpc[p] \in InFile /\ wpc[q] \in InFile => p = q
  /\ \A p \in Procs :
       /\ fd[p] = IF wpc[p] = "write" THEN "tmp" ELSE "none"
       /\ wpc[p] = "write" => tmp = Empty
       /\ wpc[p] = "replace" => tmp = doc[p]

\* What is about to be saved is wired and has the operator's other settings.
DocWired ==
  \A p \in Procs : wpc[p] \in Saving =>
    doc[p] \in Docs /\ doc[p].rest /\ doc[p].engine = "wired" /\ doc[p].provider = "wired"

Untouched(d) ==
  \/ d.engine = "factory" /\ d.provider = "factory"
  \/ d.engine = "wired" /\ d.provider = "wired"

\* A convergence that no operator's act has overtaken saves over nothing of his.
Overtaken ==
  \A p \in Procs : role[p] = "converge" /\ p \notin edited =>
    /\ wpc[p] \in Saving \cup {"configure"} => Untouched(config)
    /\ wpc[p] \in Saving => doc[p].enabled = config.enabled

WiringIInv ==
  crowded \/ (WiringType /\ config.rest /\ ~overrun /\ OneWriter /\ DocWired /\ Overtaken)

\* An untouched document is not deliberate.
LEMMA ClassifyDocs ==
  ASSUME NEW d \in Docs
  PROVE  /\ Parsed(d) = d
         /\ Classify(d) = "deliberate" <=> ~Untouched(d)
         /\ Classify(d) = "repairable" => Untouched(d)
<1>1. d # Garbled /\ d # Empty
  BY FilesAssumption
<1>2. Parsed(d) = d
  BY <1>1 DEF Parsed
<1> QED BY <1>1, <1>2 DEF Classify, Untouched

LEMMA RestInv == Rest => WiringIInv
<1> SUFFICES ASSUME Rest PROVE WiringIInv
  OBVIOUS
<1>1. config = [engine |-> "factory", provider |-> "factory", enabled |-> TRUE, rest |-> TRUE]
  BY DEF Rest, NoSettings
<1>2. config \in Docs /\ config.rest
  BY <1>1 DEF Docs, Values
<1> QED BY <1>2 DEF Rest, WiringIInv, WiringType, WLabels, OneWriter, DocWired, Overtaken, Saving, InFile

LEMMA WiringStep ==
  ASSUME WiringIInv, WiringNext
  PROVE  WiringIInv'
<1>1. CASE crowded
  <2>1. crowded'
    BY <1>1 DEF WiringNext, Configure, FirstLook, SecondLook, StartInstall, Read, Open, Write,
                Replace, ReplaceFails, Lease, Die, Clobber, Operator
  <2> QED BY <2>1 DEF WiringIInv
<1> SUFFICES ASSUME ~crowded, ~crowded'
             PROVE  /\ WiringType' /\ config'.rest /\ ~overrun'
                    /\ OneWriter' /\ DocWired' /\ Overtaken'
  BY <1>1 DEF WiringIInv
<1>2. WiringType /\ config.rest /\ ~overrun /\ OneWriter /\ DocWired /\ Overtaken
  BY DEF WiringIInv
<1> USE <1>2
<1>3. ASSUME NEW p \in Procs, Leave(p), UNCHANGED <<config, tmp, overrun>>
      PROVE  /\ WiringType' /\ config'.rest /\ ~overrun'
             /\ OneWriter' /\ DocWired' /\ Overtaken'
  <2>1. WiringType'
    BY <1>3 DEF Leave, Goto, WiringType, WLabels
  <2>2. OneWriter'
    BY <1>3 DEF Leave, Goto, WiringType, OneWriter, InFile
  <2>3. DocWired'
    BY <1>3 DEF Leave, Goto, WiringType, DocWired, Saving
  <2>4. Overtaken'
    BY <1>3 DEF Leave, Goto, WiringType, Overtaken, Saving
  <2> QED BY <1>3, <2>1, <2>2, <2>3, <2>4
<1>4. ASSUME NEW p \in Procs, FirstLook(p)
      PROVE  WiringType' /\ config'.rest /\ ~overrun' /\ OneWriter' /\ DocWired' /\ Overtaken'
  BY <1>4 DEF FirstLook, Goto, fileVars, WiringType, WLabels, OneWriter, DocWired, Overtaken,
              InFile, Saving
<1>5. ASSUME NEW p \in Procs, SecondLook(p)
      PROVE  WiringType' /\ config'.rest /\ ~overrun' /\ OneWriter' /\ DocWired' /\ Overtaken'
  <2>1. CASE Classify(config) = "repairable"
    <3>1. /\ wpc[p] = "again" /\ wpc' = [wpc EXCEPT ![p] = "configure"]
          /\ edited' = edited \ {p} /\ UNCHANGED <<config, tmp, role, doc, fd, overrun>>
      BY <1>5, <2>1 DEF SecondLook, Fresh, Goto, fileVars
    <3>2. Untouched(config)
      BY <2>1, ClassifyDocs DEF WiringType
    <3>3. Overtaken'
      BY <3>1, <3>2 DEF Overtaken, Saving, WiringType, Untouched
    <3> QED BY <3>1, <3>3 DEF WiringType, WLabels, OneWriter, DocWired, InFile, Saving
  <2>2. CASE Classify(config) # "repairable"
    BY <1>3, <1>5, <2>2 DEF SecondLook, Fresh, fileVars
  <2> QED BY <2>1, <2>2
<1>6. ASSUME NEW p \in Procs, StartInstall(p)
      PROVE  WiringType' /\ config'.rest /\ ~overrun' /\ OneWriter' /\ DocWired' /\ Overtaken'
  BY <1>6 DEF StartInstall, Goto, fileVars, WiringType, WLabels, OneWriter, DocWired, Overtaken,
              InFile, Saving
<1>7. ASSUME NEW p \in Procs, Read(p)
      PROVE  WiringType' /\ config'.rest /\ ~overrun' /\ OneWriter' /\ DocWired' /\ Overtaken'
  <2>1. config # Garbled /\ Parsed(config) = config
    BY ClassifyDocs, FilesAssumption DEF WiringType
  <2>2. UNCHANGED <<config, tmp, overrun>> /\ wpc[p] = "configure"
    BY <1>7 DEF Read, fileVars
  <2>3. CASE Leave(p)
    BY <1>3, <2>2, <2>3
  <2>4. CASE Goto(p, "lease") /\ UNCHANGED <<role, doc, fd, edited>>
    BY <2>2, <2>4 DEF Goto, WiringType, WLabels, OneWriter, DocWired, Overtaken, InFile, Saving
  <2>5. CASE /\ doc' = [doc EXCEPT ![p] = Wired(p, config)] /\ Goto(p, "open")
             /\ UNCHANGED <<role, fd, edited>>
    <3>1. /\ Wired(p, config) \in Docs /\ Wired(p, config).rest
          /\ Wired(p, config).engine = "wired" /\ Wired(p, config).provider = "wired"
          /\ role[p] = "converge" => Wired(p, config).enabled = config.enabled
      BY DEF Wired, MayEnable, WiringType, Docs, Values
    <3>2. WiringType'
      BY <2>2, <2>5, <3>1 DEF WiringType, WLabels, Goto
    <3>3. OneWriter'
      BY <2>2, <2>5 DEF WiringType, OneWriter, Goto, InFile
    <3>4. DocWired'
      BY <2>2, <2>5, <3>1 DEF WiringType, DocWired, Goto, Saving
    <3>5. Overtaken'
      BY <2>2, <2>5, <3>1 DEF WiringType, Overtaken, Goto, Saving
    <3> QED BY <2>2, <3>2, <3>3, <3>4, <3>5
  <2> QED BY <1>7, <2>1, <2>3, <2>4, <2>5 DEF Read
<1>8. ASSUME NEW p \in Procs, Open(p)
      PROVE  WiringType' /\ config'.rest /\ ~overrun' /\ OneWriter' /\ DocWired' /\ Overtaken'
  <2>1. /\ wpc[p] = "open" /\ wpc' = [wpc EXCEPT ![p] = "write"]
        /\ tmp' = Empty /\ fd' = [fd EXCEPT ![p] = "tmp"]
        /\ UNCHANGED <<config, role, doc, edited, overrun>>
    BY <1>8 DEF Open, Goto
  <2>2. \A q \in Procs \ {p} : wpc[q] \notin InFile
    BY <1>8 DEF Open, InFile
  <2>3. OneWriter'
    BY <2>1, <2>2 DEF OneWriter, InFile, WiringType
  <2>4. WiringType' /\ DocWired' /\ Overtaken'
    BY <2>1 DEF WiringType, WLabels, DocWired, Overtaken, Saving
  <2> QED BY <2>1, <2>3, <2>4
<1>9. ASSUME NEW p \in Procs, Write(p)
      PROVE  WiringType' /\ config'.rest /\ ~overrun' /\ OneWriter' /\ DocWired' /\ Overtaken'
  <2>1. /\ wpc[p] = "write" /\ wpc' = [wpc EXCEPT ![p] = "replace"]
        /\ fd[p] = "tmp" /\ fd' = [fd EXCEPT ![p] = "none"]
        /\ tmp' = doc[p] /\ UNCHANGED <<config, role, doc, edited, overrun>>
    BY <1>9 DEF Write, Goto, Over, OneWriter
  <2>2. OneWriter'
    BY <2>1 DEF OneWriter, InFile, WiringType
  <2>3. WiringType' /\ DocWired' /\ Overtaken'
    BY <2>1 DEF WiringType, WLabels, DocWired, Overtaken, Saving
  <2> QED BY <2>1, <2>2, <2>3
<1>10. ASSUME NEW p \in Procs, Replace(p)
       PROVE  WiringType' /\ config'.rest /\ ~overrun' /\ OneWriter' /\ DocWired' /\ Overtaken'
  <2>1. /\ wpc[p] = "replace" /\ tmp = doc[p] /\ config' = doc[p]
        /\ \A q \in Procs : fd'[q] = fd[q]
        /\ doc[p] \in Docs /\ doc[p].rest
        /\ doc[p].engine = "wired" /\ doc[p].provider = "wired"
        /\ \A q \in Procs \ {p} : wpc[q] \notin InFile
    BY <1>10 DEF Replace, OneWriter, DocWired, InFile, Saving, AfterRename
  <2>2. fd' \in [Procs -> {"none", "tmp", "config", "lost"}]
    BY <1>10 DEF Replace, AfterRename, WiringType
  <2>3. /\ wpc' \in [Procs -> WLabels] /\ wpc'[p] \in {"off", "lease"}
        /\ role' \in [Procs -> {"none", "converge", "install"}]
        /\ doc' \in [Procs -> Docs \cup {None}]
        /\ role'[p] = "none" => wpc'[p] = "off"
        /\ \A q \in Procs \ {p} : wpc'[q] = wpc[q] /\ role'[q] = role[q] /\ doc'[q] = doc[q]
    BY <1>10 DEF Replace, Goto, WiringType, WLabels
  <2>4. WiringType' /\ config'.rest
    BY <2>1, <2>2, <2>3 DEF WiringType
  <2>5. OneWriter'
    BY <2>1, <2>3 DEF OneWriter, InFile
  <2>6. DocWired'
    BY <2>3 DEF DocWired, Saving
  <2>7. ~overrun'
    <3>1. CASE role[p] = "converge" /\ p \notin edited
      <4>1. Untouched(config) /\ doc[p].enabled = config.enabled
        BY <2>1, <3>1 DEF Overtaken, Saving
      <4>2. Classify(config) # "deliberate" /\ Parsed(config) = config /\ Parsed(doc[p]) = doc[p]
        BY <2>1, <4>1, ClassifyDocs DEF WiringType
      <4> QED BY <1>10, <2>1, <4>1, <4>2 DEF Replace, Undone
    <3> QED BY <1>10, <3>1 DEF Replace, Undone
  <2>8. Overtaken'
    <3> SUFFICES ASSUME NEW q \in Procs, role'[q] = "converge", q \notin edited',
                        wpc'[q] \in Saving \cup {"configure"}
                 PROVE  Untouched(config') /\ (wpc'[q] \in Saving => doc'[q].enabled = config'.enabled)
      BY DEF Overtaken
    <3>1. q # p
      BY <2>3 DEF Saving
    <3>2. role[p] # "install" /\ p \notin edited /\ q \notin edited
      BY <1>10, <3>1 DEF Replace
    <3>3. role[q] = "converge" /\ wpc[q] = wpc'[q] /\ doc'[q] = doc[q]
      BY <2>3, <3>1
    <3>4. CASE role[p] = "converge"
      <4>1. doc[p].enabled = config.enabled
        BY <2>1, <3>2, <3>4 DEF Overtaken, Saving
      <4> QED BY <2>1, <3>2, <3>3, <4>1 DEF Overtaken, Untouched
    <3>5. role[p] # "none"
      BY <2>1 DEF WiringType
    <3> QED BY <3>2, <3>4, <3>5 DEF WiringType
  <2> QED BY <2>4, <2>5, <2>6, <2>7, <2>8
<1>11. ASSUME NEW p \in Procs, ReplaceFails(p) \/ Lease(p) \/ Die(p)
       PROVE  WiringType' /\ config'.rest /\ ~overrun' /\ OneWriter' /\ DocWired' /\ Overtaken'
  BY <1>3, <1>11 DEF ReplaceFails, Lease, Die, fileVars
<1>12. CASE Clobber
  <2>1. /\ config' = [config EXCEPT !.engine = "factory", !.provider = "factory"]
        /\ UNCHANGED <<tmp, role, wpc, doc, fd, edited, overrun>>
    BY <1>12 DEF Clobber, procVars
  <2>2. config' \in Docs /\ config'.rest /\ Untouched(config') /\ config'.enabled = config.enabled
    BY <2>1 DEF WiringType, Docs, Values, Untouched
  <2> QED BY <2>1, <2>2 DEF WiringType, OneWriter, DocWired, Overtaken
<1>13. CASE Operator
  <2>1. /\ \E e, v \in Values, b \in BOOLEAN :
             config' = [config EXCEPT !.engine = e, !.provider = v, !.enabled = b]
        /\ edited' = Procs /\ UNCHANGED <<tmp, role, wpc, doc, fd, overrun>>
    BY <1>13 DEF Operator, procVars
  <2>2. config' \in Docs /\ config'.rest
    BY <2>1 DEF WiringType, Docs
  <2> QED BY <2>1, <2>2 DEF WiringType, OneWriter, DocWired, Overtaken
<1> QED BY <1>4, <1>5, <1>6, <1>7, <1>8, <1>9, <1>10, <1>11, <1>12, <1>13
        DEF WiringNext, Configure

-----------------------------------------------------------------------------
(* db migrate: another process in a pid the scan found has had it since, or *)
(* has it in a port file                                                   *)

MigrateIInv ==
  /\ proc \in [Pids -> {"free", "holder", "other"}]
  /\ ~wronged
  /\ mpc \in {"drain", "grace"} =>
       \A p \in scan \cap Pids : proc[p] = "other" => p \in reused \cup ports
  /\ mpc = "grace" => target \subseteq scan

LEMMA StartInv ==
  ASSUME NEW procs \in [Pids -> {"free", "holder", "other"}], NEW files, NEW k, NEW w,
         NEW l \in {"attempt", "exit0"}, Start(procs, files, k, w, l)
  PROVE  MigrateIInv
BY DEF Start, MigrateIInv

LEMMA MigrateRestInv == MigrateRest => MigrateIInv
BY StartInv DEF MigrateRest

LEMMA MigrateInitInv == MigrateInit => MigrateIInv
BY StartInv DEF MigrateInit

LEMMA MigrateInvStep ==
  ASSUME MigrateIInv, MigrateNext
  PROVE  MigrateIInv'
<1> USE DEF MigrateIInv
<1>1. CASE Opens \/ Refuses \/ DriverFails \/ BlockersLive \/ GivesUp \/ Sleeps \/ Drained
  BY <1>1 DEF Opens, Refuses, DriverFails, BlockersLive, GivesUp, Sleeps, Drained, Frame, holderVars
<1>2. CASE StartDrain
  BY <1>2 DEF StartDrain, Scanned, Holders, PortPids, holderVars
<1>3. ASSUME NEW p \in Pids, Skips(p) \/ Obeys(p) PROVE MigrateIInv'
  BY <1>3 DEF Skips, Obeys, Frame, holderVars
<1>4. ASSUME NEW p \in Pids, Terms(p) PROVE MigrateIInv'
  BY <1>4 DEF Terms, Signal, holderVars
<1>5. ASSUME NEW p \in Pids, Kills(p) PROVE MigrateIInv'
  BY <1>5 DEF Kills, Signal
<1>6. CASE WaitPasses
  BY <1>6 DEF WaitPasses, holderVars, loopVars
<1>7. ASSUME NEW p \in Pids, HolderEnds(p) \/ HolderStarts(p) PROVE MigrateIInv'
  BY <1>7 DEF HolderEnds, HolderStarts, loopVars
<1>8. ASSUME NEW p \in Pids, PidReused(p) PROVE MigrateIInv'
  BY <1>8 DEF PidReused, loopVars
<1> QED BY <1>1, <1>2, <1>3, <1>4, <1>5, <1>6, <1>7, <1>8 DEF MigrateNext, MigrateStep

-----------------------------------------------------------------------------
(* provenance --repair: at each of its writes, what was read still stands   *)
(* and says where pushes go                                                 *)

\* Where the pushes to origin go, or are lost to.
Sent == IF cut THEN "expected" ELSE route

RepairType ==
  /\ url \in Urls /\ pushurl \in Urls /\ branch \in Branches
  /\ seen \in [url : Urls, pushurl : Urls, branch : Branches]
  /\ option \in Urls /\ ppc \in {"off", "url", "push", "branch"}

ReadStands ==
  /\ ppc = "url" =>
       url = seen.url /\ pushurl = seen.pushurl /\ seen.url \notin {Unset, "expected"}
  /\ ppc = "push" /\ seen.url = "expected" => option # Unset /\ OriginPush(url, pushurl) = Sent
  /\ ppc = "push" /\ seen.url # "expected" =>
       /\ url = "expected" /\ pushurl = seen.pushurl
       /\ pushurl # Unset => OriginPush(url, pushurl) = Sent
       /\ option = Unset => seen.url # Unset /\ route = seen.url
  /\ ppc \in {"url", "branch", "off"} => OriginPush(url, pushurl) = Sent
  /\ cut => url = "expected" /\ pushurl = Unset
  /\ ppc # "off" => seen.branch.remote = branch.remote /\ ~mended
  /\ mended => branch.remote = "origin"

RepairIInv == RepairType /\ (meddled \/ ReadStands)

LEMMA CheckoutInv ==
  ASSUME NEW u \in Urls, NEW p \in Urls, NEW b \in Branches, Checkout(u, p, b)
  PROVE  RepairIInv
BY DEF Checkout, RepairIInv, RepairType, ReadStands, Sent, Nothing, AsItShould, Urls, Branches

LEMMA RepairRestInv == RepairRest => RepairIInv
<1>1. AsItShould \in Branches /\ "expected" \in Urls /\ Unset \in Urls
  BY DEF AsItShould, Branches, Urls
<1> QED BY <1>1, CheckoutInv DEF RepairRest

LEMMA RepairInitInv == RepairInit => RepairIInv
BY CheckoutInv DEF RepairInit

LEMMA RepairTypeStep ==
  ASSUME RepairType, RepairNext
  PROVE  RepairType'
<1>1. ASSUME NEW o \in Urls, Begin(o) PROVE RepairType'
  BY <1>1 DEF Begin, RepairType, gitVars
<1>2. CASE SetUrl
  BY <1>2 DEF SetUrl, RepairType, Urls
<1>3. CASE SetPushUrl
  BY <1>3 DEF SetPushUrl, RepairType
<1>4. ASSUME NEW f \in {"remote", "merge"}, SetBranch(f) PROVE RepairType'
  <2>1. /\ branch' = [branch EXCEPT ![f] = AsItShould[f]]
        /\ seen' = [seen EXCEPT !.branch = [seen.branch EXCEPT ![f] = AsItShould[f]]]
        /\ UNCHANGED <<url, pushurl, option, ppc>>
    BY <1>4 DEF SetBranch
  <2>2. \A b \in Branches : [b EXCEPT ![f] = AsItShould[f]] \in Branches
    <3>1. CASE f = "remote"
      BY <3>1 DEF Branches, AsItShould
    <3>2. CASE f = "merge"
      BY <3>2 DEF Branches, AsItShould
    <3> QED BY <3>1, <3>2
  <2> QED BY <2>1, <2>2 DEF RepairType
<1>5. CASE Ends \/ Fails
  <2>1. seen' = Nothing /\ option' = Unset /\ ppc' = "off" /\ UNCHANGED <<url, pushurl, branch>>
    BY <1>5 DEF Ends, Fails, Finish, gitVars
  <2>2. Unset \in Urls /\ AsItShould \in Branches
    BY DEF Urls, Branches, AsItShould
  <2>3. Nothing \in [url : Urls, pushurl : Urls, branch : Branches]
    BY <2>2 DEF Nothing
  <2> QED BY <2>1, <2>2, <2>3 DEF RepairType
<1>6. CASE Meddles
  BY <1>6 DEF Meddles, RepairType
<1> QED BY <1>1, <1>2, <1>3, <1>4, <1>5, <1>6 DEF RepairNext

LEMMA RepairInvStep ==
  ASSUME RepairIInv, RepairNext
  PROVE  RepairIInv'
<1>0. RepairType /\ RepairType'
  BY RepairTypeStep DEF RepairIInv
<1>1. ASSUME NEW o \in Urls, Begin(o) PROVE RepairIInv'
  <2>1. /\ seen' = [url |-> url, pushurl |-> pushurl, branch |-> branch]
        /\ ~Refused(seen', o) /\ option' = o /\ ~mended'
        /\ UNCHANGED <<url, pushurl, branch, route, cut, meddled>> /\ ppc = "off"
        /\ ppc' = (IF url # "expected" THEN "url" ELSE IF o # Unset THEN "push" ELSE "branch")
    BY <1>1 DEF Begin, gitVars
  <2>2. url # Unset
    BY <2>1 DEF Refused
  <2> QED BY <1>0, <2>1, <2>2 DEF RepairIInv, ReadStands, Sent
<1>2. CASE SetUrl
  <2>1. /\ ppc = "url" /\ url' = "expected"
        /\ ppc' = IF seen.pushurl = Unset \/ option # Unset THEN "push" ELSE "branch"
        /\ UNCHANGED <<pushurl, branch, seen, option, route, cut, mended, meddled>>
    BY <1>2 DEF SetUrl, Carries, historyVars
  <2> QED BY <1>0, <2>1 DEF OriginPush, RepairIInv, ReadStands, Sent
<1>3. CASE SetPushUrl
  <2>1. /\ ppc = "push" /\ ppc' = "branch" /\ ~cut'
        /\ pushurl' = IF option # Unset THEN option ELSE seen.url
        /\ route' = IF option # Unset THEN option ELSE route
        /\ UNCHANGED <<url, branch, seen, option, mended, meddled>>
    BY <1>3 DEF SetPushUrl
  <2> QED BY <1>0, <2>1 DEF OriginPush, RepairIInv, ReadStands, Sent
<1>4. ASSUME NEW f \in {"remote", "merge"}, SetBranch(f) PROVE RepairIInv'
  <2>1. /\ ppc = "branch" /\ branch' = [branch EXCEPT ![f] = AsItShould[f]]
        /\ seen' = [seen EXCEPT !.branch = [seen.branch EXCEPT ![f] = AsItShould[f]]]
        /\ UNCHANGED <<url, pushurl, ppc, option, route, cut, mended, meddled>>
    BY <1>4 DEF SetBranch, historyVars
  <2>2. seen.branch.remote = branch.remote => seen'.branch.remote = branch'.remote
    BY <1>0, <2>1 DEF RepairType, Branches
  <2> QED BY <1>0, <2>1, <2>2 DEF RepairIInv, ReadStands, Sent
<1>5. CASE Ends
  <2>1. /\ ppc = "branch" /\ seen.branch = AsItShould /\ ppc' = "off"
        /\ UNCHANGED <<url, pushurl, branch, route, cut, meddled>>
    BY <1>5 DEF Ends, Finish, gitVars
  <2> QED BY <1>0, <2>1 DEF AsItShould, RepairIInv, ReadStands, Sent
<1>6. CASE Fails
  <2>1. /\ ppc # "off" /\ ppc' = "off"
        /\ cut' = (cut \/ (ppc = "push" /\ seen.url # "expected" /\ seen.pushurl = Unset))
        /\ UNCHANGED <<url, pushurl, branch, route, mended, meddled>>
    BY <1>6 DEF Fails, Finish, gitVars
  <2>2. CASE ppc = "push"
    BY <1>0, <2>1, <2>2 DEF OriginPush, RepairIInv, ReadStands, Sent
  <2>3. CASE ppc # "push"
    BY <1>0, <2>1, <2>3 DEF RepairIInv, RepairType, ReadStands, Sent
  <2> QED BY <2>2, <2>3
<1>7. CASE Meddles
  <2>1. CASE ppc = "off"
    BY <1>0, <1>7, <2>1 DEF Meddles, RepairIInv, ReadStands, Sent
  <2>2. CASE ppc # "off"
    BY <1>0, <1>7, <2>2 DEF Meddles, RepairIInv
  <2> QED BY <2>1, <2>2
<1> QED BY <1>1, <1>2, <1>3, <1>4, <1>5, <1>6, <1>7 DEF RepairNext

-----------------------------------------------------------------------------
IInv == WiringIInv /\ MigrateIInv /\ RepairIInv

LEMMA InitInv == Init => IInv
BY RestInv, MigrateRestInv, MigrateInitInv, RepairRestInv, RepairInitInv
   DEF Init, WiringInit, IInv

\* A step of one command leaves the parts of the others alone.
LEMMA NextInv == IInv /\ [Next]_vars => IInv'
<1> SUFFICES ASSUME IInv, [Next]_vars PROVE IInv'
  OBVIOUS
<1>1. UNCHANGED wiringVars => WiringIInv'
  BY DEF IInv, wiringVars, fileVars, procVars, WiringIInv, WiringType, OneWriter, DocWired, Overtaken
<1>2. UNCHANGED migrateVars => MigrateIInv'
  BY DEF IInv, migrateVars, holderVars, loopVars, MigrateIInv
<1>3. UNCHANGED repairVars => RepairIInv'
  BY DEF IInv, repairVars, gitVars, historyVars, RepairIInv, RepairType, ReadStands, Sent
<1>4. CASE Install
  BY <1>2, <1>3, <1>4, WiringStep DEF Install, IInv
<1>5. CASE Db
  BY <1>1, <1>3, <1>5, MigrateInvStep DEF Db, IInv
<1>6. CASE Provenance
  BY <1>1, <1>2, <1>6, RepairInvStep DEF Provenance, IInv
<1>7. CASE UNCHANGED vars
  BY <1>1, <1>2, <1>3, <1>7 DEF vars, IInv
<1> QED BY <1>4, <1>5, <1>6, <1>7 DEF Next

\* The inductive invariant holds in every reachable state.
THEOREM Invariance == Spec => []IInv
<1> QED BY InitInv, NextInv, PTL DEF Spec

-----------------------------------------------------------------------------
\* However many processes install and converge, and whichever of them dies
\* where: unless two had the temporary file at once, the config is whole and no
\* convergence has undone what the operator set before its second look.
THEOREM ConfigStaysSafe == Spec => []ConfigSafe
<1>1. WiringIInv => ConfigSafe
  BY DEF WiringIInv, WiringType, ConfigSafe, ConfigWhole, OperatorWins
<1>2. IInv => ConfigSafe
  BY <1>1 DEF IInv
<1> QED BY <1>2, Invariance, PTL

\* Whatever processes, pids and port files do meanwhile, a signal goes to a
\* holder, to a pid a port file names, or to one reused since the scan.
THEOREM OnlyHoldersSignalled == Spec => []SignalsHolders
<1>1. IInv => SignalsHolders
  BY DEF IInv, MigrateIInv, SignalsHolders
<1> QED BY <1>1, Invariance, PTL

\* However often it is run and wherever it fails, a repair keeps the push route
\* or, cut between its two writes, sends pushes to the expected url until the
\* operator says otherwise; nothing is said of a remote changed under a run.
THEOREM RepairKeepsRoute == Spec => []PushRouteKept
<1>1. RepairIInv => PushRouteKept
  <2> SUFFICES ASSUME RepairIInv, ppc = "off", ~meddled
               PROVE  /\ OriginPush(url, pushurl) = Sent
                      /\ mended => branch.remote # "other"
    BY DEF PushRouteKept, PushTarget, Sent
  <2> QED BY DEF RepairIInv, ReadStands
<1>2. IInv => PushRouteKept
  BY <1>1 DEF IInv
<1> QED BY <1>2, Invariance, PTL
===============================================================================
