----------------------------- MODULE ProvenanceRepair -----------------------------
(***************************************************************************)
(* magic-hermes provenance --repair (repair in                             *)
(* src/magic_hermes/provenance.py): one reading of the git configuration,  *)
(* refusals, and up to four writes, each a git process of its own that may *)
(* fail, between which the operator may use git himself.  URLs are what    *)
(* the comparisons tell apart: the expected one, another that names the    *)
(* same repository, one that names a foreign repository.                   *)
(***************************************************************************)
EXTENDS Naturals

CONSTANTS
  MaxRepairs,  \* bound: runs of the command
  Unset        \* no such value in the configuration, no option given

ASSUME UnsetAssumption == Unset \notin {"expected", "same", "foreign"}

VARIABLES
  url, pushurl,     \* remote.origin.url, remote.origin.pushurl
  branch,           \* branch.<b>.remote and .merge of the current branch
  ppc,              \* "off", "url", "push", "branch"
  seen,             \* what read_state returned: url, pushurl, branch settings
  option,           \* --push-url
  repairs,          \* runs so far
  route,            \* history: where the operator sends the pushes to origin
  cut,              \* history: a run ended with the url written, its push url not
  mended,           \* history: the last run completed and nobody touched git since
  meddled           \* history: the operator changed a remote under a run

gitVars == <<url, pushurl, branch>>
historyVars == <<route, cut, mended, meddled>>
repairVars == <<gitVars, ppc, seen, option, repairs, historyVars>>

Urls == {"expected", "same", "foreign", Unset}

\* The remote of the branch is origin, is none, or is another; its merge is its
\* own name or is not.
Branches == [remote : {"origin", "none", "other"}, merge : BOOLEAN]

AsItShould == [remote |-> "origin", merge |-> TRUE]

SameRepo(u) == u \in {"expected", "same"}

\* Where pushes to origin go.
OriginPush(u, p) == IF p = Unset THEN u ELSE p

\* Where git pushes the branch to: to the remote it names, else to origin.
PushTarget(u, p, b) == IF b.remote = "other" THEN "other" ELSE OriginPush(u, p)

Nothing == [url |-> Unset, pushurl |-> Unset, branch |-> AsItShould]

Checkout(u, p, b) ==
  /\ url = u /\ pushurl = p /\ branch = b
  /\ ppc = "off" /\ seen = Nothing /\ option = Unset /\ repairs = 0
  /\ route = OriginPush(u, p)
  /\ cut = FALSE /\ mended = FALSE /\ meddled = FALSE

RepairRest == Checkout("expected", Unset, AsItShould)

RepairInit == \E u, p \in Urls, b \in Branches : Checkout(u, p, b)

-----------------------------------------------------------------------------
\* The refusals, all of them before any write.
Refused(s, o) ==
  \/ s.url = Unset \/ ~SameRepo(s.url)
  \/ o # Unset /\ ~SameRepo(o)
  \/ s.pushurl # Unset /\ o = Unset /\ ~SameRepo(s.pushurl)

\* read_state and the refusals: a run that is refused changes nothing.
Begin(o) ==
  /\ ppc = "off" /\ repairs < MaxRepairs
  /\ LET s == [url |-> url, pushurl |-> pushurl, branch |-> branch] IN
       /\ ~ Refused(s, o)
       /\ seen' = s
       /\ ppc' = IF s.url # "expected" THEN "url"
                 ELSE IF o # Unset THEN "push" ELSE "branch"
  /\ option' = o
  /\ repairs' = repairs + 1
  /\ mended' = FALSE
  /\ UNCHANGED <<gitVars, route, cut, meddled>>

Finish ==
  /\ ppc' = "off"
  /\ seen' = Nothing /\ option' = Unset

\* Mutant: the old url is carried over a push url that is configured.
CarryAlways == option = Unset

\* "push intent carried": no push url is configured and none is given.
Carries == seen.pushurl = Unset /\ option = Unset

SetUrl ==
  /\ ppc = "url"
  /\ url' = "expected"
  /\ ppc' = IF Carries \/ option # Unset THEN "push" ELSE "branch"
  /\ UNCHANGED <<pushurl, branch, seen, option, repairs, historyVars>>

\* The url of before, or the one that was given: the operator's word.
SetPushUrl ==
  /\ ppc = "push"
  /\ pushurl' = IF option # Unset THEN option ELSE seen.url
  /\ route' = IF option # Unset THEN option ELSE route
  /\ cut' = FALSE
  /\ ppc' = "branch"
  /\ UNCHANGED <<url, branch, seen, option, repairs, mended, meddled>>

\* branch.<b>.remote, then branch.<b>.merge, where they were read as wrong.
SetBranch(f) ==
  /\ ppc = "branch" /\ seen.branch[f] # AsItShould[f]
  /\ f = "merge" => seen.branch.remote = "origin"
  /\ branch' = [branch EXCEPT ![f] = AsItShould[f]]
  /\ seen' = [seen EXCEPT !.branch[f] = AsItShould[f]]
  /\ UNCHANGED <<url, pushurl, ppc, option, repairs, historyVars>>

Ends ==
  /\ ppc = "branch" /\ seen.branch = AsItShould
  /\ mended' = TRUE
  /\ Finish
  /\ UNCHANGED <<gitVars, repairs, route, cut, meddled>>

\* A git process fails or times out, or the command is killed: ProvenanceError.
\* (One that wrote before it failed is the write and then this.)
Fails ==
  /\ ppc # "off"
  /\ cut' = (cut \/ (ppc = "push" /\ seen.url # "expected" /\ seen.pushurl = Unset))
  /\ Finish
  /\ UNCHANGED <<gitVars, repairs, route, mended, meddled>>

\* The operator points the remote, its pushes or the branch elsewhere.
Meddles ==
  /\ url' \in Urls /\ pushurl' \in Urls /\ branch' \in Branches
  /\ mended' = FALSE /\ meddled' = (ppc # "off")
  /\ route' = IF ppc = "off" THEN OriginPush(url', pushurl') ELSE route
  /\ cut' = (ppc # "off" /\ cut)
  /\ UNCHANGED <<ppc, seen, option, repairs>>

RepairNext ==
  \/ \E o \in Urls : Begin(o)
  \/ SetUrl \/ SetPushUrl \/ Ends \/ Fails \/ Meddles
  \/ \E f \in {"remote", "merge"} : SetBranch(f)

-----------------------------------------------------------------------------
\* "preserving push intent": through any number of runs, refused, failed and
\* completed, pushes to origin go where the operator last sent them, by git or by
\* --push-url; and once a run has completed so do those of the branch, whatever
\* remote it named.  A run that ends between its two writes loses the route: from
\* then on pushes go to the expected url, and running it again does not bring the
\* route back.  (Nothing is said of a remote that the operator changed under a
\* run, until he sets it again.)
PushRouteKept ==
  ppc = "off" /\ ~meddled =>
    /\ OriginPush(url, pushurl) = IF cut THEN "expected" ELSE route
    /\ mended => PushTarget(url, pushurl, branch) = OriginPush(url, pushurl)
===============================================================================
