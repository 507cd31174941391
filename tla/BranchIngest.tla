------------------------------ MODULE BranchIngest ------------------------------
(***************************************************************************)
(* How the runtime (src/magic_hermes/bridge/runtime.mjs) keeps the stored  *)
(* view of one session in step with the host's transcript: ingest,         *)
(* assignEntries, reconcileBranchSnapshot, maybeRebaseRestoredFullSnapshot,*)
(* mapEntriesToRaw, truncateMessageHistoryFrom, deleteRemovedTagState and  *)
(* resetSessionDerivedState.                                               *)
(*                                                                         *)
(* The host sends whole snapshots.  Two processes take them and write to   *)
(* the same store: the engine's sidecar, called by the host thread with    *)
(* the transcript of the moment, and another one (the memory provider's,   *)
(* or a historian pass's), which also gets snapshots that waited in a      *)
(* background thread.  Either may be replaced by a fresh process, which    *)
(* knows nothing but the store.  A message is its signature, so equal      *)
(* messages are one value, and one request is one step.                    *)
(***************************************************************************)
EXTENDS Integers, Sequences, FiniteSets, FiniteSetsExt, SequencesExt

CONSTANTS
  Users, Assistants, Tools,  \* the messages, by role; tools are tool results
  MaxLength,                 \* bound: messages in the transcript
  MaxRewinds                 \* bound: rewinds by the host

ASSUME BoundsAssumption == MaxLength \in Nat /\ MaxRewinds \in Nat
ASSUME RolesAssumption ==
  Users \cap Assistants = {} /\ Users \cap Tools = {} /\ Assistants \cap Tools = {}

VARIABLES
  transcript,  \* what the host holds of the conversation
  dropped,     \* history: what came before it, left behind by a restored tail
  rewinds,     \* number of rewinds so far
  posted,      \* snapshots that wait in a background thread
  entries,     \* session.entries of each process: message and occurrence
  base,        \* session.baseOrdinal of each process
  chunk,       \* session.pendingHistorian: last ordinal of the chunk, or 0
  source,      \* message_history_source: rows of raw id and ordinal
  tags,        \* the tags table: entry ids
  covered,     \* the compartments: ordinals with the message they stand for
  branch,      \* history: the snapshot that was reconciled last
  excuses      \* history: which of the named mishaps happened

hostVars  == <<transcript, dropped, rewinds>>
storeVars == <<source, tags, covered>>
ingestVars == <<hostVars, posted, entries, base, chunk, storeVars, branch, excuses>>

Messages  == Users \cup Assistants \cup Tools
Processes == {"engine", "other"}
Mishaps   == {"unwatched", "tail", "repeated", "lagging", "stale"}

-----------------------------------------------------------------------------
(* Pure parts                                                              *)

\* How often a message occurs in a sequence.
Count(s, m) == Cardinality({i \in DOMAIN s : s[i] = m})

MessagesOf(es) == [i \in DOMAIN es |-> es[i][1]]

\* Reference: the id of the message at each position, from scratch.
TrueEntries(s) == [i \in DOMAIN s |-> <<s[i], Count(SubSeq(s, 1, i), s[i])>>]

\* Mutant: occurrences are counted over the entries that go.
AssignedUnspliced(existing, kept, incoming) ==
  SubSeq(existing, 1, kept) \o
    [i \in 1..(Len(incoming) - kept) |->
       <<incoming[kept + i],
         Count(MessagesOf(existing), incoming[kept + i])
           + Count(SubSeq(incoming, kept + 1, kept + i), incoming[kept + i])>>]

\* assignEntries: the matched entries keep their ids, the others count on.
Assigned(existing, kept, incoming) ==
  SubSeq(existing, 1, kept) \o
    [i \in 1..(Len(incoming) - kept) |->
       <<incoming[kept + i],
         Count(MessagesOf(SubSeq(existing, 1, kept)), incoming[kept + i])
           + Count(SubSeq(incoming, kept + 1, kept + i), incoming[kept + i])>>]

\* commonPrefixLength
Kept(existing, incoming) ==
  Max({n \in 0..Min({Len(existing), Len(incoming)}) :
         SubSeq(MessagesOf(existing), 1, n) = SubSeq(incoming, 1, n)})

\* A run of tool results is one raw message with the user message after it, or
\* one of its own; every other message is one.
AfterTool(s, i) == i > 1 /\ s[i - 1] \in Tools
BeginsRaw(s, i) == s[i] \in Assistants \/ ~AfterTool(s, i)

\* mapEntriesToRaw: the ordinal of position i.
Ordinal(b, s, i) == b + Cardinality({j \in 1..i : BeginsRaw(s, j)})

RunOf(s, i) == {j \in i..Len(s) : \A k \in i..j : s[k] \in Tools}

\* The raw message that position i begins or ends is its own, or is made up for
\* a run of tool results that no user message follows.
Own(s, i)   == s[i] \notin Tools
Synth(s, i) ==
  /\ s[i] \in Tools /\ ~AfterTool(s, i)
  /\ LET next == Max(RunOf(s, i)) + 1 IN next \in DOMAIN s => s[next] \notin Users

\* rawMessagesFor: rows of raw id ("synth-user-" or not) and ordinal.
Raw(b, es) ==
  LET s == MessagesOf(es) IN
  {<<es[i], "own", Ordinal(b, s, i)>> : i \in {j \in DOMAIN s : Own(s, j)}} \cup
  {<<es[i], "synth", Ordinal(b, s, i)>> : i \in {j \in DOMAIN s : Synth(s, j)}}

LastOrdinal(b, es) == IF es = <<>> THEN b ELSE Ordinal(b, MessagesOf(es), Len(es))

-----------------------------------------------------------------------------
IngestInit ==
  /\ transcript = <<>> /\ dropped = <<>> /\ rewinds = 0
  /\ posted = {}
  /\ entries = [p \in Processes |-> <<>>]
  /\ base = [p \in Processes |-> 0]
  /\ chunk = 0
  /\ source = {} /\ tags = {} /\ covered = {}
  /\ branch = <<>>
  /\ excuses = {}

\* getLastCompartmentEndMessage
LastEnd == IF covered = {} THEN 0 ELSE Max({c[1] : c \in covered})

\* The ordinal at which a restored tail should go on.
DroppedEnd == Ordinal(0, dropped, Len(dropped))

\* The conversation as the store should number it.
Conversation == dropped \o transcript

\* Nothing is claimed of what follows a mishap, so behaviours end with it.
Clear == excuses = {}

-----------------------------------------------------------------------------
(* The host                                                                *)

\* A conversation begins with a user message, and tool results follow a call.
Fits(m) ==
  IF Conversation = <<>> THEN m \in Users
  ELSE m \in Tools => Last(Conversation) \notin Users

Say(m) ==
  /\ Clear
  /\ Len(Conversation) < MaxLength
  /\ Fits(m)
  /\ transcript' = Append(transcript, m)
  /\ UNCHANGED <<dropped, rewinds, posted, entries, base, chunk, storeVars, branch, excuses>>

\* Undo, retry or edit: the host cuts its transcript and goes on from there.
Rewind(n) ==
  /\ Clear
  /\ rewinds < MaxRewinds
  /\ n < Len(transcript)
  /\ transcript' = SubSeq(transcript, 1, n)
  /\ rewinds' = rewinds + 1
  /\ UNCHANGED <<dropped, posted, entries, base, chunk, storeVars, branch, excuses>>

\* A snapshot goes to a background thread.
Post ==
  /\ Clear
  /\ transcript # <<>>
  /\ posted' = {transcript}
  /\ UNCHANGED <<hostVars, entries, base, chunk, storeVars, branch, excuses>>

\* A replaced process binds the session anew, with nothing but the store.
Restart(p) ==
  /\ Clear
  /\ entries[p] # <<>>
  /\ entries' = [entries EXCEPT ![p] = <<>>]
  /\ base' = [base EXCEPT ![p] = LastEnd]
  /\ chunk' = IF p = "other" THEN 0 ELSE chunk
  /\ UNCHANGED <<hostVars, posted, storeVars, branch, excuses>>

\* The host itself is restarted and has restored only what comes after the
\* compartments.
RestoreTail ==
  /\ Clear
  /\ dropped = <<>> /\ covered # {}
  /\ \E n \in 1..Len(transcript) :
       /\ Ordinal(0, transcript, n) = LastEnd
       /\ n < Len(transcript) => BeginsRaw(transcript, n + 1)
       /\ dropped' = SubSeq(transcript, 1, n)
       /\ transcript' = SubSeq(transcript, n + 1, Len(transcript))
  /\ posted' = {}
  /\ entries' = [p \in Processes |-> <<>>]
  /\ base' = [p \in Processes |-> LastEnd]
  /\ chunk' = 0
  /\ UNCHANGED <<rewinds, storeVars, branch, excuses>>

-----------------------------------------------------------------------------
(* ingest                                                                  *)

\* maybeRebaseRestoredFullSnapshot: the first message is known at ordinal 1.
Rebased(p, s) ==
  IF entries[p] = <<>> /\ s # <<>> /\ <<<<s[1], 1>>, "own", 1>> \in source
  THEN 0 ELSE base[p]

Removes(p, s) == Kept(entries[p], s) < Len(entries[p])

\* The first ordinal that goes: that of the first entry without a match.
Floor(p, s) == Ordinal(base[p], MessagesOf(entries[p]), Kept(entries[p], s) + 1)

Removed(p, s) == {entries[p][i] : i \in (Kept(entries[p], s) + 1)..Len(entries[p])}

\* indexMessagesAfterOrdinal: a message that has a row is skipped.
Indexed(rows, b, es) ==
  rows \cup {r \in Raw(b, es) :
               \A q \in rows : <<q[1], q[2]>> # <<r[1], r[2]>>}

\* The mishaps that a request with snapshot s to p brings about.  A fresh
\* process cannot see a rewind that nobody watched.  Where a tail belongs is
\* lost once the compartments have moved on, when what precedes it was never
\* taken in, when it begins in the middle of a raw message, or when a message
\* of it came before; and a full snapshot that begins with a tool result is
\* not known for one.  A process may learn of a rewind after another one did.
NewExcuses(p, s) ==
  LET whole == dropped \o s
      fresh == entries[p] = <<>>
      moved == base[p] # DroppedEnd
  IN {e \in Mishaps :
       \/ e = "unwatched" /\ ~Removes(p, s) /\ ~IsPrefix(branch, whole)
            /\ (s = transcript \/ ~IsPrefix(whole, branch))
       \/ e = "tail" /\ fresh /\ moved /\ (dropped # <<>> \/ Head(branch) \in Tools)
       \/ e = "tail" /\ dropped # <<>>
            /\ ~(IsPrefix(dropped, branch) /\ BeginsRaw(whole, Len(dropped) + 1))
       \/ e = "repeated" /\ \E i \in DOMAIN s, j \in DOMAIN dropped : s[i] = dropped[j]
       \/ e = "lagging" /\ ~fresh
            /\ (moved \/ (Removes(p, s) /\ dropped \o MessagesOf(entries[p]) # branch))}

\* Mutant: only compartments that begin after the floor are in the way.
CutsAboveCompartments(p, s) == Removes(p, s) /\ \E c \in covered : c[1] > Floor(p, s)

\* Compartments reach to the floor: they stand for messages that are gone.
CutsCompartments(p, s) == Removes(p, s) /\ LastEnd >= Floor(p, s)

\* resetSessionDerivedState, and the snapshot is taken in from nothing.
IngestResets(p, s) ==
  /\ CutsCompartments(p, s)
  /\ entries' = [entries EXCEPT ![p] = Assigned(<<>>, 0, s)]
  /\ base' = [base EXCEPT ![p] = 0]
  /\ chunk' = IF p = "other" THEN 0 ELSE chunk
  /\ source' = Indexed({}, 0, entries'[p])
  /\ tags' = {}
  /\ covered' = {}
  /\ dropped' = <<>>
  /\ branch' = s
  /\ UNCHANGED excuses

\* deleteRemovedTagState
TagsLeft(p, s) == tags \ Removed(p, s)

\* Mutant: the rows of the branch that was left stay.
RowsKept(p, s) == source

\* truncateMessageHistoryFrom
RowsLeft(p, s) == {r \in source : Removes(p, s) => r[3] < Floor(p, s)}

IngestExtends(p, s) ==
  /\ ~CutsCompartments(p, s)
  /\ base' = [base EXCEPT ![p] = Rebased(p, s)]
  /\ entries' = [entries EXCEPT ![p] = Assigned(@, Kept(@, s), s)]
  /\ chunk' = IF p = "other" /\ Removes(p, s) THEN 0 ELSE chunk
  /\ tags' = TagsLeft(p, s)
  /\ source' = Indexed(RowsLeft(p, s), base'[p], entries'[p])
  /\ branch' = IF s = transcript \/ Removes(p, s) \/ IsPrefix(branch, dropped \o s)
               THEN dropped \o s ELSE branch
  /\ excuses' = excuses \cup NewExcuses(p, s)
  /\ UNCHANGED <<covered, dropped>>

\* observe, a tool call, historian_decide and _prepare all begin with this.
Ingest(p, s) ==
  /\ Clear
  /\ s # <<>>
  /\ IngestResets(p, s) \/ IngestExtends(p, s)
  /\ UNCHANGED <<transcript, rewinds>>

\* The host thread calls with the transcript of the moment.
IngestNow(p) == Ingest(p, transcript) /\ UNCHANGED posted

IngestPosted ==
  \E s \in posted : Ingest("other", s) /\ posted' = posted \ {s}

\* The process is killed between the transactions of a rewind: the tags are
\* gone, the rows are still there.
DiesRewinding(p) ==
  /\ Clear
  /\ Removes(p, transcript) /\ ~CutsCompartments(p, transcript)
  /\ tags' = TagsLeft(p, transcript)
  /\ entries' = [entries EXCEPT ![p] = <<>>]
  /\ base' = [base EXCEPT ![p] = LastEnd]
  /\ chunk' = IF p = "other" THEN 0 ELSE chunk
  /\ UNCHANGED <<hostVars, posted, source, covered, branch, excuses>>

\* The engine's process is up to date with the host.
Synced ==
  /\ entries["engine"] # <<>> /\ MessagesOf(entries["engine"]) = transcript
  /\ branch = Conversation

\* renderContext, after its ingest, tags what it was given.
Render ==
  /\ Clear
  /\ Synced
  /\ tags' = tags \cup Range(entries["engine"])
  /\ UNCHANGED <<hostVars, posted, entries, base, chunk, source, covered, branch, excuses>>

-----------------------------------------------------------------------------
(* A historian pass                                                        *)

\* historianPrepare, after its ingest: a stretch after the compartments and
\* before the protected tail.
HistorianPrepare ==
  /\ Clear
  /\ chunk' \in (LastEnd + 1)..(LastOrdinal(base["other"], entries["other"]) - 1)
  /\ UNCHANGED <<hostVars, posted, entries, base, storeVars, branch, excuses>>

\* historianPublish: the compartments of the chunk, as the process knew it.
HistorianPublish ==
  /\ Clear
  /\ chunk > LastEnd
  /\ LET s == MessagesOf(entries["other"]) IN
       covered' = covered \cup
         {<<Ordinal(base["other"], s, i), s[i]>> :
            i \in {j \in DOMAIN s : Ordinal(base["other"], s, j) \in (LastEnd + 1)..chunk}}
  /\ chunk' = 0
  /\ excuses' =
       IF /\ base["other"] = DroppedEnd
          /\ IsPrefix(dropped \o MessagesOf(entries["other"]), branch)
       THEN excuses ELSE excuses \cup {"stale"}
  /\ UNCHANGED <<hostVars, posted, entries, base, source, tags, branch>>

IngestNext ==
  \/ \E m \in Messages : Say(m)
  \/ \E n \in 0..MaxLength : Rewind(n)
  \/ Post \/ RestoreTail
  \/ \E p \in Processes : Restart(p) \/ IngestNow(p) \/ DiesRewinding(p)
  \/ IngestPosted \/ Render \/ HistorianPrepare \/ HistorianPublish

IngestSpec == IngestInit /\ [][IngestNext]_ingestVars

-----------------------------------------------------------------------------
\* The id of a message is a matter of its position in the conversation alone:
\* appending, rewinding, restarting and restoring a tail leave it as it would
\* be from scratch.  Ids in the store are joined on this.
IdsAreStable ==
  Synced /\ "repeated" \notin excuses =>
    entries["engine"] =
      SubSeq(TrueEntries(Conversation), Len(dropped) + 1, Len(Conversation))

\* Once the engine has caught up, the index has a row for every raw message of
\* the conversation, at its ordinal, and no row of another branch.  (A made-up
\* row of tool results stays when a user message takes them over.)
IndexOfBranch ==
  Synced /\ excuses = {} =>
    LET rows == Raw(0, TrueEntries(Conversation)) IN
    /\ rows \subseteq source
    /\ \A r \in source : r[2] = "own" => r \in rows

\* The compartments and the tags never speak of messages that are not in the
\* conversation: a rewind takes them along.
DerivedStateOfBranch ==
  Synced /\ excuses = {} =>
    /\ tags \subseteq Range(TrueEntries(Conversation))
    /\ \A c \in covered : \E i \in DOMAIN Conversation :
         Conversation[i] = c[2] /\ Ordinal(0, Conversation, i) = c[1]
===============================================================================
