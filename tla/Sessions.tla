------------------------------ MODULE Sessions ------------------------------
(***************************************************************************)
(* The in-memory and the database session service (session/inmemory.go,    *)
(* session/database), used by streams of agents that append to the log of  *)
(* one session and build every request to their model from what its        *)
(* session object shows them (Replay).                                     *)
(*                                                                         *)
(* A stream is an agent at work: one run, or one of the sub-agents a       *)
(* parallel agent runs at a time, each in a branch of its own.  An entry   *)
(* gets its time when it is made, and is appended later: in between other  *)
(* streams may go on.                                                      *)
(***************************************************************************)
EXTENDS Replay

CONSTANTS
  Stores,      \* which of "memory", "database" are there
  MaxStreams,  \* how many streams there are; they begin in their order
  Branch,      \* the branch of each agent
  VendorOf,    \* whose model each stream uses
  MaxActive,   \* bounds how many of them are active at a time
  MaxEntries,  \* bounds the entries made
  MaxBorn      \* bounds the times the session is created

Agents == DOMAIN Branch
Streams == 1..MaxStreams

SessionsAssumption ==
  /\ Stores \subseteq {"memory", "database"} /\ Stores # {}
  /\ MaxStreams \in Nat
  /\ \A a \in Agents : a # "user" /\ Branch[a] \in Seq(STRING)
  /\ \A s \in Streams : VendorOf[s] \in {"gemini", "anthropic", "openai"}
  /\ MaxEntries \in Nat /\ MaxActive \in Nat /\ MaxBorn \in Nat

VARIABLES
  store,       \* the service in use
  born,        \* how often the session was created; it exists while
  exists,      \*   exists
  log,         \* its entries, in the order they were stored
  updateTime,  \* sessions.update_time
  checkpoint,  \* the stored checkpoint: its agent, and its pending calls
  state,       \* the session (its number) an agent state was saved in, or 0
  now,         \* the time: how many entries were made
  pc,          \* where a stream is
  agent,       \* its agent
  of,          \* the number of the session it opened
  snapshot,    \* localSession.entries: what a database Get found
  draft,       \* the entry it is about to append
  todo,        \* the calls it has to answer
  mixed        \* history: did streams get in each other's way, or a delete in theirs?

stored == <<born, exists, log, updateTime, checkpoint, state>>
stream == <<pc, agent, of, snapshot, draft, todo>>
vars == <<store, stored, now, stream, mixed>>

NoEntry == [ts |-> 0]
NoCheckpoint == [agent |-> "none", calls |-> {}]

Active == {s \in Streams : pc[s] \in {"append", "model", "tools"}}

-----------------------------------------------------------------------------
(* What a stream can read *)

\* Get of the database: ordered by time.
ByTime(entries) ==
  LET rank(k) == Cardinality({i \in DOMAIN entries :
                   entries[i].ts < entries[k].ts \/ (entries[i].ts = entries[k].ts /\ i < k)})
  IN  [n \in DOMAIN entries |-> entries[CHOOSE k \in DOMAIN entries : rank(k) = n - 1]]

\* In memory Get returns the stored session itself, in the database a copy.
\* A session that is deleted stays in the hands of those who have it.
Reads(s) ==
  IF store = "memory" /\ exists /\ of[s] = born THEN log ELSE snapshot[s]

RequestOf(s, full) == Request(VendorOf[s], full, agent[s], Branch[agent[s]], Reads(s))

-----------------------------------------------------------------------------
Init ==
  /\ store \in Stores /\ born = 1 /\ exists = TRUE /\ log = <<>> /\ updateTime = 0
  /\ checkpoint = NoCheckpoint /\ state = 0 /\ now = 0
  /\ pc = [s \in Streams |-> "idle"] /\ agent = [s \in Streams |-> "none"]
  /\ of = [s \in Streams |-> 0] /\ snapshot = [s \in Streams |-> <<>>]
  /\ draft = [s \in Streams |-> NoEntry] /\ todo = [s \in Streams |-> {}]
  /\ mixed = FALSE

\* A new entry, with the current time.
Make(s, v, author, role, text, calls, results, error) ==
  /\ now < MaxEntries /\ now' = now + 1
  /\ draft' = [draft EXCEPT ![s] =
       [ts |-> now', by |-> s, author |-> author, role |-> role, calls |-> calls,
        results |-> results, error |-> error, vendor |-> v,
        branch |-> IF author = "user" THEN <<>> ELSE Branch[author],
        text |-> text]]
  /\ pc' = [pc EXCEPT ![s] = "append"]

\* Sub-agents in branches apart do not get in each other's way.
Apart(a, b) == ~IsPrefix(Branch[a], Branch[b]) /\ ~IsPrefix(Branch[b], Branch[a])

Assign(s, a) ==
  /\ pc[s] = "idle" /\ \A q \in Streams : q < s => pc[q] # "idle"
  /\ Cardinality(Active) < MaxActive
  /\ agent' = [agent EXCEPT ![s] = a]

\* newInvocation: a run gets the session.
Open(s, a) ==
  /\ Assign(s, a) /\ exists /\ (store = "memory" => Active = {})
  /\ mixed' = (mixed \/ Active # {})
  /\ of' = [of EXCEPT ![s] = born]
  /\ snapshot' = [snapshot EXCEPT ![s] = IF store = "database" THEN ByTime(log) ELSE <<>>]

\* newInvocation and persistUserMessage.
Begin(s) ==
  /\ \E a \in Agents : Open(s, a)
  /\ Make(s, NoVendor, "user", "user", "text", <<>>, <<>>, FALSE)
  /\ UNCHANGED <<store, stored, todo>>

\* A parallel agent runs another sub-agent in the session its run has opened.
BeginSubAgent(s) ==
  /\ \E a \in Agents :
       /\ Assign(s, a) /\ \A q \in Active : Apart(a, agent[q])
       /\ \A q \in Streams : pc[q] = "ended" => agent[q] # a
  /\ \E q \in Active :
       /\ draft[q] # NoEntry => draft[q].role # "user"
       /\ of' = [of EXCEPT ![s] = of[q]]
       /\ snapshot' = [snapshot EXCEPT ![s] = snapshot[q]]
  /\ pc' = [pc EXCEPT ![s] = "model"]
  /\ UNCHANGED <<store, stored, now, draft, todo, mixed>>

\* A run resumes what the checkpoint says: it has no message of its own.
BeginResume(s) ==
  /\ checkpoint # NoCheckpoint /\ Open(s, checkpoint.agent)
  /\ pc' = [pc EXCEPT ![s] = "tools"] /\ todo' = [todo EXCEPT ![s] = checkpoint.calls]
  /\ UNCHANGED <<store, stored, now, draft>>

\* Only anthropic redacts its model's thinking.
Texts(s) == {"text"} \cup (IF VendorOf[s] = "anthropic" THEN {"redacted"} ELSE {})

\* The model answers, with new calls or without, or with an error in place of
\* an answer.  Calls have the ids now + 1, now + MaxEntries + 1.
ModelAnswers(s) ==
  /\ pc[s] = "model"
  /\ \/ \E text \in Texts(s), error \in BOOLEAN :
          Make(s, VendorOf[s], agent[s], "assistant", text, <<>>, <<>>, error)
     \/ \E calls \in {<<now + 1>>, <<now + 1, now + MaxEntries + 1>>} :
          Make(s, VendorOf[s], agent[s], "assistant", "none", calls, <<>>, FALSE)
  /\ UNCHANGED <<store, stored, agent, of, snapshot, todo, mixed>>

ToolReturns(s) ==
  /\ pc[s] = "tools"
  /\ \E i \in todo[s] : Make(s, VendorOf[s], agent[s], "tool", "none", <<>>, <<i>>, FALSE)
  /\ UNCHANGED <<store, stored, agent, of, snapshot, todo, mixed>>

\* Where a stream is when its entry is in the log.
Continue(s, e) ==
  LET rest == (todo[s] \cup Ids(e.calls)) \ Ids(e.results) IN
  /\ todo' = [todo EXCEPT ![s] = rest]
  /\ pc' = [pc EXCEPT ![s] = IF rest # {} THEN "tools"
                             ELSE IF e.role = "assistant" THEN "ended" ELSE "model"]

\* The entry is in the log.
Appended(s) ==
  /\ log' = Append(log, draft[s]) /\ updateTime' = draft[s].ts
  /\ Continue(s, draft[s]) /\ draft' = [draft EXCEPT ![s] = NoEntry]
  /\ UNCHANGED <<store, born, exists, checkpoint, state, now, agent, of, snapshot, mixed>>

\* AppendEntry, to whatever session has the id now.
AppendEntry(s) ==
  /\ pc[s] = "append" /\ store = "memory" /\ exists /\ Appended(s)

\* Mutant: the rows that were updated are not counted.
ApplyEntryAnyway(s) ==
  /\ pc[s] = "append" /\ store = "database" /\ exists /\ Appended(s)

\* applyEntry: the update of a session that has a later time updates no row,
\* and the transaction is rolled back.
ApplyEntry(s) ==
  /\ pc[s] = "append" /\ store = "database" /\ exists /\ updateTime <= draft[s].ts
  /\ Appended(s)

AppendFails(s) ==
  /\ pc[s] = "append" /\ (~exists \/ (store = "database" /\ updateTime > draft[s].ts))
  /\ pc' = [pc EXCEPT ![s] = "ended"] /\ draft' = [draft EXCEPT ![s] = NoEntry]
  /\ UNCHANGED <<store, stored, now, agent, of, snapshot, todo, mixed>>

\* The model fails, or the caller stops listening.  Calls that are left open
\* while an older checkpoint waits would be the last word when that is resumed.
Stops(s) ==
  /\ pc[s] \in {"model", "tools"} /\ pc' = [pc EXCEPT ![s] = "ended"]
  /\ mixed' = (mixed \/ (pc[s] = "tools" /\ checkpoint # NoCheckpoint))
  /\ UNCHANGED <<store, stored, now, agent, of, snapshot, draft, todo>>

\* Mutant: a checkpoint is saved for any session, in the store or not.
SaveCheckpointAnyway(s) ==
  /\ pc[s] = "tools" /\ pc' = [pc EXCEPT ![s] = "ended"]
  /\ checkpoint' = [agent |-> agent[s], calls |-> todo[s]]
  /\ UNCHANGED <<store, born, exists, log, updateTime, state, now, agent, of, snapshot, draft, todo, mixed>>

\* SaveCheckpoint, when the calls that are left pause.
SaveCheckpoint(s) ==
  /\ pc[s] = "tools" /\ pc' = [pc EXCEPT ![s] = "ended"]
  /\ checkpoint' = IF exists THEN [agent |-> agent[s], calls |-> todo[s]] ELSE checkpoint
  /\ UNCHANGED <<store, born, exists, log, updateTime, state, now, agent, of, snapshot, draft, todo, mixed>>

\* ClearCheckpoint, by a run that resumed and has ended, or by a caller.
ClearCheckpoint ==
  /\ checkpoint # NoCheckpoint /\ Active = {} /\ checkpoint' = NoCheckpoint
  /\ UNCHANGED <<store, born, exists, log, updateTime, state, now, stream, mixed>>

\* A workflow agent above the stream saves its state.
Saved(s) ==
  /\ pc[s] = "tools" /\ Branch[agent[s]] # <<>> /\ state' = born
  /\ UNCHANGED <<store, born, exists, log, updateTime, checkpoint, now, stream, mixed>>

\* SaveAgentState in memory does not look for the session.
SaveAgentState(s) == store = "memory" /\ Saved(s)

\* The rows of the database have a key for it.
SaveAgentStateRow(s) == store = "database" /\ exists /\ Saved(s)

ClearAgentState ==
  /\ state # 0 /\ state' = 0
  /\ UNCHANGED <<store, born, exists, log, updateTime, checkpoint, now, stream, mixed>>

\* The session goes, with its entries and its checkpoint; streams keep what they have.
Deleted ==
  /\ exists /\ exists' = FALSE /\ log' = <<>> /\ checkpoint' = NoCheckpoint
  /\ snapshot' = [s \in Streams |-> IF of[s] = born THEN Reads(s) ELSE snapshot[s]]
  /\ mixed' = (mixed \/ Active # {})
  /\ UNCHANGED <<store, born, updateTime, now, pc, agent, of, draft, todo>>

\* In memory the agent states stay.
Delete == store = "memory" /\ Deleted /\ UNCHANGED state

\* The database deletes the rows that refer to the session with it.
DeleteRow == store = "database" /\ Deleted /\ state' = 0

Create ==
  /\ ~exists /\ born < MaxBorn /\ exists' = TRUE /\ born' = born + 1 /\ updateTime' = now
  /\ UNCHANGED <<store, log, checkpoint, state, now, stream, mixed>>

Step(s) ==
  \/ Begin(s) \/ BeginSubAgent(s) \/ BeginResume(s) \/ ModelAnswers(s) \/ ToolReturns(s)
  \/ AppendEntry(s) \/ ApplyEntry(s) \/ AppendFails(s) \/ Stops(s)
  \/ SaveCheckpoint(s) \/ SaveAgentState(s) \/ SaveAgentStateRow(s)

Next ==
  \/ \E s \in Streams : Step(s)
  \/ ClearCheckpoint \/ ClearAgentState \/ Delete \/ DeleteRow \/ Create

Spec == Init /\ [][Next]_vars

-----------------------------------------------------------------------------
(* Properties *)

(* Type invariant: a stream, its session and what that stores. *)
TypeOK ==
  /\ store \in Stores /\ exists \in BOOLEAN /\ mixed \in BOOLEAN
  /\ born \in 1..MaxBorn /\ state \in 0..born /\ now \in 0..MaxEntries
  /\ updateTime \in 0..now
  /\ checkpoint.agent \in Agents \cup {"none"}
  /\ \A s \in Streams :
       /\ pc[s] \in {"idle", "append", "model", "tools", "ended"}
       /\ agent[s] \in Agents \cup {"none"} /\ of[s] \in 0..born
       /\ pc[s] = "append" <=> draft[s] # NoEntry
       /\ pc[s] = "tools" => todo[s] # {}
  /\ \A k \in DOMAIN log : log[k].ts \in 1..now

SeesItself(s) ==
  \A k \in DOMAIN log : log[k].by = s => \E m \in DOMAIN Reads(s) : Reads(s)[m].ts = log[k].ts

(* When a stream of the in-memory store calls its model, the request has every
   message of its own, and is one that the vendor accepts: each call is followed
   by its results and no result is without its call.  This is so whatever runs
   before it left in the log: calls that were aborted or are still pending,
   answers that came after other messages, sub-agents at work in other branches,
   and answers of other vendors' models. *)
RequestIsAcceptable ==
  store = "memory" /\ ~mixed =>
    \A s \in Streams : pc[s] = "model" => SeesItself(s) /\ Acceptable(RequestOf(s, TRUE))

(* What a Get of the database returned stays a beginning of the log as long as
   the session is there: no entry is stored behind it with an earlier time, to
   turn up in the middle of it at the next Get. *)
SnapshotIsPrefix ==
  \A s \in Streams : store = "database" /\ exists /\ of[s] = born => IsPrefix(snapshot[s], ByTime(log))

\* The calls that entries of the log have made.
Called == UNION {Ids(log[k].calls) : k \in DOMAIN log}

(* While a session is deleted, nothing is stored in its name by the streams that
   still work on it: no entry, no checkpoint, and in the database no agent state.
   A session that is made again has no calls pending that its own log does not
   make, unless streams got in each other's way: those that worked on the one that
   was deleted go on in the new one, and may save a checkpoint there.  An agent state
   of the database was saved since its session was made; in memory those of the
   deleted session stay. *)
NothingIsLeft ==
  /\ ~exists => log = <<>> /\ checkpoint = NoCheckpoint
  /\ ~mixed => checkpoint.calls \subseteq Called
  /\ store = "database" => state \in {0, IF exists THEN born ELSE 0}
=============================================================================
