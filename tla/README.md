# Verification of tadk

tadk is a Go toolkit for LLM agents: a *runner* drives an *agent* through turns
of model calls and tool calls inside a *session*; tools may interrupt the run
for an approval, and a later run resumes it.  This directory holds TLA+ models
of that machinery, the TLC instances that check them and the TLAPS proofs of
the theorems that matter most.

## Inventory: the parts of the system

**Runner** (`runner/`).  `Runner.Run` is an iterator: the caller ranges over the
events of one run and may stop at any of them.  State per run: the session it
opened, the checkpoint it loaded, the agent it is at, whether it saved a
checkpoint.  It appends the user's message, streams the agent's events, appends
each `MessageEnd` to the log before it yields it, saves a checkpoint before it
yields an interrupt, follows transfers between agents and, at the end of a
resume, clears the checkpoint.  Hard: every yield is a place where the run may
end for good; every store write may fail; runs may share a session.  Correct
when: the log is a transcript a model API accepts, the stream is what the log
holds, a checkpoint can always be matched with the log, and an approval is asked
before and used up after what it approves.

**LLM agent and flow** (`agent/llmagent`, `internal/llminternal`).  The turn loop
and one step of it: a resume step, or a model call followed by its tool calls in
parallel goroutines, whose results and interrupts are collected in call order.
Hard: partial results when one of several calls interrupts or fails; resume data
that must reach exactly one step.  Correct when: no call is lost between the
goroutines, the log and the checkpoint.

**Approval and interrupts** (`tool/interrupt`, `resume`, `internal/toolinternal`).
A guarded tool returns an interrupt signal the first time and consults the resume
data the second time.  Correct when: the tool's body is only entered after a yes.

**Workflow agents** (`agent/workflowagents`, `internal/workflowinternal`).
Sequential, loop and parallel composition of agents; each keeps its progress as
agent state in the store, to continue there after an interrupt.  Hard: sub-agents
run concurrently over an unbuffered channel, and the saved progress and the
checkpoint are two writes that can come apart.  Correct when: a resume continues
where the interrupt was raised, nothing that completed runs again, no goroutine
is left blocked.

**Session stores** (`session`, `session/file`, `session/database`).  Log,
checkpoint (with a revision) and agent state of each session; in memory, in files
under a directory lock, or in a database.  Hard: crash in the middle of an
append, revisions, deletion racing an append, memory ahead of the disk.

**Session context and history** (`session/entry.go`, `internal/llminternal/processors`).
From the log to a request: the entries of the agent's branch, other agents'
replies rewritten, results put behind the message that made the calls; for trees
of entries, the path to the leaf with what a compaction covers replaced by its
summary.  Hard: logs with paused, unanswered or foreign calls, several
compactions, lost lines.  Correct when: a vendor accepts the request, and it says
what was said on that branch and nothing else.

**Model adapters** (`model/gemini`, `model/openai`, `model/anthropic`,
`model/assistant_event_builder.go`).  A vendor's stream becomes deltas and a final
message.  Hard: calls named by index, by id or only once, pieces of several calls
mixed, ends in the middle.  Correct when: deltas and final message both are what
the vendor said.

**Extensions and steering** (`agent/extension.go`, `tool/steering`).  Hooks around
the run, each turn, each model and tool call, and on each event; two queues whose
messages a turn that ends takes in.  Hard: whose answer counts, what it skips,
messages that are added while a turn ends.  Correct when: every queued message is
shown once, a model call follows that has it, and no hook but the one that means to
loses a call.

**Durable tools** (`tool/temporaltool`, `temporal/`).  A tool whose body is a
Temporal workflow: start, poll, interrupt, resume by signal, cancel.  Hard:
duplicated and late signals, retried activities.  Correct when: the body runs again
only on a signal of its own, the session waits for what the workflow waits for, and
every execution ends.

**Agent as tool** (`tool/agenttool`).  A nested run with a session of its own, whose
interrupts have to come out through the outer checkpoint.

**MCP tools** (`tool/mcptoolset`).  One connection that all callers share and any may
renew.

**Messages and what is stored of them** (`message`, `session/entry.go`,
`session/database/storage_session.go`).  Written and read in the form of now and
in older ones.

**Streams to the UI** (`ui/stream`) and the **terminal UI** (`cmd/tui`).  Entries
become parts that a client puts together; the terminal's model changes on keys and
on the events of a run in the background.  Hard: parts and blocks that refer to
earlier ones over many events; approvals that are decided while a session changes.

The **agent tree** (`runner/parentmap`), the **REST server** and **launchers**, the
file and shell **tools**, **telemetry** and configuration keep no state that the
protocols above depend on.  `PROJECT.json` lists every part with its status, and
the hazards with their lines.

The parts meet in three ways.  Calls: the runner calls the agent, the agent the
model and the tools, and the hooks around them.  Iterators: every event travels
back through nested `yield` functions, and a `false` from the outermost one unwinds
them all.  The store: runs of one session communicate only through its log,
checkpoint and agent state.

## Modules

| module | models |
| --- | --- |
| `Runner` | the runner, the llm agent's turn loop and the flow's steps, over one session |
| `Approval` | the abstract promise of `WithApproval`; `Runner` implements it |
| `MCRunner` | symmetry and view for TLC |
| `Parallel` | the parallel agent as a runner's root, over the runs of one session |
| `Loop` | the loop agent, and with one iteration the sequential agent, likewise |
| `FileStore` | the file session store: one session directory and the services that use it |
| `MCFileStore` | symmetry for TLC |
| `Stream` | the adapters' streams and the event builder, one answer of a model |
| `Replay` | operators: from a log to the request a vendor is sent |
| `Sessions` | the in-memory and database stores under several agents; extends `Replay` |
| `EntryTree` | the tree of entries, compaction, and the managers of its file |
| `DurableTool` | a Temporal-backed tool, its workflow and the session that resumes it |
| `Turns` | the turn loop with turn extensions and the steering queues |
| `Hooks` | the extensions around a run, its events, model calls and tool calls |
| `Interrupts` | composite interrupts, their persisted form, agents as tools |
| `McpClient` | the shared MCP connection |
| `Tui` | the terminal UI's model and the run behind it |
| `UIStream` | entries to UI parts, and a client that puts them together |
| `Codec` | what is stored of an entry and read back |
| `Kept` | operators: what a sequence keeps of a set; used by `Runner`, `EntryTree`, `Turns`, `Tui` and the streams |
| `Parts` | instances of `DurableTool`, `Turns`, `Tui`, `McpClient`, `Hooks`, `Codec`, `Interrupts`, `Stream` and `UIStream`, which need no library for sequences |
| `MCParts` | extends `Parts` with instances of the other components, for TLC, in one run |
| `RunnerProofs`, `ParallelProofs`, `LoopProofs`, `FileStoreProofs` | the theorems about the modules of those names |
| `KeptProofs` | lemmas about `Kept`, by induction over sequences |
| `PartsProofs` | the inductive invariants of the components in `Parts`, but for that of `UIStream` |
| `EntryTreeProofs` | the inductive invariant of `EntryTree` |
| `MCPartsProofs` | the inductive invariants of `UIStream` and `Sessions`, and the theorems about what the run `parts` checks |

`Sessions` composes the stores with `Replay`, as the logs that runs leave behind
are what requests are built from.  `Tui` and `DurableTool` contain the runner in
the coarse form they need: it saves the checkpoint before the interrupt is seen.

### Runner

One behaviour is one session.  A *run* is a call of `Runner.Run`; `pc[r]` says
where it is:

| `pc` | code |
| --- | --- |
| `started`, `opened` | `newInvocation`, `persistUserMessage` |
| `agent` | `runAgent` before the agent's first step |
| `resume` | `handleResumeFromCheckpoint` |
| `model`, `tools`, `emit` | `runStepItems`: the model call, the tool goroutines, the list of events |
| `left` | the agent's stream has ended: transfer, or `finalize` |
| `done`, `failed`, `aborted` | `AgentEnd`, `AgentEnd` with an error, the consumer stopped |

`log` and `checkpoint` are the session store; `given`/`approved` are
`RunOptions.ResumeData`; `agent`, `loaded`, `wrote`, `transfer` are the fields of
`invocation` and the locals of `streamAgentEvents`; `todo`, `pend`, `sig` are the
locals of `handleFunctionCalls`; `messages` is what the consumer was sent.  `ran`
and `asked` are history, for the properties only.

What is abstracted: a message is its role, author and tool calls; a tool is what
it does to control (guarded by an approval, pausing by itself, transferring, or
none of these); the model is anything that answers with at most `MaxBatch` new
calls, answers finally, or fails.  Tool call ids are unique (`EnsureToolCallIDs`
fills in the missing ones).  Extensions are in `Hooks` and `Turns`.  `Fail` stands for every
error path: the code passes the error to the consumer, who may stop iterating.

A raw interrupt (`tool.Context.Interrupt`) has no call id and so never becomes
part of `checkpoint.calls`, which is what a resume can match.

### Parallel and Loop

Both take the runner from `Runner` in the coarse form they need: runs take turns,
a run saves a checkpoint for a composite interrupt, and the end of a successful
resume clears it.  What they add is the agent state (`saved`) that a workflow
agent writes beside the checkpoint.  Each stored record carries the number of the
run that wrote it (`by`), a history the properties compare.

`Parallel`: `pc` is the collector of `runImpl` (`collect` at `range resultsChan`,
`composed` after `SaveAndComposeInterrupt`, `leave` and `close` its two defers);
`wpc[w]` is the goroutine of a sub-agent (`run` in its stream, `send` at the
select, `stop` at the inner select).  The channel is unbuffered, so a send and a
receive are one step (`Take...`).  A sub-agent is an llm agent: it may send
events, a final response, an interrupt or an error, and on a resume it fails
unless an interrupt of its own is pending and answered (`Matches`, see `Runner`).

`Loop`: `pos` is `iteration` and the range index; `pc` is `next` in the loop's
head, `sub` while a sub-agent runs, then as in `Parallel`.  `trail` (completed
positions, over an interruption and its resumes) and `took` (who was passed
`ResumeData`) are history.  `MaxIterations = 0`, an endless loop, is left out.

### FileStore

`dir`, `hasLog`, `lines`, `torn`, `checkpoint` and `lockFile` are what is on disk;
`held[s]` is the entry of `locks` (as the inode that is locked: a lock file that
was removed and made again is another one), `cache[s]` that of `sessions`.  A
service is a `fileService`; its calls are atomic, as they hold its mutex, but for
`AppendEntry`, which goes on after it has released it (`BeginAppend`, then one of
`Write`, `WriteShort`, `WriteFails`).  An append whose session was dropped from
`sessions` in between is `"detached"`: it writes to the file and not to what is
cached now.  One append per service is under way at a time, as the mutex of the
session makes them take turns.

A line is an entry or `Garbled`: cut short, glued to a line cut short before it,
or longer than the scanner's buffer.  A checkpoint is its revision; `since[s]`
(history) is what happened to the one a service read.  `Delete` may fail or be cut
off, leaving any of the files.  `Crash` is the death of a process at any point,
with a new service in its place.  `astray` (history) says that the session was
closed, deleted or created under a user of it, against which the store has no
protection; `acked` are the entries whose `AppendEntry` returned no error, and
`orphans` the services whose cached session had its log removed.

Agent states, which are files like the checkpoint without a revision, and `List`
are left out.

### Stream, Replay and Sessions

`Stream`: one call of an adapter's `Stream` or `Generate`.  `said` is what the
vendor's own accumulation would hold, which the vendor actions extend; the handler
of each chunk calls the builder (`TextDelta`, `ThinkingDelta`, `ToolCallDelta`,
`Lookup`), and `view` is a consumer that knows the deltas alone.  Vendors are
external: what they may send is read off the code that takes it apart.  Gemini sends
whole calls, Anthropic opens and closes numbered blocks, OpenAI sends pieces of
calls by index with the id in the first.  `"gemini_streaming"` is gemini with a
request that asks for streamed arguments (`geminiToolConfig` does when tools may run
in parallel and a tool choice is set): a call may then come as its name
(`GeminiCallStart`) and pieces of its arguments (`GeminiCallPiece`), which
`streamEvents` does not read, taking each piece for a call without arguments.

`Replay` has the functions of `contents.go` and `message_transform.go` as operators
on entries that keep role, author, branch, vendor, call and result ids, and whether
there is text to read.

`Sessions`: a stream is an agent at work.  An entry gets its time when it is made
(`draft`) and is appended later, so that streams of a parallel agent may store them
in another order; the database sorts by time and refuses a stale session by
`update_time`, the in-memory store appends.  `born` counts the lives of the session.
A stream finds its session by id and not by `born`: one that worked on a session that
was deleted may store entries, a checkpoint and an agent state in the next one of that
name.  `mixed` (history) says that a session was deleted under a stream, that runs
overlapped, or that one left calls open beside an older checkpoint.
Requests are checked at the in-memory store only: a session object of the database
keeps what it saw at `Get` (`snapshot`) and never shows a run its own entries.

### EntryTree

`memory` and `leaf` are a manager's, `file` the lines; a write may fail or fall short,
and a load skips what does not parse.  `told` is the reference definition: the context
that an entry should end, built up as entries are added, where
`BuildSessionContext` computes it backwards from the leaf.

### DurableTool

`wpc`, `status`, `pending`, `data`, `attempt`, `signals` and `cancel` are the workflow
(`RunWorkflow`, with the activity `RunSegment`), `pc[r]` and `found[r]` an execution of
the tool, `checkpoint` the session's.  A signal is its number and the keys of its
payload: ids of interrupts, or the id of the function call (`ForCall`), which is
taken as the answer to whatever is pending (`Answered`,
`resumePayloadForPendingInterrupts`).  Faults: an attempt fails, before the body or
after it; a signal is sent by an execution whose run was aborted after it, by several
executions that resume one checkpoint, or by somebody else (`Resume`: the interface
has `Runner.Resume`); the workflow is canceled.  A query is answered by the workflow
with the signals sent before it taken, as Temporal orders them: no poll is stale.
`segments` (history) is on what signal the body ran, and after which pause; `apart`
(history) says that runs overlapped, one was aborted, or others signaled or canceled.

### Turns and Hooks

`Turns`: a step of the flow is one action; callers add messages at any time (`Steer`,
`FollowUp`), `AfterTurn` takes all steering messages, or else all follow-ups, and they
are yielded one by one, where the consumer may stop.  Other extensions inject messages
too, before a turn (`BeginTurn`) or after it, and in either role; a yielded message is
persisted unless it has the user's role (`appendEvent`), and a request is made of what
was persisted.  `sent`, `shown`, `lost` and `unheard` are history: the last has the
messages that were yielded and that no request has had.

`Hooks`: each hook is one action that takes the answers of all extensions and
applies `ForEach`: the first answer counts before a call, the last replacement
after it and on events.  An event is recorded and yielded as the extensions left it,
while the flow goes on with the one it had.  An error of `BeforeToolCall` becomes the
result of the call, but for an `InterruptSignal`, which pauses it (`halted`); the
resume runs the tool without asking the hook again.  Batches, transfers and turn hooks
are in the other modules.

### Interrupts

A step's calls run plain tools, approvals, tools that pause by themselves and agents
as tools, which run a nested step, without agents as tools in it.  The signal of the
step is flattened (`ToInterruptData`), saved, loaded, rebuilt (`ToSignals`) and answered.

### McpClient, Tui, UIStream and Codec

`McpClient`: `getSession` and `refreshConnection` hold the mutex and are one action
each; requests are between them.  The server ends a session at any time, and so does
a canceled caller whose ping fails.

`Tui`: keys and events are actions.  Sending an event waits for `Update`, so it is a
joint step of the run and the model.  `currentTextBlock` is the index into
`transcript` that deltas go to.

`UIStream`: `EntryToParts` with its `StreamState`, over any sequence of entries whose
texts grow, shrink or change; `view` is a client that shows what the parts say, and
shows a part that does not fit as a block of its own (`Misfit`).  The texts are sequences
of bytes, as the converter compares their lengths.

`Codec`: an entry with any contents and results is written in the present form or
one of the older ones and read back; there is one step for each.

## Runs

| run | instance | shows |
| --- | --- | --- |
| `runner_serial` | 3 runs in turn, calls `g`,`k` guarded and `h` transferring, batches of 2 | all the general invariants, and the two that need runs to take turns |
| `runner_concurrent` | 2 runs at once, `g` guarded and `h` transferring | the general invariants, the refinement of `Approval`, and that every run ends |
| `runner_handoff` | as serial, 2 runs | a violation: resume data reaches the agent transferred to |
| `runner_sub_agent` | as serial, 2 runs | a violation: a resume does not reach the agent that asked |
| `runner_raw_pause` | as serial, one raw call | a violation: a paused call is not pending |
| `parallel` | 3 runs, 2 sub-agents of which one may go on after a final response | saved progress and checkpoint fit each other, nothing is lost or left behind, in every order of events |
| `parallel_restart` | the same, plain sub-agents | a violation: a resume that did not end well makes the next one start over |
| `file_store` | 2 services, 2 entries, 2 revisions, 2 lock files, 1 delete | nothing acknowledged is lost silently, memory and disk agree, the lock keeps services apart, updates replace what they read |
| `file_store_owner` | the same, nobody is closed | a violation: two services write to one session |
| `loop` | 4 runs, 3 sub-agents, 2 iterations | order, completeness and resume position of a loop, and that it ends |
| `parts` | `MCParts`: the components below, each in turn | what the components that have no state in common promise |
| `nested_interrupts` | 1 call and 1 nested call: plain tools, approvals, an agent tool | a violation: an answer never reaches a tool inside an agent tool |

`MCParts` puts the instances side by side: `part` says which one a behaviour is of,
and the variables of the others are `Off`.  That makes one graph of the graphs
of the parts, without interleaving them.  `SessionsBound` bounds `Sessions` a second
time: only the first session of the in-memory store has all four entries.

| part | instance | properties |
| --- | --- | --- |
| `Stream` | 3 adapters, gemini with and without streamed arguments, 4 chunks | `StreamSaysWhatIsSaid`: deltas and final message are what the vendor said; of calls with streamed arguments only that both have the same |
| `Sessions` | 3 streams of 3 agents in 2 branches: the memory store, 4 entries | `RequestIsAcceptable`: every request is whole and one the vendor accepts |
| | the database, 3 entries | `SnapshotIsPrefix`: nothing is stored in the midst of what a `Get` returned |
| | both stores, a session and another of its name, 2 streams, 3 entries | `NothingIsLeft`: nothing is stored under the name of a session that is deleted, but for agent states in memory, and when it is made again its checkpoint is of its own log, unless streams overlapped or worked on the deleted one |
| `EntryTree` | 2 managers, 3 entries, 1 failed write | `ContextIsWhatWasTold` |
| `DurableTool` | 3 executions, 2 attempts, 2 interrupts, 1 signal of others | `RunsOnAnswersOnly`, `CheckpointIsThePause`, `ExecutionEnds` |
| `Turns` | 2 messages, queued or injected, 1 turn without one, 2 runs | `QueuedAreShown`, `ShownAreAnswered`: but for messages of the user's role |
| `Tui` | 2 sessions, 3 messages, 3 interrupts | `DecisionsFitTheCheckpoint`, `LastWordsStay` |
| `Interrupts` | 2 calls, 2 nested calls | `PauseIsPersisted` |
| `McpClient` | 2 callers, 3 connections, 2 pages | `CallersDoNotDisturb` |
| `UIStream` | 5 sayings, 2 calls, 3 entries | `PartsSayTheEntries` |
| `Codec` | 2 contents of 4 types, 2 results | `ReadsWhatWasSaid` |
| `Hooks` | 2 extensions, 3 runs, 2 messages of the model | `HooksDecide`: a call refused, other than with an interrupt, is not executed, one paused only by the resume, and only an extension's own doing loses a call or executes one again |

Bounds: `Runs` and `Calls` bound how long a session is.  Three runs in turn are
needed for interrupt, failed resume, second resume; two guarded calls in a batch
for partial answers; one transferring call for agents to change in the middle.
Two agents suffice, since only "the same or another" matters; a third name,
`Unknown`, is a transfer target outside the tree.  Tools that both transfer and
need approval are in `runner_handoff` only in the form of that finding: a resumed
tool that transfers makes every later resume of that checkpoint fail.

`parallel` needs three runs for an interrupt, a resume that interrupts again and
a resume of that; two sub-agents give every order of one completing, interrupting
or failing before or after the other.  `loop` has a first, a middle and a last
sub-agent, and an iteration before and after the one that is interrupted.

`file_store` needs two entries for one to be glued to another that was cut short, two
revisions for an update that comes too late, and two lock files for one that is
replaced; a third service would only be another of the two kinds, the one that
holds the lock and one that does not.

Of the parts: four chunks are two calls in two pieces each, in every order; three
streams are a parent and two that run in parallel; four entries are a call, another
agent's reply between it and its result, and what follows; three ids are a
compaction between two messages, on either of two branches; three executions are the
first, its resume, and one that is late or comes twice; three connections are one
that is lost twice; two extensions are one before and one after another; three runs
are a pause, a resume that fails or is stopped, and the next resume.

The type invariants of `Runner`, `Parallel`, `Loop` and `FileStore` are proved
(`TypeCorrect`) and not checked by a run; those of the parts are in `parts`.

Deadlock is not checked: a session whose runs are over does stop.

Symmetry: runs differ only in their names, and so do services.  It is used in
`runner_serial` and `file_store`, which have no liveness property.  The view drops the locals of runs that are over.

Fairness (`FairSpec`): weak fairness of each started run's next step.  The
goroutine that ranges over the iterator runs until it stops or the stream ends,
and model and tool calls are assumed to return; no fairness is assumed of
starting a run, or of which alternative is taken.  `Parallel` has weak fairness of
each goroutine and of the collector, `Loop` of the loop and of the end of each
sub-agent: the Go scheduler runs every goroutine, and sub-agents do return.
`DurableTool` has weak fairness of the workflow's worker (`Worker`: Temporal hands a
task to a worker as long as one lives) and of each execution's next step but an
abort (`Attends`: the goroutine that polls).  Its attempts are bounded: with no
RetryPolicy Temporal tries for ever, and then a signal that fits no pause leaves the
execution polling; `ExecutionEnds` is about a policy with an end.  In `parts` it is
checked of one execution, as they are alike.

## Proofs

The constants are assumed to be what the ASSUME of each module says, no more.

`RunnerProofs` proves for every set of agents, runs and calls and every bound:

* `TypeCorrect`, by induction on the steps;
* `ApprovedOnly`: `NoUnapprovedExecution` is strengthened to `ApprovalInv`
  (whatever is to be resumed is in a checkpoint that was asked, and answers are
  only given to what was asked), which every step preserves;
* `TranscriptOK` with its two corollaries: `TranscriptInv` adds that the calls of
  the step in progress, of the collected signals and of the loaded checkpoint
  were made in the log by the agent that holds them.  The log is append-only, so
  a call once made stays made (`AppendKeepsCalls`);
* `NothingDangles`: `CallInv` says where every call of a live run is to be found:
  answered, asked, raw, pending or signalled;
* `StreamIsTheLog`: what a run sent its caller is what the log keeps (`Keep`) of what
  that run said.  `Publish` appends one entry to both, whether the consumer goes on
  or not (`PublishStream`);
* `ImplementsApproval`: the initial states map to those of `Approval`, and each step of
  the runner to one of its steps or to none.  `FreshInv` says that the calls a step has
  in hand are its own, made once, and neither answered nor asked before it does so, so
  that a question is always a first one; `VerdictInv` that the answers of a run are on
  what was asked, and that a resume step has run what it was told to run; `ApprovalInv`
  is that of `ApprovedOnly`;
* `ApprovalIsUsedOnce` and `ClearsWhatIsAnswered`, under the hypothesis that one run is
  in progress at a time (`MaxActive = 1`).  The code has nothing to keep a second run from
  resuming the same checkpoint, and with two at once neither holds.  `SerialInv` says that the
  run in progress has the checkpoint to itself (`Exclusive`), and that a call which ran
  in a run that is done is pending nowhere (`Used`).

The assumptions of `RunnerProofs` are those of `RunnerAssumption`: the root is an agent
of the tree, `None` and `Unknown` are not, and bounds are positive.

`LoopProofs` proves all the safety properties of `Loop` for every number of
sub-agents, iterations and runs.  `StoreInv` adds the order of the two writes;
`TrailInv` says that the trail is what comes before the position due, which while
sub-agents are skipped is the position the run started at; `AnswerInv` follows the
resume data from the run to the sub-agent that consumes it.

`ParallelProofs` proves all the safety properties of `Parallel` for every set of
sub-agents.  `CollectInv` relates, for each goroutine, where it is, what it sent
last and what the collector knows of it; when all results are in (`AllIn`) that
makes the collector's sets complete.  A step of one goroutine leaves what is known
of the others alone (`OneWorker`).

`FileStoreProofs` proves all the safety properties of `FileStore` for every set of
services.  `LogInv` adds that an append which found the session goes on with what
is cached, and that what was acknowledged is in a log that can be read
(`BehindReadable`: a line is only readable behind lines that are); `SeenInv` orders
revisions; `LockInv` says that the lock file has one owner until somebody is
disturbed (`FlockOwner`).

`MCPartsProofs` proves fifteen of the properties that the run `parts` checks, under the
names they have there.  `Begins` and `StepsOf` say that a behaviour of `MCParts` is one
of the component `part` names: an invariant that a component's own steps preserve
holds while it is at work, as nothing else moves.  The invariants are in `PartsProofs`
and `EntryTreeProofs`, and those of `UIStream` and `Sessions` in `MCPartsProofs` itself:

* `Sessions`: a snapshot stays a beginning of the log (`SnapshotInv`) since the log is
  strictly ascending in time and never ahead of `update_time` (`LogInv`) and a draft has a
  time of its own (`DraftInv`): an entry with an earlier time than the last one would go
  into the midst of the snapshot, and is refused.  Of a deleted session nothing is stored
  (`GoneInv`); and as long as the streams at work are those of the session that is there,
  what they have to answer, and what a checkpoint has pending, was called in its log
  (`LoggedInv`).
* `EntryTree`: `TreeInv` says that there are the entries `g`, from which the file, the
  memory of every manager and what is told are read (`FileOf`, `MemoryOf`, `Grown`).
  `Fits` says of what is told that a context is the end of all that was said on its
  branch, behind at most one summary: what a compaction keeps is therefore the same in
  both.  `Reads` relates a path to what was told at its leaf, where the path begins
  behind an entry `b`: the path says what was told, less a part of what came up to `b`;
  it is followed entry by entry (`ReadsMore`) up the walk from the leaf (`PathReads`).
  Where the manager has the parent of every entry, `b` is 0 and nothing is missing
  (`PathTells`); a line that was lost cuts the path off and leaves the rest in order.
* `DurableTool`: `StatusInv` relates the state that is polled to where the workflow is;
  `SignalsInv` says that the signals are kept in the order of their numbers, and that the
  one the workflow has is earlier than they; `SegmentInv` that what is pending came after
  all segments but the last, and that the signal in hand is later than those of all
  segments before; and `PauseInv` that, while nothing comes between, one execution is at
  work at a time, with the pause that it found.
* `Turns`: `Noted` adds where the loop keeps that something was yielded: in `injected`
  until the turn is over, and then in the number of the next turn, since only the first
  may resume a tool in the place of a model call; and that what is persisted is heard by
  the next model call (`UsersOnly`).  `Placed` says that a queued message is
  in one place only: shown, taken by the turn (`ctrl.Messages`), in its queue, or lost
  with a run that stopped; and `InOrder` that the first three, one after the other,
  have the messages of a queue in the order they were sent.
* `Tui`: `TuiInv` says that while an approval is open, the decisions made and those to
  come are on just what the session shown is pending on, and that no run moves then.
  `SightInv` says that the block a run writes to is the last of the transcript
  (`BlockInv`), and that the prompt until it is saved (`InputInv`) and the last message
  until the next one comes (`SayingInv`) are at its end, so that no block is written over
  but one of the same run.
* `McpClient`: `ListOf` says that the pages of a list are the first ones of one session,
  and that of an undisturbed caller the next one will be too; `LostOf` that a caller that
  has reconnected holds a session it has not found closed.  `None` is no number, as
  sessions are numbers here.
* `Hooks`: `StageInv` says what is in hand at each hook, `PendingInv` that what is
  pending can be resumed and was not refused, `CallsInv` that a call that was made is
  answered, pending or in hand, but for what an extension changed or a failing run broke.
  A call that an extension paused counts as pending, not as refused, and is not in hand
  when a tool runs (`HaltedInv`).
  `Recorded` is what recording one event does to all of that.  `None` is no checkpoint.
* `Interrupts`: a step changes nothing but what a pause leaves, so that `PersistInv` is
  the property itself, and the work is in two facts about the operators.  The tree comes
  back (`TreeOfStep`, `PendingOfStep`): ids are those of their places in the tree, so that
  the contexts above a leaf are those of its own ancestors, and the children of a context
  the signals under it.  And what `ToPersistenceMaps` keeps for the address of an approval is that approval:
  no other signal has that address, while those of the agents share theirs.
* `Stream`: `StreamInv` says what the builder and a consumer have in hand beside `said`.
  A consumer who absorbs the deltas has the builder's message, all of it
  (`Seen`); the one block of text and the one of thinking hold what was said of each, in
  pieces (`Written`); the calls of the builder, in their order, are those the vendor has
  sent (`Matched`); and the key or index of a chunk leads to the call that the vendor
  means (`Keyed`).  A vendor that sends whole calls never looks one up.  Of the calls of
  gemini with streamed arguments (`Found`) only that keys lead to calls.
* `UIStream`: `ClientInv` says that between entries no step, text or reasoning is open,
  that the calls told are the calls made, that no two items of the client have one name
  (`View`) and the numbers in its names were given (`Numbered`), that what it shows is
  what the entries say, one after the other (`SaysAll`), and that a call without an
  answer has an item that waits for it (`ResultsIn`).  `ShownEntry` follows the parts of
  an assistant's entry, block by block; a name that is new cannot fit an older item.
* `Codec`: each form gives back a content (`ContentBack`) and a result (`ResultsBack`),
  then a message (`MessageBack`) and its row (`RowBack`), of any number of them.  `None`
  is none of the texts that are stored.

`KeptProofs` is about what `Keep` and `Joined` return for `Append`, concatenation, equal
sets and sequences that differ elsewhere; and that `Keep` is the sequence itself at the
places of what is kept (`KeepIsEnumerated`).
The library's induction theorems take an operator as a parameter; `SetInduction` and
`SeqInduction` are stated of a set instead: one that has `<<>>` and is closed under
`Append` has every sequence.

Only model-checked:

* `RequestIsAcceptable`: the request is computed by folds of the community modules over
  sequences of any length, one upon the other, which the library has no theorems on;
* `TypeOK` of `MCParts`, which is the conjunction of those of all parts.  Where a proof
  needs the types of a component, its invariant has them;
* the liveness properties `RunsEnd`, `NothingLeaks` and `ExecutionEnds`, which are out
  of reach of the prover, as is ENABLED.

No module has a recursive operator.  What is recursive in the code is a recursive
function, or, for the trees of `Interrupts`, written out for their four levels: the
step, the tool, the nested run and its call.  An agent tool in a nested run would add
two more; the model has none, and the theorem says nothing of them.

## What the checks found

* Resume data is not consumed once: an agent that is transferred to by a resumed
  tool inherits it, fails, and leaves the checkpoint behind (`runner_handoff`).
* Interrupts of any agent but the root cannot be resumed (`runner_sub_agent`).
* A tool that pauses by `Context.Interrupt` cannot be resumed (`runner_raw_pause`).
* A resume of a parallel agent that is abandoned or fails clears the saved
  progress and keeps the checkpoint, after which that interruption can never be
  resumed successfully (`parallel_restart`); the loop agent has the same defer.
* The lock does not keep a second service from deleting a session that is in use;
  once it is created again, both services write to it (`file_store_owner`).
* A tool inside an agent tool that pauses cannot be resumed: the outer checkpoint
  has it under an address, or without a tool, that the resume passes over
  (`nested_interrupts`).

## What the models have, and the properties exempt

Behaviours that were met while modelling.  The models have them, or say where they
stop short of them; the properties are stated so as to hold beside them.

*Against what the repository says.*  These are part of the models; the properties named
are stated beside them, and no run is about them alone.

* `agent/extension.go:92-94` says of `BeforeToolCall` that with an error "the actual tool
  call is skipped".  An error that is an `InterruptSignal` pauses the call
  (`base_flow.go:716`), and the resume executes it without asking the extension again
  (`base_flow.go:697`).  `HooksDecide` says of a call that was so paused that only a
  resume executes it.
* `agent/extension.go:61-62` says that injected messages are "emitted as events and
  persisted to the session".  Those of the user's role are not (`runner/persistor.go:67`),
  and the next request, made from the log, does not have them.  `ShownAreAnswered`
  excepts these.
* `tool/steering/extension.go:15` says that follow-ups "are injected only when the agent
  would otherwise stop".  They are taken after any turn that left no steering message
  (`extension.go:67`), also one after which the agent goes on.  `QueuedAreShown` speaks of
  their order only.
* The gemini adapter asks for streamed arguments when tools may run in parallel and a
  tool choice is set (`model/gemini/adapter.go:295-298`), and takes each piece of a call
  for a call of its own, without its arguments (`adapter.go:157-158`).  Of such an answer
  `StreamSaysWhatIsSaid` has the text and the thinking, and that the message has the calls
  that the deltas had.
* `session/checkpoint.go:14` calls the entries "the append-only audit ledger" that a
  checkpoint is the index to.  A run that is at work while its session is deleted and
  made again saves its checkpoint in the new one (`session/inmemory.go:278`), whose log
  has none of the calls.  `NothingIsLeft` excepts sessions that were deleted under a run (`mixed`).

*Runs and hooks.*  A `BeforeToolCall` that returns a result without content stops
the other extensions and does not skip the tool (`agent/extension.go:95` says a
non-nil result does).  `AfterModelCall` is not called for a model's error
(`agent/extension.go:79`).  `RunControl.EndInvocation` is read by nothing.  A result's
`IsError` set by an extension is lost.  A `BeforeRun` that answers a resume itself has
the checkpoint cleared and leaves the call open.  An assistant message that `OnEvent`
drops does not stop its tools; the pause of one of them is then saved without a tool
name and cannot be resumed.  `runner/loop.go:58` dereferences a `MessageEnd` without a
message, as `Generate` makes one when the adapter's events are not read.
`EnsureToolCallIDs` (`base_flow.go:355`) runs after the message was persisted.  A step
with an approval and an agent tool that both pause resumes the approval only and
clears the checkpoint; two pauses of `Context.Interrupt` at one address collapse into
one, and `PauseIsPersisted` speaks of approvals only.  A save replaces whatever
checkpoint is stored, without `ExpectedRevision`, so that an unanswered interrupt of
another run is lost (`runner/checkpoint.go:72`), a clear may take another run's
checkpoint, and two runs that resume one checkpoint both execute its calls
(`runner/invocation.go:55`): no property says that they do not.

*Durable tools.*  Without a RetryPolicy, see Fairness.  A resumed tool that pauses a
second time is an error for the flow, and the checkpoint keeps the old ids.  An abort
leaves a checkpoint that no longer fits.  One answer without a key for several
interrupts is refused, and the workflow goes on waiting.  A payload with a key for the
call answers whatever pause it meets, so that one sent too late runs the body on.
Nothing calls `Cancel`.

*Stores.*  The database keeps a run from seeing its own entries, sorts equal times
arbitrarily and relies on the schema to delete what hangs on a session; its
checkpoint revision restarts like that of the file store.  The in-memory `Delete`
keeps agent states.  An append by ids lands in a session made again under them.
`contents.go` drops the entries of an authorization call and keeps their results.
Ids that were changed to fit a vendor may collide.  What a message has as error code
is not stored; a call's arguments `{}` are read back as nil, which two adapters send
as `null`.  The parents of entries written by the runner are all the same entry.

*UI.*  A later text of one run overwrites the block of an earlier one; a `/new` whose
model entry cannot be written leaves the new session as current; interrupts other
than approvals are not asked.  The part stream of several runs has several `Finish`
for one `Start`, and calls without ids of different steps get the same one.

*Tools.*  A list of MCP tools may come from two sessions when another caller
reconnects in between, and a canceled caller's ping closes a session that is alive.
Two edits of one file in parallel lose one (`tool/editfile`, not modelled).

## Not modelled

The REST server, the launchers, telemetry and configuration: request decoding, I/O
and observation, without state that the rest reads.  The agent tree is built once and
is a constant of `Runner`.  Of the adapters the schemas, generation options, usage and
the tables of OpenAI dialects; of the tools the file, shell and function tools; of the
terminal UI the drawing, the composer and the rendering of tool calls: conversions and
external effects with no protocol of their own.  Of the file store `List` and the
agent states.  Agent tools in the nested run of an agent tool.  `AfterToolCall`, which
can only replace a result.  Workflow agents in workflow agents, and a loop without an
end.

What would come next: an abstract store that
`FileStore` and `Sessions` both implement, and nested workflow agents.
