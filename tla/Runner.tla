------------------------------- MODULE Runner -------------------------------
(***************************************************************************)
(* One session of the tadk runner: Runner.Run drives an agent through its  *)
(* turns, persists what the agent says, saves a checkpoint when tools ask  *)
(* for approval, and resumes from that checkpoint in a later run.          *)
(*                                                                         *)
(* A run is one call of Runner.Run (package runner); inside it the llm     *)
(* agent's turn loop (package agent/llmagent) and Flow.Step                *)
(* (internal/llminternal) are stepped explicitly.  The consumer of the     *)
(* event stream may stop iterating at every yield; the session store and   *)
(* the model may fail.  Several runs may share the session.                *)
(*                                                                         *)
(* The tools a model may call are told apart by what they do to control:   *)
(*   Guarded  wrapped by interrupt.WithApproval                            *)
(*   Raw      pause through tool.Context.Interrupt                         *)
(*   Handoff  return Control.TransferToAgent when they execute             *)
(***************************************************************************)
EXTENDS Naturals, Sequences, FiniteSets, Kept

CONSTANTS
  Agents,      \* names in the agent tree
  Root,        \* Config.Agent, the root of the tree
  Unknown,     \* an agent name the tree does not hold
  None,        \* no agent
  Runs,        \* calls of Runner.Run: bounds how many are made
  Calls,       \* tool call ids: bounds how many calls the model makes
  Guarded,     \* the calls of tools that need an approval
  Raw,         \* the calls of tools that call tool.Context.Interrupt
  Handoff,     \* the calls whose tool transfers to another agent
  MaxActive,   \* how many runs are in progress at a time
  MaxBatch     \* how many tool calls one assistant message makes

ASSUME RunnerAssumption ==
  /\ Root \in Agents
  /\ None \notin Agents /\ Unknown \notin Agents /\ None # Unknown
  /\ Guarded \subseteq Calls /\ Raw \subseteq Calls /\ Handoff \subseteq Calls
  /\ Guarded \cap Raw = {}
  /\ MaxActive \in Nat \ {0} /\ MaxBatch \in Nat \ {0}

VARIABLES
  \* the session store
  log,         \* the session's durable entries, oldest first
  checkpoint,  \* the session checkpoint, or NoCheckpoint
  \* the state of each run
  pc,          \* where the run is
  msg,         \* does the caller pass a user message?
  given,       \* the calls RunOptions.ResumeData has an answer for
  approved,    \* those among them answered {"approved": true}
  agent,       \* the agent that is running (its Address, too)
  loaded,      \* invocation: the checkpoint read when the run began
  wrote,       \* invocation.wroteInterruptCheckpoint
  transfer,    \* streamAgentEvents' transferTo
  todo,        \* tool calls of this step that have not returned
  pend,        \* tool calls of this step not yet turned into events
  sig,         \* tool calls of this step that returned an interrupt
  messages,    \* Run's messages: the MessageEnds the consumer was sent
  \* history
  ran,         \* <<r, c>>: run r entered the body of the tool of call c
  asked        \* the calls some saved checkpoint held as pending

store == <<log, checkpoint>>
inputs == <<msg, given, approved>>
control == <<agent, loaded, wrote, transfer>>
step == <<todo, pend, sig>>
history == <<ran, asked>>
vars == <<store, pc, inputs, control, step, messages, history>>

-----------------------------------------------------------------------------
Targets == Agents \cup {Unknown}
Interrupting == Guarded \cup Raw

\* What a resume needs of session.Checkpoint: the AgentAddress and the
\* ToolCallIDs of its pending interrupts.  One save is by one agent.
Checkpoint == [owner: Agents \cup {None}, calls: SUBSET Calls]
NoCheckpoint == [owner |-> None, calls |-> {}]

\* An entry of the session log.  Only what control depends on is kept of a
\* message: its role, the agent that wrote it and the tool calls it makes
\* or answers.
Entry == [by: Runs, kind: {"user", "assistant", "result"},
          author: Agents \cup {None}, calls: SUBSET Calls]
UserEntry(r) ==
  [by |-> r, kind |-> "user", author |-> None, calls |-> {}]
AssistantEntry(r, cs) ==
  [by |-> r, kind |-> "assistant", author |-> agent[r], calls |-> cs]
ResultEntry(r, cs) ==
  [by |-> r, kind |-> "result", author |-> agent[r], calls |-> cs]

CallsOf(kind) == UNION {log[i].calls : i \in {j \in DOMAIN log : log[j].kind = kind}}
Called == CallsOf("assistant")
Answered == CallsOf("result")

\* Every non-empty list of at most MaxBatch distinct calls the model has
\* not made yet.
Batches == {b \in UNION {[1..n -> Calls \ Called] : n \in 1..MaxBatch} :
              \A i, j \in DOMAIN b : b[i] = b[j] => i = j}

Over == {"done", "failed", "aborted"}
Position == {"idle", "started", "opened", "agent", "resume", "model", "tools",
             "emit", "left"} \cup Over
Active == {r \in Runs : pc[r] \notin Over \cup {"idle"}}
IsResume(r) == given[r] # {}

-----------------------------------------------------------------------------
\* yield(ev, nil): the consumer takes the event, or stops iterating.
Yield(r, next) ==
  \E q \in {next, "aborted"} : pc' = [pc EXCEPT ![r] = q]

\* An error reaches Run, which passes it to the consumer and stops; AgentEnd
\* follows (state "failed") unless the consumer has stopped iterating.
Fail(r) == Yield(r, "failed")

\* Mutant: yield first, persist after; an abort in between loses the entry.
PublishThenPersist(r, e, next) ==
  /\ messages' = [messages EXCEPT ![r] = Append(@, e)]
  /\ \/ pc' = [pc EXCEPT ![r] = next] /\ log' = Append(log, e)
     \/ pc' = [pc EXCEPT ![r] = "aborted"] /\ UNCHANGED log

\* persistEvent of a MessageEnd followed by its yield.
Publish(r, e, next) ==
  /\ log' = Append(log, e)
  /\ messages' = [messages EXCEPT ![r] = Append(@, e)]
  /\ Yield(r, next)

-----------------------------------------------------------------------------
Init ==
  /\ log = <<>>
  /\ checkpoint = NoCheckpoint
  /\ pc = [r \in Runs |-> "idle"]
  /\ msg = [r \in Runs |-> FALSE]
  /\ given = [r \in Runs |-> {}]
  /\ approved = [r \in Runs |-> {}]
  /\ agent = [r \in Runs |-> Root]
  /\ loaded = [r \in Runs |-> NoCheckpoint]
  /\ wrote = [r \in Runs |-> FALSE]
  /\ transfer = [r \in Runs |-> None]
  /\ todo = [r \in Runs |-> {}]
  /\ pend = [r \in Runs |-> <<>>]
  /\ sig = [r \in Runs |-> {}]
  /\ messages = [r \in Runs |-> <<>>]
  /\ ran = {}
  /\ asked = {}

\* The caller starts a run: with a message, or with answers to interrupts
\* it was shown (and then with or without a message).  AgentStart is sent.
Start(r) ==
  /\ pc[r] = "idle"
  /\ Cardinality(Active) < MaxActive
  /\ \E m \in BOOLEAN, d \in SUBSET asked :
       \E y \in SUBSET d :
         /\ m \/ d # {}
         /\ msg' = [msg EXCEPT ![r] = m]
         /\ given' = [given EXCEPT ![r] = d]
         /\ approved' = [approved EXCEPT ![r] = y]
  /\ pc' = [pc EXCEPT ![r] = "started"]
  /\ UNCHANGED <<store, control, step, messages, history>>

\* newInvocation: a resume run loads the checkpoint and starts at the root
\* agent; any other run starts at RunOptions.TargetAgent, or the root.
NewInvocation(r) ==
  /\ pc[r] = "started"
  /\ \/ /\ IsResume(r)
        /\ loaded' = [loaded EXCEPT ![r] = checkpoint]
        /\ agent' = [agent EXCEPT ![r] = Root]
     \/ /\ ~IsResume(r)
        /\ \E a \in Agents : agent' = [agent EXCEPT ![r] = a]
        /\ UNCHANGED loaded
  /\ pc' = [pc EXCEPT ![r] = "opened"]
  /\ UNCHANGED <<store, inputs, wrote, transfer, step, messages, history>>

\* The session or the checkpoint cannot be read, or the target agent is not
\* in the tree.
NewInvocationFails(r) ==
  /\ pc[r] = "started"
  /\ Fail(r)
  /\ UNCHANGED <<store, inputs, control, step, messages, history>>

\* persistUserMessage: the caller's message goes straight to the log.
PersistUserMessage(r) ==
  /\ pc[r] = "opened"
  /\ log' = IF msg[r] THEN Append(log, UserEntry(r)) ELSE log
  /\ pc' = [pc EXCEPT ![r] = "agent"]
  /\ UNCHANGED <<checkpoint, inputs, control, step, messages, history>>

PersistUserMessageFails(r) ==
  /\ pc[r] = "opened" /\ msg[r]
  /\ Fail(r)
  /\ UNCHANGED <<store, inputs, control, step, messages, history>>

-----------------------------------------------------------------------------
\* The first turn of an agent.  It re-emits the user message, which the
\* persistor skips, and then takes its first step.  The run's ResumeData is
\* part of the RunState that a transferred-to agent inherits, so its first
\* step is a resume step too.
Greet(r) ==
  messages' = IF msg[r]
                THEN [messages EXCEPT ![r] = Append(@, UserEntry(r))]
                ELSE messages

BeginAgent(r) ==
  /\ pc[r] = "agent" /\ ~IsResume(r)
  /\ Greet(r)
  /\ Yield(r, "model")
  /\ UNCHANGED <<store, inputs, control, step, history>>

\* Mutant: no comparison of AgentAddress with Address().
ResumableByAnyone(r) == loaded[r].calls

\* The pending interrupts a resume step handles: those of this very agent.
Resumable(r) == IF loaded[r].owner = agent[r] THEN loaded[r].calls ELSE {}

BeginResume(r) ==
  /\ pc[r] = "agent" /\ IsResume(r) /\ Resumable(r) # {}
  /\ Greet(r)
  /\ todo' = [todo EXCEPT ![r] = Resumable(r)]
  /\ Yield(r, "resume")
  /\ UNCHANGED <<store, inputs, control, pend, sig, history>>

\* "no checkpoint found for resume"
ResumeRefused(r) ==
  /\ pc[r] = "agent" /\ IsResume(r) /\ Resumable(r) = {}
  /\ Greet(r)
  /\ Fail(r)
  /\ UNCHANGED <<store, inputs, control, step, history>>

\* Mutant: the approval tool does not look at the answer.
ResumeCallUnchecked(r, c) ==
  /\ pc[r] = "resume" /\ c \in todo[r] \cap given[r]
  /\ ran' = ran \cup {<<r, c>>}
  /\ todo' = [todo EXCEPT ![r] = @ \ {c}]
  /\ UNCHANGED <<store, pc, inputs, control, pend, sig, messages, asked>>

\* handleResumeFromCheckpoint ranges over the pending interrupts (a Go map,
\* so in any order) and calls each tool with its answer.
ResumeCall(r, c) ==
  /\ pc[r] = "resume" /\ c \in todo[r] \cap given[r]
  /\ ran' = IF c \in approved[r] THEN ran \cup {<<r, c>>} ELSE ran
  /\ todo' = [todo EXCEPT ![r] = @ \ {c}]
  /\ UNCHANGED <<store, pc, inputs, control, pend, sig, messages, asked>>

\* The approved tool returns an interrupt again: an error, not an event.
ResumeCallInterrupts(r, c) ==
  /\ pc[r] = "resume" /\ c \in todo[r] \cap approved[r] \cap given[r]
  /\ ran' = ran \cup {<<r, c>>}
  /\ Fail(r)
  /\ UNCHANGED <<store, inputs, control, step, messages, asked>>

\* "missing resume data for interrupt": the calls made so far stay made.
ResumeDataMissing(r) ==
  /\ pc[r] = "resume" /\ todo[r] \ given[r] # {}
  /\ Fail(r)
  /\ UNCHANGED <<store, inputs, control, step, messages, history>>

\* One message answers every pending call; an executed tool may transfer.
ResumeResults(r) ==
  /\ pc[r] = "resume" /\ todo[r] = {}
  /\ Publish(r, ResultEntry(r, Resumable(r)), "emit")
  /\ \E t \in Targets \cup {transfer[r]} :
       /\ t = transfer[r] \/ Resumable(r) \cap approved[r] \cap Handoff # {}
       /\ transfer' = [transfer EXCEPT ![r] = t]
  /\ UNCHANGED <<checkpoint, inputs, agent, loaded, wrote, step, history>>

-----------------------------------------------------------------------------
\* runStepItems: the model answers with tool calls, which then run in
\* parallel ...
ModelCallsTools(r) ==
  /\ pc[r] = "model"
  /\ \E b \in Batches :
       LET cs == {b[i] : i \in DOMAIN b} IN
         /\ Publish(r, AssistantEntry(r, cs), "tools")
         /\ todo' = [todo EXCEPT ![r] = cs]
         /\ pend' = [pend EXCEPT ![r] = b]
  /\ UNCHANGED <<checkpoint, inputs, control, sig, history>>

\* ... or with a final response, which ends the agent's stream ...
ModelAnswers(r) ==
  /\ pc[r] = "model"
  /\ Publish(r, AssistantEntry(r, {}), "left")
  /\ UNCHANGED <<checkpoint, inputs, control, step, history>>

\* ... or not at all, or the log does not take the answer.
ModelFails(r) ==
  /\ pc[r] = "model"
  /\ Fail(r)
  /\ UNCHANGED <<store, inputs, control, step, messages, history>>

\* Mutant: the goroutine of a guarded call waits for its approval in place.
ToolWaits(r, c) ==
  /\ pc[r] = "tools" /\ c \in todo[r] \ (Guarded \ approved[r])
  /\ ran' = ran \cup {<<r, c>>}
  /\ todo' = [todo EXCEPT ![r] = @ \ {c}]
  /\ UNCHANGED <<store, pc, inputs, control, pend, sig, messages, asked>>

\* One of the goroutines of handleFunctionCalls returns.  WithApproval does
\* not enter the wrapped tool: the first call of it is always an interrupt.
ToolReturns(r, c) ==
  /\ pc[r] = "tools" /\ c \in todo[r]
  /\ ran' = IF c \in Guarded THEN ran ELSE ran \cup {<<r, c>>}
  /\ todo' = [todo EXCEPT ![r] = @ \ {c}]
  /\ UNCHANGED <<store, pc, inputs, control, pend, sig, messages, asked>>

\* errgroup.Wait returns when every goroutine has.
ToolsDone(r) ==
  /\ pc[r] = "tools" /\ todo[r] = {}
  /\ pc' = [pc EXCEPT ![r] = "emit"]
  /\ UNCHANGED <<store, inputs, control, step, messages, history>>

-----------------------------------------------------------------------------
\* The step's events are yielded in the order of the calls: a result for
\* each call that returned one ...
EmitResult(r) ==
  /\ pc[r] = "emit" /\ pend[r] # <<>> /\ Head(pend[r]) \notin Interrupting
  /\ Publish(r, ResultEntry(r, {Head(pend[r])}), "emit")
  /\ pend' = [pend EXCEPT ![r] = Tail(@)]
  /\ \E t \in Targets \cup {transfer[r]} :
       /\ t = transfer[r] \/ Head(pend[r]) \in Handoff
       /\ transfer' = [transfer EXCEPT ![r] = t]
  /\ UNCHANGED <<checkpoint, inputs, agent, loaded, wrote, todo, sig, history>>

\* Mutant: the last interrupt replaces the ones collected before it.
CollectLastSignal(r) ==
  /\ pc[r] = "emit" /\ pend[r] # <<>> /\ Head(pend[r]) \in Interrupting
  /\ sig' = [sig EXCEPT ![r] = {Head(pend[r])}]
  /\ pend' = [pend EXCEPT ![r] = Tail(@)]
  /\ UNCHANGED <<store, pc, inputs, control, todo, messages, history>>

CollectSignal(r) ==
  /\ pc[r] = "emit" /\ pend[r] # <<>> /\ Head(pend[r]) \in Interrupting
  /\ sig' = [sig EXCEPT ![r] = @ \cup {Head(pend[r])}]
  /\ pend' = [pend EXCEPT ![r] = Tail(@)]
  /\ UNCHANGED <<store, pc, inputs, control, todo, messages, history>>

\* Mutant: the checkpoint names the agent the run began with.
EmitInterruptAsRoot(r) ==
  /\ pc[r] = "emit" /\ pend[r] = <<>> /\ sig[r] # {}
  /\ checkpoint' = [owner |-> Root, calls |-> sig[r] \cap Guarded]
  /\ asked' = asked \cup (sig[r] \cap Guarded)
  /\ wrote' = [wrote EXCEPT ![r] = TRUE]
  /\ sig' = [sig EXCEPT ![r] = {}]
  /\ Yield(r, "left")
  /\ UNCHANGED <<log, inputs, agent, loaded, transfer, todo, pend, messages, ran>>

\* ... and one composite interrupt at the end.  The checkpoint is saved, over
\* any older one, before the event is yielded.  A Raw interrupt carries the
\* agent's address and no call id, so a resume has nothing to match it with.
EmitInterrupt(r) ==
  /\ pc[r] = "emit" /\ pend[r] = <<>> /\ sig[r] # {}
  /\ checkpoint' = [owner |-> agent[r], calls |-> sig[r] \cap Guarded]
  /\ asked' = asked \cup (sig[r] \cap Guarded)
  /\ wrote' = [wrote EXCEPT ![r] = TRUE]
  /\ sig' = [sig EXCEPT ![r] = {}]
  /\ Yield(r, "left")
  /\ UNCHANGED <<log, inputs, agent, loaded, transfer, todo, pend, messages, ran>>

\* A write of an entry or of the checkpoint fails.
StoreFails(r) ==
  /\ \/ pc[r] = "resume" /\ todo[r] = {}
     \/ pc[r] = "emit" /\ (pend[r] # <<>> \/ sig[r] # {})
     \/ pc[r] = "left" /\ transfer[r] = None /\ IsResume(r) /\ ~wrote[r]
  /\ Fail(r)
  /\ UNCHANGED <<store, inputs, control, step, messages, history>>

\* The turn is over.  A transfer ends the agent's stream, and so does a tool
\* that returned Control.Terminal; otherwise the model is called again.
EndTurn(r) ==
  /\ pc[r] = "emit" /\ pend[r] = <<>> /\ sig[r] = {}
  /\ \E q \in {"model", "left"} :
       /\ transfer[r] # None => q = "left"
       /\ pc' = [pc EXCEPT ![r] = q]
  /\ UNCHANGED <<store, inputs, control, step, messages, history>>

-----------------------------------------------------------------------------
\* The agent's stream has ended: runAgent follows the last transfer, even
\* when the stream ended with an interrupt.
SwitchAgent(r) ==
  /\ pc[r] = "left" /\ transfer[r] \in Agents
  /\ agent' = [agent EXCEPT ![r] = transfer[r]]
  /\ transfer' = [transfer EXCEPT ![r] = None]
  /\ pc' = [pc EXCEPT ![r] = "agent"]
  /\ UNCHANGED <<store, inputs, loaded, wrote, step, messages, history>>

SwitchFails(r) ==
  /\ pc[r] = "left" /\ transfer[r] = Unknown
  /\ Fail(r)
  /\ UNCHANGED <<store, inputs, control, step, messages, history>>

\* Mutant: every resume run clears the checkpoint, its own interrupt's too.
FinalizeIgnoresInterrupt(r) ==
  /\ pc[r] = "left" /\ transfer[r] = None
  /\ checkpoint' = IF IsResume(r) THEN NoCheckpoint ELSE checkpoint
  /\ pc' = [pc EXCEPT ![r] = "done"]
  /\ UNCHANGED <<log, inputs, control, step, messages, history>>

\* Mutant: the checkpoint outlives the run that answered it.
FinalizeKeeps(r) ==
  /\ pc[r] = "left" /\ transfer[r] = None
  /\ pc' = [pc EXCEPT ![r] = "done"]
  /\ UNCHANGED <<store, inputs, control, step, messages, history>>

\* finalize: a resume run that raised no new interrupt clears the checkpoint.
Finalize(r) ==
  /\ pc[r] = "left" /\ transfer[r] = None
  /\ checkpoint' = IF IsResume(r) /\ ~wrote[r] THEN NoCheckpoint ELSE checkpoint
  /\ pc' = [pc EXCEPT ![r] = "done"]
  /\ UNCHANGED <<log, inputs, control, step, messages, history>>

-----------------------------------------------------------------------------
RunStep(r) ==
  \/ NewInvocation(r) \/ NewInvocationFails(r)
  \/ PersistUserMessage(r) \/ PersistUserMessageFails(r)
  \/ BeginAgent(r) \/ BeginResume(r) \/ ResumeRefused(r)
  \/ \E c \in Calls : ResumeCall(r, c) \/ ResumeCallInterrupts(r, c)
  \/ ResumeDataMissing(r) \/ ResumeResults(r)
  \/ ModelCallsTools(r) \/ ModelAnswers(r) \/ ModelFails(r)
  \/ \E c \in Calls : ToolReturns(r, c)
  \/ ToolsDone(r)
  \/ EmitResult(r) \/ CollectSignal(r) \/ EmitInterrupt(r)
  \/ StoreFails(r) \/ EndTurn(r)
  \/ SwitchAgent(r) \/ SwitchFails(r) \/ Finalize(r)

Next == \E r \in Runs : Start(r) \/ RunStep(r)

Spec == Init /\ [][Next]_vars

\* A run is driven by the goroutine that ranges over its stream, and the
\* tools it calls return: a run that can take a step eventually takes one.
FairSpec == Spec /\ \A r \in Runs : WF_vars(RunStep(r))
-----------------------------------------------------------------------------
TypeOK ==
  /\ log \in Seq(Entry)
  /\ checkpoint \in Checkpoint
  /\ pc \in [Runs -> Position]
  /\ msg \in [Runs -> BOOLEAN]
  /\ given \in [Runs -> SUBSET Calls]
  /\ approved \in [Runs -> SUBSET Calls]
  /\ agent \in [Runs -> Agents]
  /\ loaded \in [Runs -> Checkpoint]
  /\ wrote \in [Runs -> BOOLEAN]
  /\ transfer \in [Runs -> Targets \cup {None}]
  /\ todo \in [Runs -> SUBSET Calls]
  /\ pend \in [Runs -> Seq(Calls)]
  /\ sig \in [Runs -> SUBSET Calls]
  /\ messages \in [Runs -> Seq(Entry)]
  /\ ran \subseteq Runs \X Calls
  /\ asked \subseteq Calls

\* WithApproval's comment: "The tool will only execute when resumed with
\* {"approved": true} in the resume data."  Whatever runs, restarts and
\* interleavings there were, a run that entered the body of a guarded tool
\* was told yes about that very call, and an earlier checkpoint had asked.
NoUnapprovedExecution ==
  \A r \in Runs, c \in Guarded :
    <<r, c>> \in ran => c \in asked \cap given[r] \cap approved[r]

\* The transcript stays one a model API accepts: every tool result in the
\* log answers a call that the same agent made in an earlier entry.
ResultsFollowCalls ==
  \A i \in DOMAIN log : log[i].kind = "result" =>
    \A c \in log[i].calls : \E j \in 1..(i - 1) :
      /\ log[j].kind = "assistant" /\ log[j].author = log[i].author
      /\ c \in log[j].calls

\* toolCallForAddress finds what it looks for: each pending call of the
\* stored checkpoint was made, in the log, by the agent the checkpoint
\* says owns it.
CheckpointFindsItsCalls ==
  \A c \in checkpoint.calls : \E i \in DOMAIN log :
    log[i].kind = "assistant" /\ log[i].author = checkpoint.owner /\ c \in log[i].calls

\* What runs rs have said, the entries that an agent wrote.
Said(rs) == [by : rs, kind : {"assistant", "result"},
             author : Agents \cup {None}, calls : SUBSET Calls]

\* Run's AgentEnd is "a projection of MessageEnd events" over what the log
\* holds: up to the user message, which is re-emitted and not re-persisted,
\* the consumer was sent exactly the entries the run appended, in order.
StreamIsLog ==
  \A r \in Runs : Keep(messages[r], Said(Runs)) = Keep(log, Said({r}))

\* A run that ended without an error leaves no call of its own in the air:
\* each has its result in the log, or was put to the user in a checkpoint,
\* or paused through tool.Context.Interrupt.
NoDanglingCall ==
  \A r \in Runs : pc[r] = "done" =>
    \A i \in DOMAIN log : log[i].kind = "assistant" /\ log[i].by = r =>
      log[i].calls \subseteq Answered \cup asked \cup Raw

\* With one run at a time, a checkpoint is only ever cleared when the log
\* answers all it had pending (finalize).
ClearedWhenAnswered ==
  [][checkpoint # NoCheckpoint /\ checkpoint' = NoCheckpoint
       => checkpoint.calls \subseteq Answered]_vars

\* With one run at a time, an approval is used up by the run that completes:
\* of the runs that executed a guarded call, at most one ended without an
\* error, and none started after that one.
ApprovalUsedOnce ==
  \A r \in Runs, c \in Guarded : <<r, c>> \in ran /\ pc[r] = "done" =>
    /\ c \notin checkpoint.calls
    /\ \A q \in Runs \ {r} : <<q, c>> \in ran => pc[q] \in Over \ {"done"}

\* Every run that is started comes to its end: AgentEnd, or an abort.
RunsEnd == \A r \in Runs : pc[r] = "started" ~> pc[r] \in Over

\* agent/llmagent/llmagent.go:213 says of the turn loop: "ResumeData is
\* consumed exactly once: only the first step sees it; subsequent steps run
\* with ResumeData cleared."  A run that has produced something does not
\* take a resume step again.
ResumeDataConsumedOnce ==
  [][\A r \in Runs : BeginResume(r) \/ ResumeRefused(r) =>
       \A i \in DOMAIN log : log[i].by = r => log[i].kind = "user"]_vars

\* agent/context.go:65 calls Address "the identifier used by the resume system
\* to match a pending interrupt [...] to the agent that should consume its
\* resume data", agents a run transferred to included.  A run that resumes
\* with an answer to every pending call reaches the agent that asked.
AnswersReachTheirAgent ==
  \A r \in Runs :
    /\ pc[r] = "agent" /\ \A i \in DOMAIN log : log[i].by = r => log[i].kind = "user"
    /\ loaded[r].calls # {} /\ loaded[r].calls \subseteq given[r]
    => Resumable(r) # {}

\* tool/tool.go:39 says of Context.Interrupt that it "pauses tool execution and
\* waits for external input".  Every call that paused is pending in the
\* checkpoint, so that the input can reach it.
PausedCallIsPending ==
  [][\A r \in Runs : EmitInterrupt(r) => checkpoint'.calls = sig[r]]_vars

\* The runner keeps the promise of WithApproval.
Gate == INSTANCE Approval WITH
  phase <- [c \in Guarded |-> IF c \in Answered THEN "answered"
                              ELSE IF c \in asked THEN "asked" ELSE "unseen"],
  verdict <- [r \in Runs |-> [c \in Guarded |->
                IF c \notin given[r] THEN "none"
                ELSE IF c \in approved[r] THEN "yes" ELSE "no"]],
  performed <- ran \cap (Runs \X Guarded)

KeepsApproval == Gate!Spec
=============================================================================
