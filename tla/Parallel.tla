------------------------------ MODULE Parallel ------------------------------
(***************************************************************************)
(* The parallel agent (agent/workflowagents/parallelagent) as the root of  *)
(* a runner, over the runs of one session.  It runs its sub-agents in      *)
(* goroutines, collects their events over an unbuffered channel, composes  *)
(* their interrupts into one and saves which of them completed, so that a  *)
(* later run resumes the others.                                           *)
(*                                                                         *)
(* What it saves (agent state) and the checkpoint the runner saves for the *)
(* composite interrupt are two writes; a run may fail, be abandoned by its *)
(* consumer, be cancelled or crash between any two steps.  Runs take turns *)
(* (Runner has the ones that overlap).  A goroutine may outlive its run,   *)
(* but shares nothing with the next one, which therefore waits for it here.*)
(***************************************************************************)
EXTENDS Naturals, FiniteSets

CONSTANTS
  Subs,      \* the sub-agents, all llm agents
  Extended,  \* those with a turn extension that may go on after a final response
  MaxRuns,   \* bounds the runs of the session
  MaxEvents  \* bounds the messages of a sub-agent in a run

ASSUME ParallelAssumption ==
  /\ Extended \subseteq Subs
  /\ MaxRuns \in Nat /\ MaxEvents \in Nat

VARIABLES
  \* the session store
  saved,       \* the agent state, or NoState: who completed, saved by which run
  checkpoint,  \* the checkpoint, or NoCheckpoint: who is pending, saved by which run
  \* the current run: its runner and the collector of parallelAgent.runImpl
  run,         \* its number in the session
  pc,          \* where it is
  verdict,     \* how it ended
  resume,      \* does it have ResumeData?
  given,       \* the sub-agents whose pending interrupts ResumeData answers
  loaded,      \* the sub-agents pending in the checkpoint it read
  skip,        \* completedAgents, read from the agent state
  completed,   \* completed: the sub-agents that sent a final response
  interrupts,  \* interrupts: the sub-agents that sent an interrupt
  gone,        \* has the caller cancelled the run's context?
  cancelled,   \* is errGroupCtx cancelled?
  done,        \* is doneChan closed?
  \* the goroutine of each sub-agent
  wpc,         \* where it is in runSubAgent
  out,         \* the last event its sub-agent produced
  left,        \* how many more messages its sub-agent may produce
  \* history
  finished     \* who had completed when the checkpoint was saved

store == <<saved, checkpoint, finished>>
inputs == <<run, resume, given, loaded, skip>>
found == <<completed, interrupts>>
signals == <<gone, cancelled, done>>
workers == <<wpc, out, left>>
vars == <<store, pc, verdict, inputs, found, signals, workers>>

-----------------------------------------------------------------------------
NoState == [by |-> 0, done |-> {}]
NoCheckpoint == [by |-> 0, pending |-> {}]

\* Every runSubAgent has returned, or was never started: errGroup.Wait
\* returns and resultsChan is closed.
ResultsClosed == \A w \in Subs : wpc[w] \in {"ended", "skipped"}

\* Does the resume step of sub-agent w find an answer to an interrupt of its
\* own?  Otherwise it is "no checkpoint found for resume" or "missing resume
\* data for interrupt" (see Runner).
Matches(w) == resume => w \in loaded \cap given

-----------------------------------------------------------------------------
Init ==
  /\ saved = NoState /\ checkpoint = NoCheckpoint /\ finished = {}
  /\ run = 0 /\ pc = "over" /\ verdict = "none"
  /\ resume = FALSE /\ given = {} /\ loaded = {} /\ skip = {}
  /\ completed = {} /\ interrupts = {}
  /\ gone = FALSE /\ cancelled = FALSE /\ done = FALSE
  /\ wpc = [w \in Subs |-> "ended"]
  /\ out = [w \in Subs |-> "nothing"]
  /\ left = [w \in Subs |-> 0]

\* Starts the goroutines of the sub-agents that are not in s.
Launch(s) ==
  /\ pc = "over" /\ ResultsClosed /\ run < MaxRuns
  /\ run' = run + 1 /\ pc' = "collect" /\ verdict' = "none"
  /\ skip' = s
  /\ completed' = {} /\ interrupts' = {}
  /\ gone' = FALSE /\ cancelled' = FALSE /\ done' = FALSE
  /\ wpc' = [w \in Subs |-> IF w \in s THEN "skipped" ELSE "run"]
  /\ out' = [w \in Subs |-> "nothing"]
  /\ left' = [w \in Subs |-> MaxEvents]

\* A run with a new message: the agent state is not looked at.
StartFresh ==
  /\ Launch({})
  /\ resume' = FALSE /\ given' = {} /\ loaded' = {}
  /\ UNCHANGED store

\* A run with answers to pending interrupts of the checkpoint.  LoadState may
\* fail, which counts as nothing found.
StartResume ==
  /\ \E s \in {saved.done, {}} : Launch(s)
  /\ resume' = TRUE /\ loaded' = checkpoint.pending
  /\ \E d \in SUBSET checkpoint.pending \ {{}} : given' = d
  /\ UNCHANGED store

-----------------------------------------------------------------------------
\* Mutant: a sub-agent without a pending interrupt starts afresh on a resume.
ProduceUnmatched(w) ==
  /\ wpc[w] = "run"
  /\ \E k \in {"event", "final", "interrupt", "error"} :
       /\ k \in {"event", "final"} => left[w] > 0
       /\ out' = [out EXCEPT ![w] = k]
       /\ left' = [left EXCEPT ![w] = IF k \in {"event", "final"} THEN @ - 1 ELSE @]
  /\ wpc' = [wpc EXCEPT ![w] = "send"]
  /\ UNCHANGED <<store, pc, verdict, inputs, found, signals>>

\* The sub-agent's stream has a next event (ag.Run, up to the select).
Produce(w) ==
  /\ wpc[w] = "run"
  /\ \E k \in {"event", "final", "interrupt", "error"} :
       /\ k \in {"final", "interrupt"} => Matches(w)
       /\ k \in {"event", "final"} => left[w] > 0
       /\ out' = [out EXCEPT ![w] = k]
       /\ left' = [left EXCEPT ![w] = IF k \in {"event", "final"} THEN @ - 1 ELSE @]
  /\ wpc' = [wpc EXCEPT ![w] = "send"]
  /\ UNCHANGED <<store, pc, verdict, inputs, found, signals>>

\* The stream is over, without a final response when a tool returned
\* Control.Terminal.  A resume step that found nothing ends with its error.
StreamEnds(w) ==
  /\ wpc[w] = "run" /\ Matches(w)
  /\ wpc' = [wpc EXCEPT ![w] = "ended"]
  /\ UNCHANGED <<store, pc, verdict, inputs, found, signals, out, left>>

\* case <-done, of either select.
SeesDone(w) ==
  /\ wpc[w] \in {"send", "stop"} /\ done
  /\ wpc' = [wpc EXCEPT ![w] = "ended"]
  /\ UNCHANGED <<store, pc, verdict, inputs, found, signals, out, left>>

\* case <-ctx.Context().Done(): the event is dropped for ctx.Err().
SeesCancel(w) ==
  /\ wpc[w] = "send" /\ cancelled
  /\ wpc' = [wpc EXCEPT ![w] = "stop"]
  /\ out' = [out EXCEPT ![w] = "error"]
  /\ UNCHANGED <<store, pc, verdict, inputs, found, signals, left>>

\* The caller cancels the context of its run.
Cancel ==
  /\ pc # "over" /\ ~gone
  /\ gone' = TRUE /\ cancelled' = TRUE
  /\ UNCHANGED <<store, pc, verdict, inputs, found, done, workers>>

-----------------------------------------------------------------------------
\* The collector is at resultsChan and goroutine w has something for it.
Meet(w) == pc = "collect" /\ wpc[w] \in {"send", "stop"}

\* The collector yields an event; the consumer may have had enough.
TakeEvent(w) ==
  /\ Meet(w) /\ out[w] \in {"event", "final"}
  /\ completed' = IF out[w] = "final" THEN completed \cup {w} ELSE completed
  /\ wpc' = [wpc EXCEPT ![w] = IF out[w] = "final" /\ w \notin Extended THEN "ended" ELSE "run"]
  /\ \/ UNCHANGED <<pc, verdict>>
     \/ pc' = "leave" /\ verdict' = "aborted"
  /\ UNCHANGED <<store, inputs, interrupts, signals, out, left>>

TakeInterrupt(w) ==
  /\ Meet(w) /\ out[w] = "interrupt"
  /\ interrupts' = interrupts \cup {w}
  /\ wpc' = [wpc EXCEPT ![w] = "ended"]
  /\ UNCHANGED <<store, pc, verdict, inputs, completed, signals, out, left>>

\* The runner stops at the first error it is yielded.
TakeError(w) ==
  /\ Meet(w) /\ out[w] = "error"
  /\ wpc' = [wpc EXCEPT ![w] = "ended"]
  /\ cancelled' = TRUE
  /\ pc' = "leave" /\ verdict' = "failed"
  /\ UNCHANGED <<store, inputs, found, gone, done, out, left>>

\* Mutant: the collector composes as soon as it has an interrupt.
ComposeAtOnce ==
  /\ pc = "collect" /\ interrupts # {}
  /\ saved' = [by |-> run, done |-> skip \cup completed]
  /\ pc' = "composed"
  /\ UNCHANGED <<checkpoint, finished, verdict, inputs, found, signals, workers>>

\* Mutant: the sub-agents that completed in earlier runs are forgotten.
ComposeThisRun ==
  /\ pc = "collect" /\ ResultsClosed /\ interrupts # {}
  /\ saved' = [by |-> run, done |-> completed]
  /\ pc' = "composed"
  /\ UNCHANGED <<checkpoint, finished, verdict, inputs, found, signals, workers>>

\* Mutant: the composite interrupt is yielded even if SaveState fails.
ComposeUnsaved ==
  /\ pc = "collect" /\ ResultsClosed /\ interrupts # {}
  /\ saved' \in {saved, [by |-> run, done |-> skip \cup completed]}
  /\ pc' = "composed"
  /\ UNCHANGED <<checkpoint, finished, verdict, inputs, found, signals, workers>>

\* resultsChan is closed: SaveAndComposeInterrupt.
Compose ==
  /\ pc = "collect" /\ ResultsClosed /\ interrupts # {}
  /\ saved' = [by |-> run, done |-> skip \cup completed]
  /\ pc' = "composed"
  /\ UNCHANGED <<checkpoint, finished, verdict, inputs, found, signals, workers>>

ComposeFails ==
  /\ pc = "collect" /\ ResultsClosed /\ interrupts # {}
  /\ pc' = "leave" /\ verdict' = "failed"
  /\ UNCHANGED <<store, inputs, found, signals, workers>>

\* The runner saves the checkpoint of the composite interrupt, which names
\* the parallel agent and, below it, who is pending; then it yields.
SaveCheckpoint ==
  /\ pc = "composed"
  /\ checkpoint' = [by |-> run, pending |-> interrupts]
  /\ finished' = saved.done
  /\ verdict' \in {"interrupted", "aborted"}
  /\ pc' = "close"
  /\ UNCHANGED <<saved, inputs, found, signals, workers>>

SaveCheckpointFails ==
  /\ pc = "composed"
  /\ pc' = "close" /\ verdict' = "failed"
  /\ UNCHANGED <<store, inputs, found, signals, workers>>

AllCompleted ==
  /\ pc = "collect" /\ ResultsClosed /\ interrupts = {}
  /\ pc' = "leave" /\ verdict' = "ok"
  /\ UNCHANGED <<store, inputs, found, signals, workers>>

\* The deferred ClearState, whose error is ignored; no composite interrupt
\* has been yielded.
ClearState ==
  /\ pc = "leave"
  /\ \/ ~gone /\ saved' = NoState
     \/ UNCHANGED saved
  /\ pc' = "close"
  /\ UNCHANGED <<checkpoint, finished, verdict, inputs, found, signals, workers>>

\* Mutant: the deferred close(doneChan) is missing.
LeaveOpen ==
  /\ pc = "close"
  /\ pc' = IF verdict = "ok" THEN "finalize" ELSE "over"
  /\ UNCHANGED <<store, verdict, inputs, found, signals, workers>>

\* The deferred close(doneChan); the stream of the parallel agent has ended.
CloseDone ==
  /\ pc = "close"
  /\ done' = TRUE
  /\ pc' = IF verdict = "ok" THEN "finalize" ELSE "over"
  /\ UNCHANGED <<store, verdict, inputs, found, gone, cancelled, workers>>

\* The runner's finalize: a resume run that ends well clears the checkpoint.
Finalize ==
  /\ pc = "finalize"
  /\ \/ /\ checkpoint' = IF resume THEN NoCheckpoint ELSE checkpoint
        /\ UNCHANGED verdict
     \/ resume /\ verdict' = "failed" /\ UNCHANGED checkpoint
  /\ pc' = "over"
  /\ UNCHANGED <<saved, finished, inputs, found, signals, workers>>

\* The process dies; the store survives.
Crash ==
  /\ pc # "over"
  /\ pc' = "over" /\ verdict' = "crashed"
  /\ wpc' = [w \in Subs |-> "ended"]
  /\ UNCHANGED <<store, inputs, found, signals, out, left>>

-----------------------------------------------------------------------------
Worker(w) == Produce(w) \/ StreamEnds(w) \/ SeesDone(w) \/ SeesCancel(w)

Collector ==
  \/ \E w \in Subs : TakeEvent(w) \/ TakeInterrupt(w) \/ TakeError(w)
  \/ Compose \/ ComposeFails \/ SaveCheckpoint \/ SaveCheckpointFails
  \/ AllCompleted \/ ClearState \/ CloseDone \/ Finalize

Next ==
  \/ StartFresh \/ StartResume \/ Cancel \/ Crash
  \/ Collector \/ \E w \in Subs : Worker(w)

Spec == Init /\ [][Next]_vars

\* Every goroutine is scheduled, and the sub-agents' model and tool calls
\* return; a run is not promised to be started, cancelled or crashed.
FairSpec == Spec /\ WF_vars(Collector) /\ \A w \in Subs : WF_vars(Worker(w))

-----------------------------------------------------------------------------
TypeOK ==
  /\ saved \in [by : 0..MaxRuns, done : SUBSET Subs]
  /\ checkpoint \in [by : 0..MaxRuns, pending : SUBSET Subs]
  /\ finished \in SUBSET Subs
  /\ run \in 0..MaxRuns
  /\ pc \in {"collect", "composed", "leave", "close", "finalize", "over"}
  /\ verdict \in {"none", "ok", "interrupted", "failed", "aborted", "crashed"}
  /\ resume \in BOOLEAN
  /\ given \in SUBSET Subs /\ loaded \in SUBSET Subs
  /\ skip \in SUBSET Subs /\ (skip # {} => resume)
  /\ completed \in SUBSET Subs /\ interrupts \in SUBSET Subs
  /\ gone \in BOOLEAN /\ cancelled \in BOOLEAN /\ done \in BOOLEAN
  /\ wpc \in [Subs -> {"run", "send", "stop", "ended", "skipped"}]
  /\ out \in [Subs -> {"nothing", "event", "final", "interrupt", "error"}]
  /\ left \in [Subs -> 0..MaxEvents]

\* A checkpoint is never ahead of the agent state it leads back to: when both
\* are stored, the state is of the same run or of a later one, whatever was
\* saved, lost or cleared in between (SaveAndComposeInterrupt saves first).
StateNotOlder ==
  saved # NoState /\ checkpoint # NoCheckpoint => saved.by >= checkpoint.by

\* The composite interrupt waits for every sub-agent and drops none of their
\* interrupts, in whatever order they come in and whoever is cancelled: the
\* checkpoint of a run has as pending just those whose stream ended with an
\* interrupt, and nobody's stream ended with an error.
CheckpointIsWhole ==
  checkpoint.by = run /\ run > 0 =>
    /\ checkpoint.pending = {w \in Subs \ skip : out[w] = "interrupt"}
    /\ \A w \in Subs \ skip : out[w] # "error"

\* What was saved as completed stays so over the resumes of an interruption:
\* a resume that ends in another interrupt keeps whom it skipped and adds
\* everybody whose last word was a final response.
CompletedGrows ==
  [][SaveCheckpoint =>
       skip \cup {w \in Subs : out[w] = "final"} \subseteq saved.done]_vars

\* A resume that does not fail ran only sub-agents whose pending interrupt it
\* answered: everybody else completed before and was left alone.
OnlyPendingRan ==
  resume /\ verdict \in {"ok", "interrupted"} =>
    Subs \ skip \subseteq loaded \cap given

\* Every run ends, and no goroutine is left behind, blocked on resultsChan,
\* when the collector has gone.
NothingLeaks == pc = "collect" ~> pc = "over" /\ ResultsClosed

\* parallelagent/agent.go:82 says of a resume: "Skip already completed
\* sub-agents".  A resume that reads the agent state does not start a sub-agent
\* that had completed when the checkpoint it resumes was saved.
CompletedAreSkipped ==
  [][StartResume /\ skip' = saved.done => finished \subseteq skip']_vars
=============================================================================
