-------------------------------- MODULE Loop --------------------------------
(***************************************************************************)
(* The loop agent (agent/workflowagents/loopagent) as the root of a runner,*)
(* over the runs of one session; the sequential agent is the loop agent    *)
(* with MaxIterations = 1.  It runs its sub-agents one after the other, and *)
(* when one of them interrupts it saves its position (agent state) before  *)
(* the runner saves the checkpoint.  Runs take turns, and may fail, be     *)
(* abandoned, cancelled or crash between any two steps.                    *)
(***************************************************************************)
EXTENDS Naturals, FiniteSets

CONSTANTS
  N,              \* the number of sub-agents, all llm agents
  MaxIterations,  \* Config.MaxIterations, not 0
  MaxRuns         \* bounds the runs of the session

ASSUME LoopAssumption ==
  /\ N \in Nat \ {0} /\ MaxIterations \in Nat \ {0} /\ MaxRuns \in Nat

VARIABLES
  \* the session store
  saved,       \* the agent state (loopState), or NoState; by: the run that saved it
  checkpoint,  \* the checkpoint, or NoCheckpoint: the sub-agent that is pending
  \* the current run
  run,         \* its number in the session
  pc,          \* where it is
  verdict,     \* how it ended
  resume,      \* does it have ResumeData?
  loaded,      \* the sub-agent pending in the checkpoint it read, or 0
  answered,    \* does ResumeData answer all that sub-agent has pending?
  start,       \* startIteration, startSubAgentIndex
  pos,         \* iteration and i, of the sub-agent that is next or running
  data,        \* pendingResumeData is not nil
  subData,     \* the ResumeData of the running sub-agent is not nil
  shouldExit,  \* shouldExit: an event had Control.ExitToParent
  gone,        \* has the caller cancelled the run's context?
  \* history
  trail,       \* positions completed by this run and those it resumes
  savedTrail,  \* trail when the agent state was saved
  took         \* positions this run passed ResumeData to

store == <<saved, checkpoint, savedTrail>>
inputs == <<run, resume, loaded, answered, start>>
locals == <<pos, data, subData, shouldExit>>
history == <<trail, took>>
vars == <<store, pc, verdict, inputs, locals, gone, history>>

-----------------------------------------------------------------------------
\* Positions count iterations from 0, as the code does, and sub-agents from 1.
Position == [iter : 0..(MaxIterations - 1), sub : 1..N]
First == [iter |-> 0, sub |-> 1]
Before(p, q) == p.iter < q.iter \/ (p.iter = q.iter /\ p.sub < q.sub)

NoState == [by |-> 0, at |-> First]
NoCheckpoint == [by |-> 0, sub |-> 0]

Init ==
  /\ saved = NoState /\ checkpoint = NoCheckpoint /\ savedTrail = {}
  /\ run = 0 /\ pc = "over" /\ verdict = "none"
  /\ resume = FALSE /\ loaded = 0 /\ answered = FALSE /\ start = First
  /\ pos = First /\ data = FALSE /\ subData = FALSE /\ shouldExit = FALSE
  /\ gone = FALSE /\ trail = {} /\ took = {}

Launch(p) ==
  /\ pc = "over" /\ run < MaxRuns
  /\ run' = run + 1 /\ pc' = "next" /\ verdict' = "none"
  /\ start' = p /\ pos' = [p EXCEPT !.sub = 1]
  /\ subData' = FALSE /\ shouldExit' = FALSE /\ gone' = FALSE
  /\ took' = {}
  /\ UNCHANGED store

StartFresh ==
  /\ Launch(First)
  /\ resume' = FALSE /\ loaded' = 0 /\ answered' = FALSE /\ data' = FALSE
  /\ trail' = {}

\* A resume finds its position in the agent state, or starts at the first
\* one when there is none or it cannot be loaded.
StartResume ==
  /\ checkpoint # NoCheckpoint
  /\ resume' = TRUE /\ loaded' = checkpoint.sub /\ data' = TRUE
  /\ answered' \in BOOLEAN
  /\ \/ Launch(saved.at) /\ trail' = savedTrail
     \/ Launch(First) /\ trail' = {}

-----------------------------------------------------------------------------
\* Mutant: the sub-agent that interrupted is skipped too.
SkipInterrupted ==
  /\ pc = "next" /\ pos.sub <= N
  /\ pos.iter = start.iter /\ pos.sub < start.sub + 1 /\ start # First
  /\ pos' = [pos EXCEPT !.sub = @ + 1]
  /\ UNCHANGED <<store, pc, verdict, inputs, data, subData, shouldExit, gone, history>>

\* Sub-agents that completed before the interrupt are skipped, once.
Skip ==
  /\ pc = "next" /\ pos.sub <= N
  /\ pos.iter = start.iter /\ pos.sub < start.sub
  /\ pos' = [pos EXCEPT !.sub = @ + 1]
  /\ UNCHANGED <<store, pc, verdict, inputs, data, subData, shouldExit, gone, history>>

\* Mutant: the resume data is passed to every sub-agent.
BeginKeepsData ==
  /\ pc = "next" /\ pos.sub <= N
  /\ ~(pos.iter = start.iter /\ pos.sub < start.sub)
  /\ subData' = data /\ UNCHANGED data
  /\ took' = IF data THEN took \cup {pos} ELSE took
  /\ pc' = "sub"
  /\ UNCHANGED <<store, verdict, inputs, pos, shouldExit, gone, trail>>

\* The next sub-agent starts; the first one that does takes the resume data.
Begin ==
  /\ pc = "next" /\ pos.sub <= N
  /\ ~(pos.iter = start.iter /\ pos.sub < start.sub)
  /\ subData' = data /\ data' = FALSE
  /\ took' = IF data THEN took \cup {pos} ELSE took
  /\ pc' = "sub"
  /\ UNCHANGED <<store, verdict, inputs, pos, shouldExit, gone, trail>>

\* Mutant: the iteration is not advanced.
NextIterationStays ==
  /\ pc = "next" /\ pos.sub > N
  /\ pos.iter + 1 < MaxIterations
  /\ pos' = [pos EXCEPT !.sub = 1]
  /\ UNCHANGED <<store, pc, verdict, inputs, data, subData, shouldExit, gone, history>>

NextIteration ==
  /\ pc = "next" /\ pos.sub > N
  /\ pos.iter + 1 < MaxIterations
  /\ pos' = [iter |-> pos.iter + 1, sub |-> 1]
  /\ UNCHANGED <<store, pc, verdict, inputs, data, subData, shouldExit, gone, history>>

LastIteration ==
  /\ pc = "next" /\ pos.sub > N
  /\ pos.iter + 1 >= MaxIterations
  /\ pc' = "leave" /\ verdict' = "ok"
  /\ UNCHANGED <<store, inputs, locals, gone, history>>

-----------------------------------------------------------------------------
\* The running sub-agent.  Given ResumeData, its resume step fails unless that
\* answers all it has pending in the checkpoint (see Runner).
Matches == subData => pos.sub = loaded /\ answered

\* An event is yielded: its Control may say ExitToParent, or the consumer may
\* have had enough.  Any other event changes nothing.
SubEvent ==
  /\ pc = "sub"
  /\ \/ Matches /\ shouldExit' = TRUE /\ UNCHANGED <<pc, verdict>>
     \/ pc' = "leave" /\ verdict' = "aborted" /\ UNCHANGED shouldExit
  /\ UNCHANGED <<store, inputs, pos, data, subData, gone, history>>

SubFails ==
  /\ pc = "sub"
  /\ pc' = "leave" /\ verdict' = "failed"
  /\ UNCHANGED <<store, inputs, locals, gone, history>>

\* Mutant: the composite interrupt is yielded even if SaveState fails.
SubInterruptsUnsaved ==
  /\ pc = "sub" /\ Matches
  /\ \/ saved' = [by |-> run, at |-> pos] /\ savedTrail' = trail
     \/ UNCHANGED <<saved, savedTrail>>
  /\ pc' = "composed"
  /\ UNCHANGED <<checkpoint, verdict, inputs, locals, gone, history>>

\* An interrupt: SaveAndComposeInterrupt with the current position.
SubInterrupts ==
  /\ pc = "sub" /\ Matches
  /\ saved' = [by |-> run, at |-> pos] /\ savedTrail' = trail
  /\ pc' = "composed"
  /\ UNCHANGED <<checkpoint, verdict, inputs, locals, gone, history>>

\* SaveState fails.
SubInterruptFails ==
  /\ pc = "sub" /\ Matches
  /\ pc' = "leave" /\ verdict' = "failed"
  /\ UNCHANGED <<store, inputs, locals, gone, history>>

\* The sub-agent's stream is over.
SubEnds ==
  /\ pc = "sub" /\ Matches
  /\ trail' = trail \cup {pos}
  /\ \/ /\ ~shouldExit /\ pos' = [pos EXCEPT !.sub = @ + 1]
        /\ pc' = "next" /\ UNCHANGED verdict
     \/ shouldExit /\ pc' = "leave" /\ verdict' = "ok" /\ UNCHANGED pos
  /\ UNCHANGED <<store, inputs, data, subData, shouldExit, gone, took>>

-----------------------------------------------------------------------------
\* The runner saves the checkpoint of the composite interrupt and yields it.
SaveCheckpoint ==
  /\ pc = "composed"
  /\ \/ /\ checkpoint' = [by |-> run, sub |-> pos.sub]
        /\ verdict' \in {"interrupted", "aborted"}
     \/ verdict' = "failed" /\ UNCHANGED checkpoint
  /\ pc' = "over"
  /\ UNCHANGED <<saved, savedTrail, inputs, locals, gone, history>>

\* The deferred ClearState, whose error is ignored; there was no interrupt.
ClearState ==
  /\ pc = "leave"
  /\ \/ ~gone /\ saved' = NoState /\ savedTrail' = {}
     \/ UNCHANGED <<saved, savedTrail>>
  /\ pc' = IF verdict = "ok" THEN "finalize" ELSE "over"
  /\ UNCHANGED <<checkpoint, verdict, inputs, locals, gone, history>>

\* The runner's finalize: a resume run that ends well clears the checkpoint.
Finalize ==
  /\ pc = "finalize"
  /\ \/ /\ checkpoint' = IF resume THEN NoCheckpoint ELSE checkpoint
        /\ UNCHANGED verdict
     \/ resume /\ verdict' = "failed" /\ UNCHANGED checkpoint
  /\ pc' = "over"
  /\ UNCHANGED <<saved, savedTrail, inputs, locals, gone, history>>

\* The caller cancels the context of its run.
Cancel ==
  /\ pc # "over" /\ ~gone
  /\ gone' = TRUE
  /\ UNCHANGED <<store, pc, verdict, inputs, locals, history>>

\* The process dies; the store survives.
Crash ==
  /\ pc # "over"
  /\ pc' = "over" /\ verdict' = "crashed"
  /\ UNCHANGED <<store, inputs, locals, gone, history>>

-----------------------------------------------------------------------------
Advance ==
  \/ Skip \/ Begin \/ NextIteration \/ LastIteration
  \/ SaveCheckpoint \/ ClearState \/ Finalize

\* The steps that end the running sub-agent.
SubStops == SubFails \/ SubInterrupts \/ SubInterruptFails \/ SubEnds

Next ==
  \/ StartFresh \/ StartResume \/ Cancel \/ Crash
  \/ Advance \/ SubEvent \/ SubStops

Spec == Init /\ [][Next]_vars

\* The run is scheduled, and every sub-agent ends one way or another; a run is
\* not promised to be started, cancelled or crashed.
FairSpec == Spec /\ WF_vars(Advance) /\ WF_vars(SubStops)

-----------------------------------------------------------------------------
\* The iteration stays below MaxIterations, and only a resume has ResumeData.
TypeOK ==
  /\ saved \in [by : 0..MaxRuns, at : Position]
  /\ checkpoint \in [by : 0..MaxRuns, sub : 0..N]
  /\ savedTrail \in SUBSET Position
  /\ run \in 0..MaxRuns
  /\ pc \in {"next", "sub", "composed", "leave", "finalize", "over"}
  /\ verdict \in {"none", "ok", "interrupted", "failed", "aborted", "crashed"}
  /\ resume \in BOOLEAN /\ answered \in BOOLEAN
  /\ loaded \in 0..N
  /\ start \in Position /\ (~resume => start = First)
  /\ pos \in [iter : 0..(MaxIterations - 1), sub : 1..(N + 1)]
  /\ data \in BOOLEAN /\ subData \in BOOLEAN
  /\ data \/ subData => resume
  /\ shouldExit \in BOOLEAN /\ gone \in BOOLEAN
  /\ trail \in SUBSET Position /\ took \in SUBSET Position

\* The stored position and the stored checkpoint agree: the position is never
\* the older of the two, and when one run saved both it is the position of the
\* sub-agent that is pending, whatever was saved, lost or cleared in between.
StateFitsCheckpoint ==
  saved # NoState /\ checkpoint # NoCheckpoint =>
    /\ saved.by >= checkpoint.by
    /\ saved.by = checkpoint.by => saved.at.sub = checkpoint.sub

\* Over an interruption and its resumes, the sub-agents run in order, each once
\* in an iteration: when one runs, those before it have completed, in this run
\* or in those it resumes, and neither it nor any after it has.
InOrder ==
  pc = "sub" => trail = {p \in Position : Before(p, pos)}

\* loopagent/agent.go:73: "ResumeData is consumed exactly once".  No two
\* sub-agents of a run get it, and a resume that does not fail has given it to
\* the one that asked.
AnswerReachesAsker ==
  /\ \A p, q \in took : p = q
  /\ resume /\ verdict \in {"ok", "interrupted"} => \E p \in took : p.sub = loaded

\* Every run ends, though sub-agents may be run again and again.
RunsEnd == pc = "next" ~> pc = "over"
=============================================================================
