---------------------------- MODULE DurableTool ----------------------------
(***************************************************************************)
(* A durable tool (tool/temporaltool): one tool call, whose body runs in a *)
(* Temporal workflow (temporal/toolworker).                                *)
(*                                                                         *)
(* The first execution of the tool starts the workflow, and polls it until *)
(* the body has ended or paused.  A pause becomes the checkpoint of the    *)
(* session; an execution that resumes it sends the workflow the answer in  *)
(* a signal, and polls again.  The workflow runs the body in segments,     *)
(* each an activity that Temporal tries again when it fails.               *)
(*                                                                         *)
(* Temporal is external: signals are kept and handed out in their order,   *)
(* and a query sees the signals sent before it taken.                      *)
(***************************************************************************)
EXTENDS Naturals, Sequences, FiniteSets

CONSTANTS
  Runs,         \* the executions of the tool, each in a run of the session
  MaxAttempts,  \* the MaximumAttempts of the activity's RetryPolicy
  MaxPauses,    \* bounds the interrupts
  MaxSignals    \* bounds the signals that others send

DurableToolAssumption ==
  MaxAttempts \in Nat \ {0} /\ MaxPauses \in Nat /\ MaxSignals \in Nat

VARIABLES
  \* the workflow
  wpc,         \* where RunWorkflow is
  status,      \* workflowState.Status
  pending,     \* workflowState.PendingInterrupts: their ids
  data,        \* resumeData: the signal it is of, and the keys of its answers
  attempt,     \* the attempts made at this segment
  ids,         \* the last id used
  signals,     \* the resume signals it has not taken
  cancel,      \* was it sent a cancel signal?
  \* the executions, and the session
  pc,          \* where an execution is
  found,       \* the interrupts in the state it resumes from, or paused with
  checkpoint,  \* the interrupts in the state that the session's checkpoint has
  \* history
  signaled,    \* how many resume signals there were: each has its number
  segments,    \* the segments the body ran in: the last id used before, and data
  apart        \* did something come between the workflow and the checkpoint?

workflow == <<wpc, status, pending, data, attempt, ids, signals, cancel>>
session == <<pc, found, checkpoint>>
history == <<signaled, segments, apart>>
vars == <<workflow, session, history>>

Ids == 1..MaxPauses
\* The id of the function call, a key beside the ids of interrupts.
ForCall == 0
Signal == [no : Nat, keys : SUBSET (Ids \cup {ForCall})]
NoSignal == [no |-> 0, keys |-> {}]
Over == {"idle", "ended"}
Alone(r) == \A q \in Runs \ {r} : pc[q] \in Over

Init ==
  /\ wpc = "none" /\ status = "none" /\ pending = {} /\ data = NoSignal
  /\ attempt = 0 /\ ids = 0 /\ signals = <<>> /\ cancel = FALSE
  /\ pc = [r \in Runs |-> "idle"] /\ found = [r \in Runs |-> {}] /\ checkpoint = {}
  /\ signaled = 0 /\ segments = {} /\ apart = FALSE

-----------------------------------------------------------------------------
(* Execute, in a run of the session *)

Go(r, to) == pc' = [pc EXCEPT ![r] = to]
Leave(r) == Go(r, "ended") /\ found' = [found EXCEPT ![r] = {}]

\* A call that is not resumed starts a workflow of its own.
Start(r) ==
  /\ pc[r] = "idle" /\ wpc = "none" /\ Go(r, "poll")
  /\ wpc' = "head" /\ status' = "running"
  /\ UNCHANGED <<pending, data, attempt, ids, signals, cancel, found, checkpoint, history>>

\* loadStoredInterruptState.
BeginResume(r) ==
  /\ pc[r] = "idle" /\ checkpoint # {} /\ Go(r, "resume")
  /\ found' = [found EXCEPT ![r] = checkpoint]
  /\ apart' = (apart \/ ~Alone(r))
  /\ UNCHANGED <<workflow, checkpoint, signaled, segments>>

Send(keys) ==
  signaled' = signaled + 1 /\ signals' = Append(signals, [no |-> signaled', keys |-> keys])

\* buildResumePayload: an answer is for the only interrupt, or has the keys of
\* some and is passed on whole, with a key for the call if there is one.
SignalResume(r) ==
  /\ pc[r] = "resume" /\ wpc # "closed" /\ Go(r, "poll")
  /\ \E keys \in (SUBSET found[r]) \ {{}}, more \in SUBSET {ForCall} : Send(keys \cup more)
  /\ UNCHANGED <<wpc, status, pending, data, attempt, ids, cancel, found, checkpoint, segments, apart>>

\* The answer is not keyed and there are several interrupts, or the workflow
\* is closed: an error, which is the tool's result.
ResumeFails(r) ==
  /\ pc[r] = "resume" /\ (wpc = "closed" \/ Cardinality(found[r]) > 1) /\ Go(r, "returned")
  /\ apart' = TRUE
  /\ UNCHANGED <<workflow, found, checkpoint, signaled, segments>>

\* GetState, with the signals that it has sent taken.
Poll(r) ==
  /\ pc[r] = "poll" /\ status # "running" /\ ~(wpc = "wait" /\ signals # <<>>)
  /\ Go(r, IF status = "interrupted" THEN "paused" ELSE "returned")
  /\ UNCHANGED <<workflow, found, checkpoint, history>>

\* Mutant: of several interrupts the last is not stored.
PausedForgets(r) ==
  /\ pc[r] = "paused" /\ Leave(r)
  /\ checkpoint' = IF found[r] = {} THEN pending \ {ids} ELSE checkpoint
  /\ apart' = (apart \/ found[r] # {})
  /\ UNCHANGED <<workflow, signaled, segments>>

\* buildInterrupt, and the run saves a checkpoint.  An interrupt of a resumed
\* tool is an error to the flow: the run ends with it, and the checkpoint stays.
Paused(r) ==
  /\ pc[r] = "paused" /\ Leave(r)
  /\ checkpoint' = IF found[r] = {} THEN pending ELSE checkpoint
  /\ apart' = (apart \/ found[r] # {})
  /\ UNCHANGED <<workflow, signaled, segments>>

\* The tool has a result; the run goes on, and clears a checkpoint it resumed.
Returned(r) ==
  /\ pc[r] = "returned" /\ Leave(r)
  /\ checkpoint' = IF found[r] = {} THEN checkpoint ELSE {}
  /\ UNCHANGED <<workflow, history>>

\* The context of the run is cancelled, or its process dies.  The workflow is not told.
Abort(r) ==
  /\ pc[r] \notin Over /\ Leave(r) /\ apart' = TRUE
  /\ UNCHANGED <<workflow, checkpoint, signaled, segments>>

-----------------------------------------------------------------------------
(* RunWorkflow *)

\* checkCancel, and ExecuteActivity with what there is.
Segment ==
  /\ wpc = "head"
  /\ \/ cancel /\ wpc' = "closed" /\ status' = "cancelled" /\ UNCHANGED attempt
     \/ ~cancel /\ wpc' = "activity" /\ attempt' = 1 /\ UNCHANGED status
  /\ UNCHANGED <<pending, data, ids, signals, cancel, session, history>>

\* Mutant: whatever was sent is taken for an answer.
AnsweredAnyway == TRUE

\* resumePayloadForPendingInterrupts finds something: the answer to an interrupt,
\* or one for the call, which it takes whatever is pending.
Answered == pending = {} \/ data.keys \cap (pending \cup {ForCall}) # {}

\* The body runs with what there is.
Ran == segments \cup {[after |-> ids, on |-> data]}

\* RunSegment runs the body, which ends, with a result or an error, or pauses.
BodyEnds ==
  /\ wpc = "activity" /\ Answered
  /\ segments' = Ran
  /\ wpc' = "closed" /\ status' \in {"completed", "failed"}
  /\ pending' = IF status' = "completed" THEN {} ELSE pending
  /\ UNCHANGED <<data, attempt, ids, signals, cancel, session, signaled, apart>>

BodyPauses ==
  /\ wpc = "activity" /\ Answered
  /\ segments' = Ran
  /\ \E n \in 1..2 : ids + n <= MaxPauses /\ ids' = ids + n /\ pending' = ids + 1 .. ids + n
  /\ wpc' = "wait" /\ status' = "interrupted"
  /\ UNCHANGED <<data, attempt, signals, cancel, session, signaled, apart>>

\* Mutant: there is no end to the attempts.
AttemptFailsForever ==
  /\ wpc = "activity"
  /\ segments' \in {segments, IF Answered THEN Ran ELSE segments}
  /\ attempt' = IF attempt < MaxAttempts THEN attempt + 1 ELSE attempt
  /\ UNCHANGED <<wpc, status, pending, data, ids, signals, cancel, session, signaled, apart>>

\* An attempt fails, before the body ran or after: it runs out of time, its
\* worker dies, the session cannot be read, or no answer fits what is pending.
AttemptFails ==
  /\ wpc = "activity"
  /\ segments' \in {segments, IF Answered THEN Ran ELSE segments}
  /\ IF attempt < MaxAttempts
     THEN attempt' = attempt + 1 /\ UNCHANGED <<wpc, status>>
     ELSE wpc' = "closed" /\ status' = "failed" /\ UNCHANGED attempt
  /\ UNCHANGED <<pending, data, ids, signals, cancel, session, signaled, apart>>

\* waitResumeOrCancel.
TakeSignal ==
  /\ wpc = "wait" /\ signals # <<>>
  /\ data' = signals[1] /\ signals' = Tail(signals)
  /\ wpc' = "head" /\ status' = "running"
  /\ UNCHANGED <<pending, attempt, ids, cancel, session, history>>

TakeCancel ==
  /\ wpc = "wait" /\ cancel
  /\ wpc' = "closed" /\ status' = "cancelled"
  /\ UNCHANGED <<pending, data, attempt, ids, signals, cancel, session, history>>

\* Runner.Cancel.
Cancel ==
  /\ wpc \notin {"none", "closed"} /\ ~cancel /\ cancel' = TRUE /\ apart' = TRUE
  /\ UNCHANGED <<wpc, status, pending, data, attempt, ids, signals, session, signaled, segments>>

\* Runner.Resume, called by someone else who has seen the state of the workflow.
Resume ==
  /\ wpc \notin {"none", "closed"} /\ signaled < MaxSignals /\ apart' = TRUE
  /\ \E key \in pending \cup {ForCall} : Send({key})
  /\ UNCHANGED <<wpc, status, pending, data, attempt, ids, cancel, session, segments>>

Execution(r) ==
  Start(r) \/ BeginResume(r) \/ SignalResume(r) \/ ResumeFails(r) \/ Poll(r)
    \/ Paused(r) \/ Returned(r)

\* An execution that is under way goes on.
Attends(r) == pc[r] # "idle" /\ Execution(r)
Worker == Segment \/ BodyEnds \/ BodyPauses \/ AttemptFails \/ TakeSignal \/ TakeCancel

Next == (\E r \in Runs : Execution(r) \/ Abort(r)) \/ Worker \/ Cancel \/ Resume

\* Workers are there and activities have a timeout; executions poll.
Fairness == WF_vars(Worker) /\ \A r \in Runs : WF_vars(Attends(r))
Spec == Init /\ [][Next]_vars /\ Fairness

-----------------------------------------------------------------------------
(* Properties *)

(* Type invariant: the workflow, and the executions. *)
TypeOK ==
  /\ wpc \in {"none", "head", "activity", "wait", "closed"}
  /\ status \in {"none", "running", "interrupted", "completed", "failed", "cancelled"}
  /\ UNION {pending, checkpoint} \subseteq Ids /\ ids \in 0..MaxPauses
  /\ wpc = "wait" <=> status = "interrupted"
  /\ attempt \in 0..MaxAttempts /\ \A s \in segments : s.after \in 0..ids
  /\ {data} \cup {s.on : s \in segments} \cup {signals[k] : k \in DOMAIN signals} \subseteq Signal
  /\ {cancel, apart} \subseteq BOOLEAN
  /\ \A r \in Runs :
       /\ pc[r] \in {"idle", "resume", "poll", "paused", "returned", "ended"}
       /\ found[r] \subseteq Ids

(* However often a pause is resumed, by runs that overlap, after one that was
   aborted or by others, and however many signals the workflow keeps: beyond its
   first segment the body runs on a signal of its own, later than that of every
   segment before, so that no signal answers two pauses; and the signal names an
   interrupt of the very pause, or the call.  A signal that comes again or too
   late thus runs the body only when it has a key for the call: that one answers
   whatever pause it meets. *)
RunsOnAnswersOnly ==
  \A s \in segments : s.after # 0 =>
    /\ \A t \in segments : t.after < s.after => t.on.no < s.on.no
    /\ \/ ForCall \in s.on.keys
       \/ \E i \in s.on.keys :
            i <= s.after /\ \A t \in segments : t.after < s.after => t.after < i

(* When no run is at work, and none was aborted or met another, the session
   waits for the interrupts that the workflow waits for, and otherwise neither
   waits. *)
CheckpointIsThePause ==
  ~apart /\ (\A r \in Runs : pc[r] \in Over) => checkpoint = IF wpc = "wait" THEN pending ELSE {}

(* With an end to the attempts, every execution of the tool returns: no signal
   sent twice, no lost answer and no worker that dies keeps it polling. *)
ExecutionEnds == \A r \in Runs : (pc[r] # "idle") ~> (pc[r] = "ended")
=============================================================================
