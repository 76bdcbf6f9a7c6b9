---------------------------- MODULE RunnerProofs ----------------------------
(* What holds of the runner for every tree of agents, every set of runs and *)
(* tool calls and every bound.                                              *)
EXTENDS Runner, KeptProofs, TLAPS

-----------------------------------------------------------------------------
\* A batch of tool calls is a sequence of calls the model has not made yet.
LEMMA BatchType ==
  ASSUME NEW b \in Batches, MaxBatch \in Nat
  PROVE  /\ b \in Seq(Calls)
         /\ {b[i] : i \in DOMAIN b} \subseteq Calls
<1>1. PICK n \in 1..MaxBatch : b \in [1..n -> Calls \ Called]
  BY DEF Batches
<1>2. b \in [1..n -> Calls] /\ n \in Nat
  BY <1>1
<1> QED BY <1>2

\* What a resume step handles is part of the checkpoint the run loaded.
LEMMA ResumableType ==
  ASSUME TypeOK, NEW r \in Runs
  PROVE  Resumable(r) \subseteq loaded[r].calls /\ Resumable(r) \subseteq Calls
BY DEF TypeOK, Resumable, Checkpoint

\* The three kinds of message the runner appends are log entries.
LEMMA EntryTypes ==
  ASSUME TypeOK, NEW r \in Runs, NEW cs \in SUBSET Calls
  PROVE  /\ UserEntry(r) \in Entry
         /\ AssistantEntry(r, cs) \in Entry
         /\ ResultEntry(r, cs) \in Entry
BY DEF TypeOK, Entry, UserEntry, AssistantEntry, ResultEntry

\* A yield leaves every run at a position of the program.
LEMMA YieldType ==
  ASSUME TypeOK, NEW r \in Runs, NEW next \in Position, Yield(r, next)
  PROVE  pc' \in [Runs -> Position]
BY DEF TypeOK, Yield, Position, Over

\* So does the report of an error.
LEMMA FailType ==
  ASSUME TypeOK, NEW r \in Runs, Fail(r)
  PROVE  pc' \in [Runs -> Position]
BY YieldType DEF Fail, Position, Over

\* Persisting and yielding a message keeps the types of what it changes.
LEMMA PublishType ==
  ASSUME TypeOK, NEW r \in Runs, NEW e \in Entry, NEW next \in Position,
         Publish(r, e, next)
  PROVE  /\ pc' \in [Runs -> Position]
         /\ log' \in Seq(Entry)
         /\ messages' \in [Runs -> Seq(Entry)]
<1>1. pc' \in [Runs -> Position]
  BY YieldType DEF Publish
<1>2. log' \in Seq(Entry)
  BY DEF TypeOK, Publish
<1>3. messages' \in [Runs -> Seq(Entry)]
  BY DEF TypeOK, Publish
<1> QED BY <1>1, <1>2, <1>3

\* Re-emitting the user message keeps the stream a sequence of entries.
LEMMA GreetType ==
  ASSUME TypeOK, NEW r \in Runs, Greet(r)
  PROVE  messages' \in [Runs -> Seq(Entry)]
<1>1. UserEntry(r) \in Entry
  BY EntryTypes
<1>2. messages[r] \in Seq(Entry)
  BY DEF TypeOK
<1> QED BY <1>1, <1>2 DEF TypeOK, Greet

\* Type correctness: every variable keeps to the values the code can store
\* in what it stands for; in particular a run is only ever at an agent the
\* tree holds (FindByName before a transfer is followed).
THEOREM TypeCorrect == Spec => []TypeOK
<1>1. Init => TypeOK
  BY RunnerAssumption DEF Init, TypeOK, NoCheckpoint, Checkpoint, Position, Over
<1>2. TypeOK /\ [Next]_vars => TypeOK'
  <2> SUFFICES ASSUME TypeOK, [Next]_vars PROVE TypeOK'
    OBVIOUS
  <2> USE DEF TypeOK, store, inputs, control, step, history
  <2>a. /\ {"idle", "started", "opened", "agent", "resume", "model", "tools", "emit", "left"} \subseteq Position
        /\ Over \subseteq Position
        /\ NoCheckpoint \in Checkpoint
        /\ {"done", "failed", "aborted"} \subseteq Position
    BY DEF Position, Over, NoCheckpoint, Checkpoint
  <2>1. ASSUME NEW r \in Runs, Start(r) PROVE TypeOK'
    BY <2>1, <2>a DEF Start
  <2>2. ASSUME NEW r \in Runs, NewInvocation(r) PROVE TypeOK'
    BY <2>2, <2>a, RunnerAssumption, ZenonT(40) DEF NewInvocation
  <2>3. ASSUME NEW r \in Runs, NewInvocationFails(r) PROVE TypeOK'
    BY <2>3, FailType DEF NewInvocationFails
  <2>4. ASSUME NEW r \in Runs, PersistUserMessage(r) PROVE TypeOK'
    <3>1. UserEntry(r) \in Entry
      BY EntryTypes
    <3> QED BY <2>4, <2>a, <3>1 DEF PersistUserMessage
  <2>5. ASSUME NEW r \in Runs, PersistUserMessageFails(r) PROVE TypeOK'
    BY <2>5, FailType DEF PersistUserMessageFails
  <2>6. ASSUME NEW r \in Runs, BeginAgent(r) PROVE TypeOK'
    BY <2>6, <2>a, YieldType, GreetType DEF BeginAgent
  <2>7. ASSUME NEW r \in Runs, BeginResume(r) PROVE TypeOK'
    BY <2>7, <2>a, YieldType, GreetType, ResumableType DEF BeginResume
  <2>8. ASSUME NEW r \in Runs, ResumeRefused(r) PROVE TypeOK'
    BY <2>8, FailType, GreetType DEF ResumeRefused
  <2>9. ASSUME NEW r \in Runs, NEW c \in Calls, ResumeCall(r, c) PROVE TypeOK'
    BY <2>9 DEF ResumeCall
  <2>10. ASSUME NEW r \in Runs, NEW c \in Calls, ResumeCallInterrupts(r, c) PROVE TypeOK'
    BY <2>10, FailType DEF ResumeCallInterrupts
  <2>11. ASSUME NEW r \in Runs, ResumeDataMissing(r) PROVE TypeOK'
    BY <2>11, FailType DEF ResumeDataMissing
  <2>12. ASSUME NEW r \in Runs, ResumeResults(r) PROVE TypeOK'
    BY <2>12, <2>a, PublishType, EntryTypes, ResumableType, ZenonT(40) DEF ResumeResults
  <2>13. ASSUME NEW r \in Runs, ModelCallsTools(r) PROVE TypeOK'
    <3>1. PICK b \in Batches :
            LET cs == {b[i] : i \in DOMAIN b} IN
              /\ Publish(r, AssistantEntry(r, cs), "tools")
              /\ todo' = [todo EXCEPT ![r] = cs]
              /\ pend' = [pend EXCEPT ![r] = b]
      BY <2>13 DEF ModelCallsTools
    <3> DEFINE cs == {b[i] : i \in DOMAIN b}
    <3>2. b \in Seq(Calls) /\ cs \subseteq Calls
      BY BatchType, RunnerAssumption
    <3> HIDE DEF cs
    <3>3. AssistantEntry(r, cs) \in Entry
      BY <3>2, EntryTypes
    <3>4. /\ pc' \in [Runs -> Position] /\ log' \in Seq(Entry)
          /\ messages' \in [Runs -> Seq(Entry)]
      BY <3>1, <3>3, <2>a, PublishType DEF cs
    <3>5. /\ todo' = [todo EXCEPT ![r] = cs] /\ pend' = [pend EXCEPT ![r] = b]
      BY <3>1 DEF cs
    <3> QED BY <2>13, <3>2, <3>4, <3>5 DEF ModelCallsTools
  <2>14. ASSUME NEW r \in Runs, ModelAnswers(r) PROVE TypeOK'
    BY <2>14, <2>a, PublishType, EntryTypes DEF ModelAnswers
  <2>15. ASSUME NEW r \in Runs, ModelFails(r) PROVE TypeOK'
    BY <2>15, FailType DEF ModelFails
  <2>16. ASSUME NEW r \in Runs, NEW c \in Calls, ToolReturns(r, c) PROVE TypeOK'
    BY <2>16 DEF ToolReturns
  <2>17. ASSUME NEW r \in Runs, ToolsDone(r) PROVE TypeOK'
    BY <2>17, <2>a DEF ToolsDone
  <2>18. ASSUME NEW r \in Runs, EmitResult(r) PROVE TypeOK'
    <3>1. Head(pend[r]) \in Calls /\ Tail(pend[r]) \in Seq(Calls)
      BY <2>18 DEF EmitResult
    <3>2. ResultEntry(r, {Head(pend[r])}) \in Entry
      BY <3>1, EntryTypes
    <3>3. /\ pc' \in [Runs -> Position] /\ log' \in Seq(Entry)
          /\ messages' \in [Runs -> Seq(Entry)]
      BY <2>18, <3>2, <2>a, PublishType DEF EmitResult
    <3> QED BY <2>18, <3>1, <3>3, ZenonT(40) DEF EmitResult
  <2>19. ASSUME NEW r \in Runs, CollectSignal(r) PROVE TypeOK'
    BY <2>19 DEF CollectSignal
  <2>20. ASSUME NEW r \in Runs, EmitInterrupt(r) PROVE TypeOK'
    BY <2>20, <2>a, YieldType DEF EmitInterrupt, Checkpoint
  <2>21. ASSUME NEW r \in Runs, StoreFails(r) PROVE TypeOK'
    BY <2>21, FailType DEF StoreFails
  <2>22. ASSUME NEW r \in Runs, EndTurn(r) PROVE TypeOK'
    BY <2>22, <2>a DEF EndTurn
  <2>23. ASSUME NEW r \in Runs, SwitchAgent(r) PROVE TypeOK'
    BY <2>23, <2>a DEF SwitchAgent
  <2>24. ASSUME NEW r \in Runs, SwitchFails(r) PROVE TypeOK'
    BY <2>24, FailType DEF SwitchFails
  <2>25. ASSUME NEW r \in Runs, Finalize(r) PROVE TypeOK'
    BY <2>25, <2>a DEF Finalize
  <2>26. CASE UNCHANGED vars
    BY <2>26 DEF vars
  <2> QED
    BY <2>1, <2>2, <2>3, <2>4, <2>5, <2>6, <2>7, <2>8, <2>9, <2>10, <2>11,
       <2>12, <2>13, <2>14, <2>15, <2>16, <2>17, <2>18, <2>19, <2>20, <2>21,
       <2>22, <2>23, <2>24, <2>25, <2>26 DEF Next, RunStep
<1> QED BY <1>1, <1>2, PTL DEF Spec
-----------------------------------------------------------------------------
\* What a run may rely on when it takes an approval as given: checkpoints,
\* stored or loaded, hold only calls that were put to the user, a resume
\* step has only such calls to make, and a run that has not been started
\* has made none.
ApprovalInv ==
  /\ checkpoint.calls \subseteq asked \cap Guarded
  /\ \A r \in Runs : loaded[r].calls \subseteq asked \cap Guarded
  /\ \A r \in Runs : pc[r] = "resume" => todo[r] \subseteq loaded[r].calls
  /\ \A r \in Runs, c \in Calls : <<r, c>> \in ran => pc[r] # "idle"
  /\ NoUnapprovedExecution

\* A run relies on it wherever it is, and whatever the others do.
LEMMA ApprovalHolds == Spec => []ApprovalInv
<1>1. Init => ApprovalInv
  BY DEF Init, ApprovalInv, NoUnapprovedExecution, NoCheckpoint
<1>2. TypeOK /\ ApprovalInv /\ [Next]_vars => ApprovalInv'
  <2> SUFFICES ASSUME TypeOK, ApprovalInv, [Next]_vars PROVE ApprovalInv'
    OBVIOUS
  <2> USE RunnerAssumption DEF TypeOK, ApprovalInv, NoUnapprovedExecution, store, inputs, control, step, history
  <2>1. ASSUME NEW r \in Runs, Start(r) PROVE ApprovalInv'
    BY <2>1 DEF Start
  <2>2. ASSUME NEW r \in Runs, NewInvocation(r) PROVE ApprovalInv'
    BY <2>2 DEF NewInvocation
  <2>3. ASSUME NEW r \in Runs, NewInvocationFails(r) PROVE ApprovalInv'
    BY <2>3 DEF NewInvocationFails, Fail, Yield
  <2>4. ASSUME NEW r \in Runs, PersistUserMessage(r) PROVE ApprovalInv'
    BY <2>4 DEF PersistUserMessage
  <2>5. ASSUME NEW r \in Runs, PersistUserMessageFails(r) PROVE ApprovalInv'
    BY <2>5 DEF PersistUserMessageFails, Fail, Yield
  <2>6. ASSUME NEW r \in Runs, BeginAgent(r) PROVE ApprovalInv'
    BY <2>6 DEF BeginAgent, Yield
  <2>7. ASSUME NEW r \in Runs, BeginResume(r) PROVE ApprovalInv'
    BY <2>7 DEF BeginResume, Yield, Resumable
  <2>8. ASSUME NEW r \in Runs, ResumeRefused(r) PROVE ApprovalInv'
    BY <2>8 DEF ResumeRefused, Fail, Yield
  <2>9. ASSUME NEW r \in Runs, NEW c \in Calls, ResumeCall(r, c) PROVE ApprovalInv'
    BY <2>9 DEF ResumeCall
  <2>10. ASSUME NEW r \in Runs, NEW c \in Calls, ResumeCallInterrupts(r, c) PROVE ApprovalInv'
    BY <2>10 DEF ResumeCallInterrupts, Fail, Yield
  <2>11. ASSUME NEW r \in Runs, ResumeDataMissing(r) PROVE ApprovalInv'
    BY <2>11 DEF ResumeDataMissing, Fail, Yield
  <2>12. ASSUME NEW r \in Runs, ResumeResults(r) PROVE ApprovalInv'
    BY <2>12 DEF ResumeResults, Publish, Yield
  <2>13. ASSUME NEW r \in Runs, ModelCallsTools(r) PROVE ApprovalInv'
    BY <2>13 DEF ModelCallsTools, Publish, Yield
  <2>14. ASSUME NEW r \in Runs, ModelAnswers(r) PROVE ApprovalInv'
    BY <2>14 DEF ModelAnswers, Publish, Yield
  <2>15. ASSUME NEW r \in Runs, ModelFails(r) PROVE ApprovalInv'
    BY <2>15 DEF ModelFails, Fail, Yield
  <2>16. ASSUME NEW r \in Runs, NEW c \in Calls, ToolReturns(r, c) PROVE ApprovalInv'
    BY <2>16 DEF ToolReturns
  <2>17. ASSUME NEW r \in Runs, ToolsDone(r) PROVE ApprovalInv'
    BY <2>17 DEF ToolsDone
  <2>18. ASSUME NEW r \in Runs, EmitResult(r) PROVE ApprovalInv'
    BY <2>18 DEF EmitResult, Publish, Yield
  <2>19. ASSUME NEW r \in Runs, CollectSignal(r) PROVE ApprovalInv'
    BY <2>19 DEF CollectSignal
  <2>20. ASSUME NEW r \in Runs, EmitInterrupt(r) PROVE ApprovalInv'
    BY <2>20 DEF EmitInterrupt, Yield
  <2>21. ASSUME NEW r \in Runs, StoreFails(r) PROVE ApprovalInv'
    BY <2>21 DEF StoreFails, Fail, Yield
  <2>22. ASSUME NEW r \in Runs, EndTurn(r) PROVE ApprovalInv'
    BY <2>22 DEF EndTurn
  <2>23. ASSUME NEW r \in Runs, SwitchAgent(r) PROVE ApprovalInv'
    BY <2>23 DEF SwitchAgent
  <2>24. ASSUME NEW r \in Runs, SwitchFails(r) PROVE ApprovalInv'
    BY <2>24 DEF SwitchFails, Fail, Yield
  <2>25. ASSUME NEW r \in Runs, Finalize(r) PROVE ApprovalInv'
    BY <2>25 DEF Finalize, NoCheckpoint
  <2>26. CASE UNCHANGED vars
    BY <2>26 DEF vars
  <2> QED
    BY <2>1, <2>2, <2>3, <2>4, <2>5, <2>6, <2>7, <2>8, <2>9, <2>10, <2>11, <2>12, <2>13,
       <2>14, <2>15, <2>16, <2>17, <2>18, <2>19, <2>20, <2>21, <2>22, <2>23, <2>24, <2>25,
       <2>26 DEF Next, RunStep
<1> QED BY <1>1, <1>2, TypeCorrect, PTL DEF Spec

\* The tool of a guarded call is entered only by a run that was told "yes"
\* about that call (WithApproval), however the runs interleave and wherever
\* they stop.
THEOREM ApprovedOnly == Spec => []NoUnapprovedExecution
<1>1. ApprovalInv => NoUnapprovedExecution
  BY DEF ApprovalInv
<1> QED BY <1>1, ApprovalHolds, PTL
-----------------------------------------------------------------------------
\* Agent a made call c in some message of the log l.
Made(l, a, c) ==
  \E i \in DOMAIN l :
    l[i].kind = "assistant" /\ l[i].author = a /\ c \in l[i].calls

\* Why a result finds its call: whatever a run still has to answer or to ask
\* about was made, in the log, by the agent that is going to answer it.
TranscriptInv ==
  /\ ResultsFollowCalls
  /\ CheckpointFindsItsCalls
  /\ \A r \in Runs : \A c \in loaded[r].calls : Made(log, loaded[r].owner, c)
  /\ \A r \in Runs : pc[r] \in {"tools", "emit"} =>
       \A i \in DOMAIN pend[r] : Made(log, agent[r], pend[r][i])
  /\ \A r \in Runs : pc[r] = "emit" => \A c \in sig[r] : Made(log, agent[r], c)
  /\ \A r \in Runs : pc[r] \notin {"emit"} \cup Over => sig[r] = {}
  /\ \A r \in Runs : pc[r] \notin {"tools", "emit"} \cup Over => pend[r] = <<>>

\* The log is append-only, so a call once made stays made; a result may be
\* appended when its calls were made by its author.
LEMMA AppendKeepsCalls ==
  ASSUME TypeOK, NEW e \in Entry, log' = Append(log, e)
  PROVE  /\ \A a, c : Made(log, a, c) => Made(log', a, c)
         /\ e.kind = "assistant" => \A c \in e.calls : Made(log', e.author, c)
         /\ ResultsFollowCalls /\ (e.kind = "result" => \A c \in e.calls : Made(log, e.author, c))
              => ResultsFollowCalls'
<1>1. /\ log \in Seq(Entry) /\ Len(log') = Len(log) + 1 /\ Len(log) \in Nat
      /\ DOMAIN log = 1..Len(log) /\ DOMAIN log' = 1..(Len(log) + 1)
      /\ \A i \in DOMAIN log : log'[i] = log[i]
      /\ log'[Len(log) + 1] = e
  BY DEF TypeOK
<1>2. ASSUME NEW a, NEW c, Made(log, a, c) PROVE Made(log', a, c)
  BY <1>1, <1>2 DEF Made
<1>3. ASSUME e.kind = "assistant", NEW c \in e.calls PROVE Made(log', e.author, c)
  BY <1>1, <1>3 DEF Made
<1>4. ASSUME ResultsFollowCalls,
             e.kind = "result" => \A c \in e.calls : Made(log, e.author, c)
      PROVE  ResultsFollowCalls'
  <2> SUFFICES ASSUME NEW i \in DOMAIN log', log'[i].kind = "result", NEW c \in log'[i].calls
               PROVE  \E j \in 1..(i - 1) :
                        /\ log'[j].kind = "assistant" /\ log'[j].author = log'[i].author
                        /\ c \in log'[j].calls
    BY DEF ResultsFollowCalls
  <2>1. CASE i \in DOMAIN log
    <3>1. PICK j \in 1..(i - 1) : log[j].kind = "assistant" /\ log[j].author = log[i].author
                                    /\ c \in log[j].calls
      BY <1>1, <1>4, <2>1 DEF ResultsFollowCalls
    <3>2. j \in DOMAIN log
      BY <1>1, <2>1
    <3> QED BY <1>1, <2>1, <3>1, <3>2
  <2>2. CASE i = Len(log) + 1
    <3>1. PICK j \in DOMAIN log : log[j].kind = "assistant" /\ log[j].author = e.author
                                    /\ c \in log[j].calls
      BY <1>1, <1>4, <2>2 DEF Made
    <3>2. j \in 1..(i - 1)
      BY <1>1, <2>2
    <3> QED BY <1>1, <2>2, <3>1, <3>2
  <2> QED BY <1>1, <2>1, <2>2
<1> QED BY <1>2, <1>3, <1>4

\* Every result in the log answers a call its own author made before, and
\* every call the checkpoint holds as pending is found in the log.
THEOREM TranscriptOK == Spec => [](ResultsFollowCalls /\ CheckpointFindsItsCalls)
<1>1. Init => TranscriptInv
  BY DEF Init, TranscriptInv, ResultsFollowCalls, CheckpointFindsItsCalls, NoCheckpoint
<1>2. TypeOK /\ TranscriptInv /\ [Next]_vars => TranscriptInv'
  <2> SUFFICES ASSUME TypeOK, TranscriptInv, [Next]_vars PROVE TranscriptInv'
    OBVIOUS
  <2>a. ASSUME UNCHANGED log
        PROVE  /\ \A a, c : Made(log, a, c) => Made(log', a, c)
               /\ ResultsFollowCalls => ResultsFollowCalls'
    BY <2>a DEF Made, ResultsFollowCalls
  <2>b. /\ CheckpointFindsItsCalls <=> (\A c \in checkpoint.calls : Made(log, checkpoint.owner, c))
        /\ CheckpointFindsItsCalls' <=> (\A c \in checkpoint'.calls : Made(log', checkpoint'.owner, c))
    BY DEF CheckpointFindsItsCalls, Made
  <2> USE DEF TypeOK, TranscriptInv, store, inputs, control, step, history, Over
  <2>1. ASSUME NEW r \in Runs, Start(r) PROVE TranscriptInv'
    BY <2>1, <2>a, <2>b DEF Start
  <2>2. ASSUME NEW r \in Runs, NewInvocation(r) PROVE TranscriptInv'
    BY <2>2, <2>a, <2>b, ZenonT(40) DEF NewInvocation
  <2>3. ASSUME NEW r \in Runs, NewInvocationFails(r) PROVE TranscriptInv'
    BY <2>3, <2>a, <2>b DEF NewInvocationFails, Fail, Yield
  <2>4. ASSUME NEW r \in Runs, PersistUserMessage(r) PROVE TranscriptInv'
    <3>1. CASE msg[r]
      <4>1. UserEntry(r) \in Entry /\ UserEntry(r).kind = "user"
        BY EntryTypes DEF UserEntry
      <4>2. log' = Append(log, UserEntry(r))
        BY <2>4, <3>1 DEF PersistUserMessage
      <4>3. /\ \A a, c : Made(log, a, c) => Made(log', a, c)
            /\ ResultsFollowCalls'
        BY <4>1, <4>2, AppendKeepsCalls
      <4> QED BY <2>4, <2>b, <4>3 DEF PersistUserMessage
    <3>2. CASE ~msg[r]
      BY <2>4, <2>a, <2>b, <3>2 DEF PersistUserMessage
    <3> QED BY <3>1, <3>2
  <2>5. ASSUME NEW r \in Runs, PersistUserMessageFails(r) PROVE TranscriptInv'
    BY <2>5, <2>a, <2>b DEF PersistUserMessageFails, Fail, Yield
  <2>6. ASSUME NEW r \in Runs, BeginAgent(r) PROVE TranscriptInv'
    BY <2>6, <2>a, <2>b DEF BeginAgent, Yield
  <2>7. ASSUME NEW r \in Runs, BeginResume(r) PROVE TranscriptInv'
    BY <2>7, <2>a, <2>b DEF BeginResume, Yield
  <2>8. ASSUME NEW r \in Runs, ResumeRefused(r) PROVE TranscriptInv'
    BY <2>8, <2>a, <2>b DEF ResumeRefused, Fail, Yield
  <2>9. ASSUME NEW r \in Runs, NEW c \in Calls, ResumeCall(r, c) PROVE TranscriptInv'
    BY <2>9, <2>a, <2>b DEF ResumeCall
  <2>10. ASSUME NEW r \in Runs, NEW c \in Calls, ResumeCallInterrupts(r, c) PROVE TranscriptInv'
    BY <2>10, <2>a, <2>b DEF ResumeCallInterrupts, Fail, Yield
  <2>11. ASSUME NEW r \in Runs, ResumeDataMissing(r) PROVE TranscriptInv'
    BY <2>11, <2>a, <2>b DEF ResumeDataMissing, Fail, Yield
  <2>12. ASSUME NEW r \in Runs, ResumeResults(r) PROVE TranscriptInv'
    <3> DEFINE e == ResultEntry(r, Resumable(r))
    <3>1. /\ e \in Entry /\ log' = Append(log, e) /\ e.kind = "result"
          /\ e.author = agent[r] /\ e.calls = Resumable(r)
      BY <2>12, EntryTypes, ResumableType DEF ResumeResults, Publish, ResultEntry
    <3> HIDE DEF e
    <3>2. \A c \in e.calls : Made(log, e.author, c)
      BY <3>1 DEF Resumable
    <3>3. /\ \A a, c : Made(log, a, c) => Made(log', a, c)
          /\ ResultsFollowCalls'
      BY <3>1, <3>2, AppendKeepsCalls
    <3>4. pend[r] = <<>> /\ sig[r] = {}
      BY <2>12 DEF ResumeResults
    <3>5. DOMAIN pend[r] = {}
      BY <3>4
    <3> QED BY <2>12, <2>b, <3>3, <3>4, <3>5 DEF ResumeResults, Publish, Yield
  <2>13. ASSUME NEW r \in Runs, ModelCallsTools(r) PROVE TranscriptInv'
    <3>1. PICK b \in Batches :
            LET cs == {b[i] : i \in DOMAIN b} IN
              /\ Publish(r, AssistantEntry(r, cs), "tools")
              /\ pend' = [pend EXCEPT ![r] = b]
      BY <2>13 DEF ModelCallsTools
    <3> DEFINE cs == {b[i] : i \in DOMAIN b}
               e == AssistantEntry(r, cs)
    <3>2. cs \subseteq Calls
      BY BatchType, RunnerAssumption
    <3>3. /\ e \in Entry /\ log' = Append(log, e) /\ e.kind = "assistant"
          /\ e.author = agent[r] /\ e.calls = cs
      BY <3>1, <3>2, EntryTypes DEF Publish, AssistantEntry
    <3>4. /\ \A a, c : Made(log, a, c) => Made(log', a, c)
          /\ \A c \in cs : Made(log', agent[r], c)
          /\ ResultsFollowCalls'
      BY <3>3, AppendKeepsCalls
    <3>5. \A i \in DOMAIN b : Made(log', agent[r], b[i])
      BY <3>4
    <3>6. pend' = [pend EXCEPT ![r] = b] /\ Yield(r, "tools")
      BY <3>1 DEF Publish
    <3> HIDE DEF e, cs
    <3> QED BY <2>13, <2>b, <3>4, <3>5, <3>6 DEF ModelCallsTools, Yield
  <2>14. ASSUME NEW r \in Runs, ModelAnswers(r) PROVE TranscriptInv'
    <3> DEFINE e == AssistantEntry(r, {})
    <3>1. e \in Entry /\ log' = Append(log, e) /\ e.kind = "assistant"
      BY <2>14, EntryTypes DEF ModelAnswers, Publish, AssistantEntry
    <3>2. /\ \A a, c : Made(log, a, c) => Made(log', a, c)
          /\ ResultsFollowCalls'
      BY <3>1, AppendKeepsCalls
    <3> QED BY <2>14, <2>b, <3>2 DEF ModelAnswers, Publish, Yield
  <2>15. ASSUME NEW r \in Runs, ModelFails(r) PROVE TranscriptInv'
    BY <2>15, <2>a, <2>b DEF ModelFails, Fail, Yield
  <2>16. ASSUME NEW r \in Runs, NEW c \in Calls, ToolReturns(r, c) PROVE TranscriptInv'
    BY <2>16, <2>a, <2>b DEF ToolReturns
  <2>17. ASSUME NEW r \in Runs, ToolsDone(r) PROVE TranscriptInv'
    BY <2>17, <2>a, <2>b DEF ToolsDone
  <2>18. ASSUME NEW r \in Runs, EmitResult(r) PROVE TranscriptInv'
    <3> DEFINE e == ResultEntry(r, {Head(pend[r])})
    <3>1. /\ pend[r] \in Seq(Calls) /\ pend[r] # <<>> /\ pc[r] = "emit"
          /\ 1 \in DOMAIN pend[r] /\ Head(pend[r]) = pend[r][1]
          /\ \A i \in DOMAIN Tail(pend[r]) :
               i + 1 \in DOMAIN pend[r] /\ Tail(pend[r])[i] = pend[r][i + 1]
      BY <2>18 DEF EmitResult
    <3>2. /\ e \in Entry /\ log' = Append(log, e) /\ e.kind = "result"
          /\ e.author = agent[r] /\ e.calls = {Head(pend[r])}
      BY <2>18, <3>1, EntryTypes DEF EmitResult, Publish, ResultEntry
    <3> HIDE DEF e
    <3>3. \A c \in e.calls : Made(log, e.author, c)
      BY <3>1, <3>2
    <3>4. /\ \A a, c : Made(log, a, c) => Made(log', a, c)
          /\ ResultsFollowCalls'
      BY <3>2, <3>3, AppendKeepsCalls
    <3>5. \A i \in DOMAIN Tail(pend[r]) : Made(log', agent[r], Tail(pend[r])[i])
      BY <3>1, <3>4
    <3> QED BY <2>18, <2>b, <3>4, <3>5, ZenonT(40) DEF EmitResult, Publish, Yield
  <2>19. ASSUME NEW r \in Runs, CollectSignal(r) PROVE TranscriptInv'
    <3>1. /\ pend[r] \in Seq(Calls) /\ pend[r] # <<>> /\ pc[r] = "emit"
          /\ 1 \in DOMAIN pend[r] /\ Head(pend[r]) = pend[r][1]
          /\ \A i \in DOMAIN Tail(pend[r]) :
               i + 1 \in DOMAIN pend[r] /\ Tail(pend[r])[i] = pend[r][i + 1]
      BY <2>19 DEF CollectSignal
    <3> QED BY <2>19, <2>a, <2>b, <3>1 DEF CollectSignal
  <2>20. ASSUME NEW r \in Runs, EmitInterrupt(r) PROVE TranscriptInv'
    BY <2>20, <2>a, <2>b DEF EmitInterrupt, Yield
  <2>21. ASSUME NEW r \in Runs, StoreFails(r) PROVE TranscriptInv'
    BY <2>21, <2>a, <2>b DEF StoreFails, Fail, Yield
  <2>22. ASSUME NEW r \in Runs, EndTurn(r) PROVE TranscriptInv'
    BY <2>22, <2>a, <2>b DEF EndTurn
  <2>23. ASSUME NEW r \in Runs, SwitchAgent(r) PROVE TranscriptInv'
    BY <2>23, <2>a, <2>b DEF SwitchAgent
  <2>24. ASSUME NEW r \in Runs, SwitchFails(r) PROVE TranscriptInv'
    BY <2>24, <2>a, <2>b DEF SwitchFails, Fail, Yield
  <2>25. ASSUME NEW r \in Runs, Finalize(r) PROVE TranscriptInv'
    BY <2>25, <2>a, <2>b DEF Finalize, NoCheckpoint
  <2>26. CASE UNCHANGED vars
    BY <2>26, <2>a, <2>b DEF vars
  <2> QED
    BY <2>1, <2>2, <2>3, <2>4, <2>5, <2>6, <2>7, <2>8, <2>9, <2>10, <2>11, <2>12, <2>13,
       <2>14, <2>15, <2>16, <2>17, <2>18, <2>19, <2>20, <2>21, <2>22, <2>23, <2>24, <2>25,
       <2>26 DEF Next, RunStep
<1>3. TranscriptInv => ResultsFollowCalls /\ CheckpointFindsItsCalls
  BY DEF TranscriptInv
<1> QED BY <1>1, <1>2, <1>3, TypeCorrect, PTL DEF Spec

\* The transcript half of TranscriptOK: a tool result in the log follows the
\* call it answers.
COROLLARY ResultsAnswerCalls == Spec => []ResultsFollowCalls
BY TranscriptOK, PTL

\* The checkpoint half: toolCallForAddress finds every call it looks for.
COROLLARY PendingCallsAreLogged == Spec => []CheckpointFindsItsCalls
BY TranscriptOK, PTL

-----------------------------------------------------------------------------
\* Run r made call c in some message of the log l.
MadeBy(l, r, c) ==
  \E i \in DOMAIN l : l[i].kind = "assistant" /\ l[i].by = r /\ c \in l[i].calls

\* Where each call of a run that has not failed is to be found: answered in
\* the log, put to the user, paused on its own, waiting to be turned into an
\* event, or collected for the composite interrupt.
CallInv ==
  /\ \A r \in Runs : pc[r] \notin {"failed", "aborted"} =>
       \A c : MadeBy(log, r, c) =>
         \/ c \in Answered \cup asked \cup Raw \cup sig[r]
         \/ \E i \in DOMAIN pend[r] : c = pend[r][i]
  /\ \A r \in Runs : sig[r] \subseteq Interrupting
  /\ \A r \in Runs : pc[r] \notin {"emit", "failed", "aborted"} => sig[r] = {}
  /\ \A r \in Runs : pc[r] \notin {"tools", "emit", "failed", "aborted"} => pend[r] = <<>>

\* Appending to the log takes back no answer, a result answers its calls, and
\* only an assistant message of a run adds to the calls that run made.
LEMMA AppendAnswers ==
  ASSUME TypeOK, NEW e \in Entry, log' = Append(log, e)
  PROVE  /\ Answered \subseteq Answered'
         /\ e.kind = "result" => e.calls \subseteq Answered'
         /\ \A r, c : MadeBy(log', r, c) =>
              \/ MadeBy(log, r, c)
              \/ e.kind = "assistant" /\ e.by = r /\ c \in e.calls
<1>1. /\ log \in Seq(Entry) /\ Len(log) \in Nat
      /\ DOMAIN log = 1..Len(log) /\ DOMAIN log' = 1..(Len(log) + 1)
      /\ \A i \in DOMAIN log : log'[i] = log[i]
      /\ log'[Len(log) + 1] = e
  BY DEF TypeOK
<1>2. \A i \in DOMAIN log' : i \in DOMAIN log \/ i = Len(log) + 1
  BY <1>1
<1>3. DOMAIN log \subseteq DOMAIN log' /\ Len(log) + 1 \in DOMAIN log'
  BY <1>1
<1>4. Answered \subseteq Answered'
  BY <1>1, <1>3 DEF Answered, CallsOf
<1>5. e.kind = "result" => e.calls \subseteq Answered'
  BY <1>1, <1>3 DEF Answered, CallsOf
<1>6. ASSUME NEW r, NEW c, MadeBy(log', r, c)
      PROVE  MadeBy(log, r, c) \/ (e.kind = "assistant" /\ e.by = r /\ c \in e.calls)
  <2>1. PICK i \in DOMAIN log' :
          log'[i].kind = "assistant" /\ log'[i].by = r /\ c \in log'[i].calls
    BY <1>6 DEF MadeBy
  <2> QED BY <2>1, <1>1, <1>2 DEF MadeBy
<1> QED BY <1>4, <1>5, <1>6

\* An element of a non-empty sequence is its head or one of its tail.
LEMMA HeadOrTail ==
  ASSUME NEW S, NEW s \in Seq(S), s # <<>>, NEW i \in DOMAIN s
  PROVE  s[i] = Head(s) \/ \E j \in DOMAIN Tail(s) : s[i] = Tail(s)[j]
<1>1. CASE i = 1
  BY <1>1
<1>2. CASE i # 1
  <2>1. i \in 2..Len(s) /\ Len(s) \in Nat /\ Tail(s) \in Seq(S) /\ Len(Tail(s)) = Len(s) - 1
    BY <1>2
  <2>2. i - 1 \in 1..Len(Tail(s)) /\ Tail(s)[i - 1] = s[(i - 1) + 1] /\ (i - 1) + 1 = i
    BY <2>1
  <2>3. i - 1 \in DOMAIN Tail(s) /\ s[i] = Tail(s)[i - 1]
    BY <2>1, <2>2
  <2> QED BY <2>3
<1> QED BY <1>1, <1>2

\* A run that ended without an error leaves no tool call without an answer
\* that was neither put to the user nor paused by the tool itself.
THEOREM NothingDangles == Spec => []NoDanglingCall
<1>1. Init => CallInv
  BY DEF Init, CallInv, MadeBy
<1>2. TypeOK /\ CallInv /\ [Next]_vars => CallInv'
  <2> SUFFICES ASSUME TypeOK, CallInv, [Next]_vars PROVE CallInv'
    OBVIOUS
  <2>a. UNCHANGED log => Answered' = Answered /\ \A r, c : MadeBy(log', r, c) => MadeBy(log, r, c)
    BY DEF MadeBy, Answered, CallsOf
  <2> USE DEF TypeOK, CallInv, store, inputs, control, step, history, Over
  <2>1. ASSUME NEW r \in Runs, Start(r) PROVE CallInv'
    BY <2>1, <2>a DEF Start
  <2>2. ASSUME NEW r \in Runs, NewInvocation(r) PROVE CallInv'
    BY <2>2, <2>a DEF NewInvocation
  <2>3. ASSUME NEW r \in Runs, NewInvocationFails(r) PROVE CallInv'
    BY <2>3, <2>a DEF NewInvocationFails, Fail, Yield
  <2>4. ASSUME NEW r \in Runs, PersistUserMessage(r) PROVE CallInv'
    <3>1. CASE msg[r]
      <4>1. UserEntry(r) \in Entry /\ UserEntry(r).kind = "user"
        BY EntryTypes DEF UserEntry
      <4>2. log' = Append(log, UserEntry(r))
        BY <2>4, <3>1 DEF PersistUserMessage
      <4>3. /\ Answered \subseteq Answered'
            /\ \A q, c : MadeBy(log', q, c) => MadeBy(log, q, c)
        BY <4>1, <4>2, AppendAnswers
      <4> QED BY <2>4, <4>3 DEF PersistUserMessage
    <3>2. CASE ~msg[r]
      BY <2>4, <2>a, <3>2 DEF PersistUserMessage
    <3> QED BY <3>1, <3>2
  <2>5. ASSUME NEW r \in Runs, PersistUserMessageFails(r) PROVE CallInv'
    BY <2>5, <2>a DEF PersistUserMessageFails, Fail, Yield
  <2>6. ASSUME NEW r \in Runs, BeginAgent(r) PROVE CallInv'
    BY <2>6, <2>a DEF BeginAgent, Yield
  <2>7. ASSUME NEW r \in Runs, BeginResume(r) PROVE CallInv'
    BY <2>7, <2>a DEF BeginResume, Yield
  <2>8. ASSUME NEW r \in Runs, ResumeRefused(r) PROVE CallInv'
    BY <2>8, <2>a DEF ResumeRefused, Fail, Yield
  <2>9. ASSUME NEW r \in Runs, NEW c \in Calls, ResumeCall(r, c) PROVE CallInv'
    BY <2>9, <2>a DEF ResumeCall
  <2>10. ASSUME NEW r \in Runs, NEW c \in Calls, ResumeCallInterrupts(r, c) PROVE CallInv'
    BY <2>10, <2>a DEF ResumeCallInterrupts, Fail, Yield
  <2>11. ASSUME NEW r \in Runs, ResumeDataMissing(r) PROVE CallInv'
    BY <2>11, <2>a DEF ResumeDataMissing, Fail, Yield
  <2>12. ASSUME NEW r \in Runs, ResumeResults(r) PROVE CallInv'
    <3> DEFINE e == ResultEntry(r, Resumable(r))
    <3>1. e \in Entry /\ log' = Append(log, e) /\ e.kind = "result"
      BY <2>12, EntryTypes, ResumableType DEF ResumeResults, Publish, ResultEntry
    <3> HIDE DEF e
    <3>2. /\ Answered \subseteq Answered'
          /\ \A q, c : MadeBy(log', q, c) => MadeBy(log, q, c)
      BY <3>1, AppendAnswers
    <3> QED BY <2>12, <3>2 DEF ResumeResults, Publish, Yield
  <2>13. ASSUME NEW r \in Runs, ModelCallsTools(r) PROVE CallInv'
    <3>1. PICK b \in Batches :
            LET cs == {b[i] : i \in DOMAIN b} IN
              /\ Publish(r, AssistantEntry(r, cs), "tools")
              /\ pend' = [pend EXCEPT ![r] = b]
      BY <2>13 DEF ModelCallsTools
    <3> DEFINE cs == {b[i] : i \in DOMAIN b}
               e == AssistantEntry(r, cs)
    <3>2. cs \subseteq Calls
      BY BatchType, RunnerAssumption
    <3>3. /\ e \in Entry /\ log' = Append(log, e) /\ e.kind = "assistant"
          /\ e.by = r /\ e.calls = cs
      BY <3>1, <3>2, EntryTypes DEF Publish, AssistantEntry
    <3>4. pend' = [pend EXCEPT ![r] = b] /\ Yield(r, "tools")
      BY <3>1 DEF Publish
    <3> HIDE DEF e
    <3>5. /\ Answered \subseteq Answered'
          /\ \A q, c : MadeBy(log', q, c) =>
               MadeBy(log, q, c) \/ (q = r /\ \E i \in DOMAIN b : c = b[i])
      <4>1. /\ Answered \subseteq Answered'
            /\ \A q, c : MadeBy(log', q, c) => MadeBy(log, q, c) \/ (q = r /\ c \in cs)
        BY <3>3, AppendAnswers
      <4> QED BY <4>1
    <3>6. pend[r] = <<>>
      BY <2>13 DEF ModelCallsTools
    <3>7. DOMAIN pend[r] = {}
      BY <3>6
    <3> HIDE DEF cs
    <3> QED BY <2>13, <3>4, <3>5, <3>7 DEF ModelCallsTools, Yield
  <2>14. ASSUME NEW r \in Runs, ModelAnswers(r) PROVE CallInv'
    <3> DEFINE e == AssistantEntry(r, {})
    <3>1. e \in Entry /\ log' = Append(log, e) /\ e.kind = "assistant" /\ e.calls = {}
      BY <2>14, EntryTypes DEF ModelAnswers, Publish, AssistantEntry
    <3> HIDE DEF e
    <3>2. /\ Answered \subseteq Answered'
          /\ \A q, c : MadeBy(log', q, c) => MadeBy(log, q, c)
      BY <3>1, AppendAnswers
    <3> QED BY <2>14, <3>2 DEF ModelAnswers, Publish, Yield
  <2>15. ASSUME NEW r \in Runs, ModelFails(r) PROVE CallInv'
    BY <2>15, <2>a DEF ModelFails, Fail, Yield
  <2>16. ASSUME NEW r \in Runs, NEW c \in Calls, ToolReturns(r, c) PROVE CallInv'
    BY <2>16, <2>a DEF ToolReturns
  <2>17. ASSUME NEW r \in Runs, ToolsDone(r) PROVE CallInv'
    BY <2>17, <2>a DEF ToolsDone
  <2>18. ASSUME NEW r \in Runs, EmitResult(r) PROVE CallInv'
    <3> DEFINE e == ResultEntry(r, {Head(pend[r])})
    <3>1. /\ pend[r] \in Seq(Calls) /\ pend[r] # <<>>
          /\ \A i \in DOMAIN pend[r] : pend[r][i] = Head(pend[r])
               \/ \E j \in DOMAIN Tail(pend[r]) : pend[r][i] = Tail(pend[r])[j]
      BY <2>18, HeadOrTail DEF EmitResult
    <3>2. /\ e \in Entry /\ log' = Append(log, e) /\ e.kind = "result"
          /\ e.calls = {Head(pend[r])}
      BY <2>18, <3>1, EntryTypes DEF EmitResult, Publish, ResultEntry
    <3> HIDE DEF e
    <3>3. /\ Answered \subseteq Answered' /\ Head(pend[r]) \in Answered'
          /\ \A q, c : MadeBy(log', q, c) => MadeBy(log, q, c)
      BY <3>2, AppendAnswers
    <3>4. /\ pend' = [pend EXCEPT ![r] = Tail(@)] /\ Yield(r, "emit") /\ pc[r] = "emit"
          /\ UNCHANGED <<sig, asked>>
      BY <2>18 DEF EmitResult, Publish
    <3>5. ASSUME NEW q \in Runs, pc'[q] \notin {"failed", "aborted"}, NEW c,
                 MadeBy(log', q, c)
          PROVE  \/ c \in Answered' \cup asked' \cup Raw \cup sig'[q]
                 \/ \E i \in DOMAIN pend'[q] : c = pend'[q][i]
      <4>1. \/ c \in Answered \cup asked \cup Raw \cup sig[q]
            \/ \E i \in DOMAIN pend[q] : c = pend[q][i]
        BY <3>3, <3>4, <3>5 DEF Yield
      <4>2. CASE q = r
        <5>1. pend'[r] = Tail(pend[r])
          BY <3>4
        <5>2. CASE c \in Answered \cup asked \cup Raw \cup sig[r]
          BY <3>3, <3>4, <4>2, <5>2
        <5>3. CASE \E i \in DOMAIN pend[r] : c = pend[r][i]
          <6>1. c = Head(pend[r]) \/ \E j \in DOMAIN Tail(pend[r]) : c = Tail(pend[r])[j]
            BY <3>1, <5>3
          <6> QED BY <3>3, <3>4, <4>2, <5>1, <6>1
        <5> QED BY <4>1, <4>2, <5>2, <5>3
      <4>3. CASE q # r
        BY <3>3, <3>4, <4>1, <4>3
      <4> QED BY <4>2, <4>3
    <3> QED BY <3>4, <3>5 DEF Yield
  <2>19. ASSUME NEW r \in Runs, CollectSignal(r) PROVE CallInv'
    <3>1. /\ pend[r] \in Seq(Calls) /\ pend[r] # <<>>
          /\ \A i \in DOMAIN pend[r] : pend[r][i] = Head(pend[r])
               \/ \E j \in DOMAIN Tail(pend[r]) : pend[r][i] = Tail(pend[r])[j]
      BY <2>19, HeadOrTail DEF CollectSignal
    <3>2. /\ pend' = [pend EXCEPT ![r] = Tail(@)] /\ pc[r] = "emit"
          /\ sig' = [sig EXCEPT ![r] = @ \cup {Head(pend[r])}]
          /\ Head(pend[r]) \in Interrupting
          /\ UNCHANGED <<log, pc, asked>>
      BY <2>19 DEF CollectSignal
    <3>3. ASSUME NEW q \in Runs, pc'[q] \notin {"failed", "aborted"}, NEW c,
                 MadeBy(log', q, c)
          PROVE  \/ c \in Answered' \cup asked' \cup Raw \cup sig'[q]
                 \/ \E i \in DOMAIN pend'[q] : c = pend'[q][i]
      <4>1. \/ c \in Answered \cup asked \cup Raw \cup sig[q]
            \/ \E i \in DOMAIN pend[q] : c = pend[q][i]
        BY <2>a, <3>2, <3>3
      <4>2. CASE q = r
        <5>1. pend'[r] = Tail(pend[r])
          BY <3>2
        <5>2. CASE c \in Answered \cup asked \cup Raw \cup sig[r]
          BY <2>a, <3>2, <4>2, <5>2
        <5>3. CASE \E i \in DOMAIN pend[r] : c = pend[r][i]
          <6>1. c = Head(pend[r]) \/ \E j \in DOMAIN Tail(pend[r]) : c = Tail(pend[r])[j]
            BY <3>1, <5>3
          <6> QED BY <2>a, <3>2, <4>2, <5>1, <6>1
        <5> QED BY <4>1, <4>2, <5>2, <5>3
      <4>3. CASE q # r
        BY <2>a, <3>2, <4>1, <4>3
      <4> QED BY <4>2, <4>3
    <3>4. \A q \in Runs : sig'[q] \subseteq Interrupting
      BY <3>2
    <3>5. \A q \in Runs : pc'[q] \notin {"emit", "failed", "aborted"} => sig'[q] = {}
      BY <3>2
    <3>6. \A q \in Runs : pc'[q] \notin {"tools", "emit", "failed", "aborted"} => pend'[q] = <<>>
      BY <3>2
    <3> QED BY <3>3, <3>4, <3>5, <3>6
  <2>20. ASSUME NEW r \in Runs, EmitInterrupt(r) PROVE CallInv'
    <3>1. /\ pc[r] = "emit" /\ pend[r] = <<>> /\ Yield(r, "left")
          /\ asked' = asked \cup (sig[r] \cap Guarded)
          /\ sig' = [sig EXCEPT ![r] = {}]
          /\ UNCHANGED <<log, pend>>
      BY <2>20 DEF EmitInterrupt
    <3>2. DOMAIN pend[r] = {}
      BY <3>1
    <3>3. sig[r] \subseteq asked' \cup Raw
      BY <3>1 DEF Interrupting
    <3>4. ASSUME NEW q \in Runs, pc'[q] \notin {"failed", "aborted"}, NEW c,
                 MadeBy(log', q, c)
          PROVE  \/ c \in Answered' \cup asked' \cup Raw \cup sig'[q]
                 \/ \E i \in DOMAIN pend'[q] : c = pend'[q][i]
      <4>1. \/ c \in Answered \cup asked \cup Raw \cup sig[q]
            \/ \E i \in DOMAIN pend[q] : c = pend[q][i]
        BY <2>a, <3>1, <3>4 DEF Yield
      <4>2. CASE q = r
        BY <2>a, <3>1, <3>2, <3>3, <4>1, <4>2
      <4>3. CASE q # r
        BY <2>a, <3>1, <4>1, <4>3
      <4> QED BY <4>2, <4>3
    <3> QED BY <3>1, <3>4 DEF Yield
  <2>21. ASSUME NEW r \in Runs, StoreFails(r) PROVE CallInv'
    BY <2>21, <2>a DEF StoreFails, Fail, Yield
  <2>22. ASSUME NEW r \in Runs, EndTurn(r) PROVE CallInv'
    BY <2>22, <2>a DEF EndTurn
  <2>23. ASSUME NEW r \in Runs, SwitchAgent(r) PROVE CallInv'
    BY <2>23, <2>a DEF SwitchAgent
  <2>24. ASSUME NEW r \in Runs, SwitchFails(r) PROVE CallInv'
    BY <2>24, <2>a DEF SwitchFails, Fail, Yield
  <2>25. ASSUME NEW r \in Runs, Finalize(r) PROVE CallInv'
    BY <2>25, <2>a DEF Finalize
  <2>26. CASE UNCHANGED vars
    BY <2>26, <2>a DEF vars
  <2> QED
    BY <2>1, <2>2, <2>3, <2>4, <2>5, <2>6, <2>7, <2>8, <2>9, <2>10, <2>11, <2>12, <2>13,
       <2>14, <2>15, <2>16, <2>17, <2>18, <2>19, <2>20, <2>21, <2>22, <2>23, <2>24, <2>25,
       <2>26 DEF Next, RunStep
<1>3. TypeOK /\ CallInv => NoDanglingCall
  <2> SUFFICES ASSUME TypeOK, CallInv, NEW r \in Runs, pc[r] = "done",
                      NEW i \in DOMAIN log, log[i].kind = "assistant", log[i].by = r,
                      NEW c \in log[i].calls
               PROVE  c \in Answered \cup asked \cup Raw
    BY DEF NoDanglingCall
  <2>1. MadeBy(log, r, c)
    BY DEF MadeBy
  <2>2. sig[r] = {} /\ DOMAIN pend[r] = {}
    BY DEF CallInv
  <2> QED BY <2>1, <2>2 DEF CallInv
<1> QED BY <1>1, <1>2, <1>3, TypeCorrect, PTL DEF Spec

-----------------------------------------------------------------------------
\* What Keep makes of an entry more: only the run it is of has said it, and
\* nobody has said a message of the user.
LEMMA SaidEntry ==
  ASSUME NEW e \in Entry, NEW r \in Runs
  PROVE  /\ e.kind # "user" => e \in Said(Runs) /\ e \in Said({e.by})
         /\ e.kind = "user" => e \notin Said(Runs) /\ e \notin Said({r})
         /\ e.by # r => e \notin Said({r})
BY DEF Entry, Said

\* A message of an agent, persisted and yielded: the log and the stream of its
\* run have it at their ends, and what the others said is as it was.
LEMMA PublishStream ==
  ASSUME TypeOK, StreamIsLog, NEW r \in Runs, NEW e \in Entry,
         e.by = r, e.kind # "user", log' = Append(log, e),
         messages' = [messages EXCEPT ![r] = Append(@, e)]
  PROVE  StreamIsLog'
<1> SUFFICES ASSUME NEW q \in Runs PROVE Keep(messages'[q], Said(Runs)) = Keep(log', Said({q}))
  BY DEF StreamIsLog, Said
<1>1. /\ log \in Seq(Entry) /\ messages[q] \in Seq(Entry)
      /\ Keep(messages[q], Said(Runs)) = Keep(log, Said({q}))
  BY DEF TypeOK, StreamIsLog
<1>2. \A s \in Seq(Entry) : \A T :
        Keep(Append(s, e), T) = IF e \in T THEN Append(Keep(s, T), e) ELSE Keep(s, T)
  BY KeepAppend
<1>3. CASE q = r
  <2>1. e \in Said(Runs) /\ e \in Said({q})
    BY <1>3, SaidEntry
  <2>2. messages'[q] = Append(messages[q], e)
    BY <1>3 DEF TypeOK
  <2>3. Keep(messages'[q], Said(Runs)) = Append(Keep(messages[q], Said(Runs)), e)
    BY <1>1, <1>2, <2>1, <2>2
  <2>4. Keep(log', Said({q})) = Append(Keep(log, Said({q})), e)
    BY <1>1, <1>2, <2>1
  <2> QED BY <1>1, <2>3, <2>4
<1>4. CASE q # r
  <2>1. e \notin Said({q}) /\ messages'[q] = messages[q]
    BY <1>4, SaidEntry DEF TypeOK
  <2> QED BY <1>1, <1>2, <2>1
<1> QED BY <1>3, <1>4

\* The user's message, persisted by one step and re-emitted by another, is not
\* of what a run has said.
LEMMA UserStream ==
  ASSUME TypeOK, StreamIsLog, NEW r \in Runs, NEW e \in Entry, e.kind = "user",
         \/ log' = Append(log, e) /\ UNCHANGED messages
         \/ messages' = [messages EXCEPT ![r] = Append(@, e)] /\ UNCHANGED log
  PROVE  StreamIsLog'
<1> SUFFICES ASSUME NEW q \in Runs PROVE Keep(messages'[q], Said(Runs)) = Keep(log', Said({q}))
  BY DEF StreamIsLog, Said
<1>1. /\ log \in Seq(Entry) /\ messages[q] \in Seq(Entry)
      /\ Keep(messages[q], Said(Runs)) = Keep(log, Said({q}))
      /\ e \notin Said(Runs) /\ e \notin Said({q})
  BY SaidEntry DEF TypeOK, StreamIsLog
<1>a. \A s \in Seq(Entry) : \A T :
        Keep(Append(s, e), T) = IF e \in T THEN Append(Keep(s, T), e) ELSE Keep(s, T)
  BY KeepAppend
<1>2. Keep(Append(log, e), Said({q})) = Keep(log, Said({q}))
  BY <1>1, <1>a
<1>3. Keep(Append(messages[q], e), Said(Runs)) = Keep(messages[q], Said(Runs))
  BY <1>1, <1>a
<1>4. messages'[q] \in {messages[q], Append(messages[q], e)}
  BY DEF TypeOK
<1>5. log' \in {log, Append(log, e)}
  OBVIOUS
<1> QED BY <1>1, <1>2, <1>3, <1>4, <1>5

\* Run's projection: whatever fails and wherever the consumer stops, it was sent
\* what the run has appended to the log (persistEvent before yield, always).
THEOREM StreamIsTheLog == Spec => []StreamIsLog
<1>1. Init => StreamIsLog
  BY DEF Init, StreamIsLog, Keep
<1>2. TypeOK /\ StreamIsLog /\ [Next]_vars => StreamIsLog'
  <2> SUFFICES ASSUME TypeOK, StreamIsLog, [Next]_vars PROVE StreamIsLog'
    OBVIOUS
  <2>a. UNCHANGED <<log, messages>> => StreamIsLog'
    BY DEF StreamIsLog, Said
  <2>1. ASSUME NEW r \in Runs, Start(r) PROVE StreamIsLog'
    BY <2>1, <2>a DEF Start, store
  <2>2. ASSUME NEW r \in Runs, NewInvocation(r) PROVE StreamIsLog'
    BY <2>2, <2>a DEF NewInvocation, store
  <2>3. ASSUME NEW r \in Runs, NewInvocationFails(r) PROVE StreamIsLog'
    BY <2>3, <2>a DEF NewInvocationFails, store
  <2>4. ASSUME NEW r \in Runs, PersistUserMessage(r) PROVE StreamIsLog'
    <3>1. UserEntry(r) \in Entry /\ UserEntry(r).kind = "user"
      BY EntryTypes DEF UserEntry
    <3>2. UNCHANGED messages
      BY <2>4 DEF PersistUserMessage
    <3>3. CASE msg[r]
      BY <2>4, <3>1, <3>2, <3>3, UserStream DEF PersistUserMessage
    <3>4. CASE ~msg[r]
      BY <2>4, <2>a, <3>2, <3>4 DEF PersistUserMessage
    <3> QED BY <3>3, <3>4
  <2>5. ASSUME NEW r \in Runs, PersistUserMessageFails(r) PROVE StreamIsLog'
    BY <2>5, <2>a DEF PersistUserMessageFails, store
  <2>6. ASSUME NEW r \in Runs, BeginAgent(r) PROVE StreamIsLog'
    <3>1. UserEntry(r) \in Entry /\ UserEntry(r).kind = "user"
      BY EntryTypes DEF UserEntry
    <3>2. UNCHANGED log
      BY <2>6 DEF BeginAgent, store
    <3>3. CASE msg[r]
      BY <2>6, <3>1, <3>2, <3>3, UserStream DEF BeginAgent, Greet
    <3>4. CASE ~msg[r]
      BY <2>6, <2>a, <3>2, <3>4 DEF BeginAgent, Greet
    <3> QED BY <3>3, <3>4
  <2>7. ASSUME NEW r \in Runs, BeginResume(r) PROVE StreamIsLog'
    <3>1. UserEntry(r) \in Entry /\ UserEntry(r).kind = "user"
      BY EntryTypes DEF UserEntry
    <3>2. UNCHANGED log
      BY <2>7 DEF BeginResume, store
    <3>3. CASE msg[r]
      BY <2>7, <3>1, <3>2, <3>3, UserStream DEF BeginResume, Greet
    <3>4. CASE ~msg[r]
      BY <2>7, <2>a, <3>2, <3>4 DEF BeginResume, Greet
    <3> QED BY <3>3, <3>4
  <2>8. ASSUME NEW r \in Runs, ResumeRefused(r) PROVE StreamIsLog'
    <3>1. UserEntry(r) \in Entry /\ UserEntry(r).kind = "user"
      BY EntryTypes DEF UserEntry
    <3>2. UNCHANGED log
      BY <2>8 DEF ResumeRefused, store
    <3>3. CASE msg[r]
      BY <2>8, <3>1, <3>2, <3>3, UserStream DEF ResumeRefused, Greet
    <3>4. CASE ~msg[r]
      BY <2>8, <2>a, <3>2, <3>4 DEF ResumeRefused, Greet
    <3> QED BY <3>3, <3>4
  <2>9. ASSUME NEW r \in Runs, NEW c \in Calls, ResumeCall(r, c) PROVE StreamIsLog'
    BY <2>9, <2>a DEF ResumeCall, store
  <2>10. ASSUME NEW r \in Runs, NEW c \in Calls, ResumeCallInterrupts(r, c) PROVE StreamIsLog'
    BY <2>10, <2>a DEF ResumeCallInterrupts, store
  <2>11. ASSUME NEW r \in Runs, ResumeDataMissing(r) PROVE StreamIsLog'
    BY <2>11, <2>a DEF ResumeDataMissing, store
  <2>12. ASSUME NEW r \in Runs, ResumeResults(r) PROVE StreamIsLog'
    <3> DEFINE e == ResultEntry(r, Resumable(r))
    <3>1. Publish(r, e, "emit") /\ e \in Entry /\ e.by = r /\ e.kind # "user"
      BY <2>12, EntryTypes, ResumableType DEF ResumeResults, ResultEntry
    <3> HIDE DEF e
    <3> QED BY <3>1, PublishStream DEF Publish
  <2>13. ASSUME NEW r \in Runs, ModelCallsTools(r) PROVE StreamIsLog'
    <3>1. PICK b \in Batches :
            Publish(r, AssistantEntry(r, {b[i] : i \in DOMAIN b}), "tools")
      BY <2>13 DEF ModelCallsTools
    <3> DEFINE e == AssistantEntry(r, {b[i] : i \in DOMAIN b})
    <3>2. e \in Entry /\ e.by = r /\ e.kind # "user"
      BY BatchType, EntryTypes, RunnerAssumption DEF AssistantEntry
    <3> HIDE DEF e
    <3>3. Publish(r, e, "tools")
      BY <3>1 DEF e
    <3> QED BY <3>2, <3>3, PublishStream DEF Publish
  <2>14. ASSUME NEW r \in Runs, ModelAnswers(r) PROVE StreamIsLog'
    <3> DEFINE e == AssistantEntry(r, {})
    <3>1. Publish(r, e, "left") /\ e \in Entry /\ e.by = r /\ e.kind # "user"
      BY <2>14, EntryTypes DEF ModelAnswers, AssistantEntry
    <3> HIDE DEF e
    <3> QED BY <3>1, PublishStream DEF Publish
  <2>15. ASSUME NEW r \in Runs, ModelFails(r) PROVE StreamIsLog'
    BY <2>15, <2>a DEF ModelFails, store
  <2>16. ASSUME NEW r \in Runs, NEW c \in Calls, ToolReturns(r, c) PROVE StreamIsLog'
    BY <2>16, <2>a DEF ToolReturns, store
  <2>17. ASSUME NEW r \in Runs, ToolsDone(r) PROVE StreamIsLog'
    BY <2>17, <2>a DEF ToolsDone, store
  <2>18. ASSUME NEW r \in Runs, EmitResult(r) PROVE StreamIsLog'
    <3> DEFINE e == ResultEntry(r, {Head(pend[r])})
    <3>1. Head(pend[r]) \in Calls
      BY <2>18 DEF EmitResult, TypeOK
    <3>2. Publish(r, e, "emit") /\ e \in Entry /\ e.by = r /\ e.kind # "user"
      BY <2>18, <3>1, EntryTypes DEF EmitResult, ResultEntry
    <3> HIDE DEF e
    <3> QED BY <3>2, PublishStream DEF Publish
  <2>19. ASSUME NEW r \in Runs, CollectSignal(r) PROVE StreamIsLog'
    BY <2>19, <2>a DEF CollectSignal, store
  <2>20. ASSUME NEW r \in Runs, EmitInterrupt(r) PROVE StreamIsLog'
    BY <2>20, <2>a DEF EmitInterrupt, store
  <2>21. ASSUME NEW r \in Runs, StoreFails(r) PROVE StreamIsLog'
    BY <2>21, <2>a DEF StoreFails, store
  <2>22. ASSUME NEW r \in Runs, EndTurn(r) PROVE StreamIsLog'
    BY <2>22, <2>a DEF EndTurn, store
  <2>23. ASSUME NEW r \in Runs, SwitchAgent(r) PROVE StreamIsLog'
    BY <2>23, <2>a DEF SwitchAgent, store
  <2>24. ASSUME NEW r \in Runs, SwitchFails(r) PROVE StreamIsLog'
    BY <2>24, <2>a DEF SwitchFails, store
  <2>25. ASSUME NEW r \in Runs, Finalize(r) PROVE StreamIsLog'
    BY <2>25, <2>a DEF Finalize, store
  <2>26. CASE UNCHANGED vars
    BY <2>26, <2>a DEF vars, store
  <2> QED
    BY <2>1, <2>2, <2>3, <2>4, <2>5, <2>6, <2>7, <2>8, <2>9, <2>10, <2>11, <2>12,
       <2>13, <2>14, <2>15, <2>16, <2>17, <2>18, <2>19, <2>20, <2>21, <2>22, <2>23,
       <2>24, <2>25, <2>26 DEF Next, RunStep
<1> QED BY <1>1, <1>2, TypeCorrect, PTL DEF Spec
-----------------------------------------------------------------------------
\* The calls of r's step that are not turned into events yet.
Waiting(r) == {pend[r][i] : i \in DOMAIN pend[r]}

\* The calls that a step has in hand are its own: made once, by it alone, and
\* neither answered nor put to the user before it does so itself.
FreshInv ==
  /\ asked \cup Answered \subseteq Called
  /\ \A r \in Runs : Distinct(pend[r])
  /\ \A r \in Runs : Waiting(r) \cap sig[r] = {}
  /\ \A r \in Runs : Waiting(r) \cup sig[r] \subseteq Called \ (asked \cup Answered)
  /\ \A r, q \in Runs : r # q => (Waiting(r) \cup sig[r]) \cap (Waiting(q) \cup sig[q]) = {}

\* What an entry more does to the calls that are made and answered.
LEMMA AppendCalls ==
  ASSUME TypeOK, NEW e \in Entry, log' = Append(log, e)
  PROVE  /\ Called' = IF e.kind = "assistant" THEN Called \cup e.calls ELSE Called
         /\ Answered' = IF e.kind = "result" THEN Answered \cup e.calls ELSE Answered
<1>1. /\ log \in Seq(Entry) /\ Len(log) \in Nat
      /\ DOMAIN log = 1..Len(log) /\ DOMAIN log' = 1..(Len(log) + 1)
      /\ \A i \in DOMAIN log : log'[i] = log[i]
      /\ log'[Len(log) + 1] = e
  BY DEF TypeOK
<1>2. /\ \A i \in DOMAIN log' : i \in DOMAIN log \/ i = Len(log) + 1
      /\ DOMAIN log \subseteq DOMAIN log' /\ Len(log) + 1 \in DOMAIN log'
  BY <1>1
<1>3. \A c : c \in Called' <=> c \in Called \/ (e.kind = "assistant" /\ c \in e.calls)
  BY <1>1, <1>2 DEF Called, CallsOf
<1>4. \A c : c \in Answered' <=> c \in Answered \/ (e.kind = "result" /\ c \in e.calls)
  BY <1>1, <1>2 DEF Answered, CallsOf
<1>5. Called' = IF e.kind = "assistant" THEN Called \cup e.calls ELSE Called
  BY <1>3
<1>6. Answered' = IF e.kind = "result" THEN Answered \cup e.calls ELSE Answered
  BY <1>4
<1> QED BY <1>5, <1>6

\* Taking the next call of a step: the others are what is left of it.
LEMMA NextOfStep ==
  ASSUME TypeOK, NEW r \in Runs, pend[r] # <<>>, Distinct(pend[r]),
         pend' = [pend EXCEPT ![r] = Tail(@)]
  PROVE  /\ Distinct(pend'[r])
         /\ Head(pend[r]) \in Waiting(r)
         /\ Waiting(r)' = Waiting(r) \ {Head(pend[r])}
         /\ \A q \in Runs \ {r} : pend'[q] = pend[q] /\ Waiting(q)' = Waiting(q)
<1>1. pend[r] \in Seq(Calls) /\ pend'[r] = Tail(pend[r])
  BY DEF TypeOK
<1>2. /\ Distinct(Tail(pend[r])) /\ Head(pend[r]) \in ElementsOf(pend[r])
      /\ ElementsOf(Tail(pend[r])) = ElementsOf(pend[r]) \ {Head(pend[r])}
  BY <1>1, HeadAndRest
<1>3. Waiting(r) = ElementsOf(pend[r]) /\ Waiting(r)' = ElementsOf(Tail(pend[r]))
  BY <1>1 DEF Waiting, ElementsOf
<1>4. \A q \in Runs \ {r} : pend'[q] = pend[q] /\ Waiting(q)' = Waiting(q)
  BY DEF TypeOK, Waiting
<1> QED BY <1>1, <1>2, <1>3, <1>4

\* A step that has no call in hand come or go, and answers at most what was put
\* to the user, leaves them their step's own.
LEMMA FreshKept ==
  ASSUME FreshInv, Called' = Called, Answered' \subseteq Answered \cup asked,
         UNCHANGED <<asked, pend, sig>>
  PROVE  FreshInv'
<1>1. \A r \in Runs : Waiting(r)' = Waiting(r) /\ pend'[r] = pend[r] /\ sig'[r] = sig[r]
  BY DEF Waiting
<1> QED BY <1>1 DEF FreshInv

\* Every interleaving of the runs leaves the calls of a step to that step.
LEMMA CallsAreFresh == Spec => []FreshInv
<1>1. Init => FreshInv
  <2> SUFFICES ASSUME Init PROVE FreshInv
    OBVIOUS
  <2>1. Answered = {}
    BY DEF Init, Answered, CallsOf
  <2>2. \A r \in Runs : Waiting(r) = {} /\ sig[r] = {} /\ Distinct(pend[r])
    BY DEF Init, Waiting, Distinct
  <2> QED BY <2>1, <2>2 DEF Init, FreshInv
<1>2. TypeOK /\ ApprovalInv /\ FreshInv /\ [Next]_vars => FreshInv'
  <2> SUFFICES ASSUME TypeOK, ApprovalInv, FreshInv, [Next]_vars PROVE FreshInv'
    OBVIOUS
  <2>a. UNCHANGED log => Called' = Called /\ Answered' = Answered
    BY DEF Called, Answered, CallsOf
  <2>1. ASSUME NEW r \in Runs, Start(r) PROVE FreshInv'
    BY <2>1, <2>a, FreshKept DEF Start, store, step, history
  <2>2. ASSUME NEW r \in Runs, NewInvocation(r) PROVE FreshInv'
    BY <2>2, <2>a, FreshKept DEF NewInvocation, store, step, history
  <2>3. ASSUME NEW r \in Runs, NewInvocationFails(r) PROVE FreshInv'
    BY <2>3, <2>a, FreshKept DEF NewInvocationFails, store, step, history
  <2>4. ASSUME NEW r \in Runs, PersistUserMessage(r) PROVE FreshInv'
    <3>1. CASE msg[r]
      <4>1. UserEntry(r) \in Entry /\ UserEntry(r).kind = "user"
        BY EntryTypes DEF UserEntry
      <4>2. log' = Append(log, UserEntry(r))
        BY <2>4, <3>1 DEF PersistUserMessage
      <4>3. Called' = Called /\ Answered' = Answered
        BY <4>1, <4>2, AppendCalls
      <4> QED BY <2>4, <4>3, FreshKept DEF PersistUserMessage, step, history
    <3>2. CASE ~msg[r]
      BY <2>4, <2>a, <3>2, FreshKept DEF PersistUserMessage, step, history
    <3> QED BY <3>1, <3>2
  <2>5. ASSUME NEW r \in Runs, PersistUserMessageFails(r) PROVE FreshInv'
    BY <2>5, <2>a, FreshKept DEF PersistUserMessageFails, store, step, history
  <2>6. ASSUME NEW r \in Runs, BeginAgent(r) PROVE FreshInv'
    BY <2>6, <2>a, FreshKept DEF BeginAgent, store, step, history
  <2>7. ASSUME NEW r \in Runs, BeginResume(r) PROVE FreshInv'
    BY <2>7, <2>a, FreshKept DEF BeginResume, store, step, history
  <2>8. ASSUME NEW r \in Runs, ResumeRefused(r) PROVE FreshInv'
    BY <2>8, <2>a, FreshKept DEF ResumeRefused, store, step, history
  <2>9. ASSUME NEW r \in Runs, NEW c \in Calls, ResumeCall(r, c) PROVE FreshInv'
    BY <2>9, <2>a, FreshKept DEF ResumeCall, store, step, history
  <2>10. ASSUME NEW r \in Runs, NEW c \in Calls, ResumeCallInterrupts(r, c) PROVE FreshInv'
    BY <2>10, <2>a, FreshKept DEF ResumeCallInterrupts, store, step, history
  <2>11. ASSUME NEW r \in Runs, ResumeDataMissing(r) PROVE FreshInv'
    BY <2>11, <2>a, FreshKept DEF ResumeDataMissing, store, step, history
  <2>12. ASSUME NEW r \in Runs, ResumeResults(r) PROVE FreshInv'
    <3> DEFINE e == ResultEntry(r, Resumable(r))
    <3>1. e \in Entry /\ log' = Append(log, e) /\ e.kind = "result" /\ e.calls = Resumable(r)
      BY <2>12, EntryTypes, ResumableType DEF ResumeResults, Publish, ResultEntry
    <3> HIDE DEF e
    <3>2. Called' = Called /\ Answered' = Answered \cup Resumable(r)
      BY <3>1, AppendCalls
    <3>3. Resumable(r) \subseteq asked
      BY ResumableType DEF ApprovalInv
    <3> QED BY <2>12, <3>2, <3>3, FreshKept DEF ResumeResults, step, history
  <2>13. ASSUME NEW r \in Runs, ModelCallsTools(r) PROVE FreshInv'
    <3>1. PICK b \in Batches :
            /\ Publish(r, AssistantEntry(r, {b[i] : i \in DOMAIN b}), "tools")
            /\ pend' = [pend EXCEPT ![r] = b]
      BY <2>13 DEF ModelCallsTools
    <3> DEFINE cs == {b[i] : i \in DOMAIN b}
               e == AssistantEntry(r, cs)
    <3>2. cs \subseteq Calls \ Called /\ Distinct(b)
      <4>1. \A i, j \in DOMAIN b : b[i] = b[j] => i = j
        BY DEF Batches
      <4>2. PICK n \in 1..MaxBatch : b \in [1..n -> Calls \ Called]
        BY DEF Batches
      <4> QED BY <4>1, <4>2 DEF Distinct
    <3> HIDE DEF cs
    <3>3. e \in Entry /\ log' = Append(log, e) /\ e.kind = "assistant" /\ e.calls = cs
      BY <3>1, <3>2, EntryTypes DEF Publish, AssistantEntry, cs
    <3> HIDE DEF e
    <3>4. Called' = Called \cup cs /\ Answered' = Answered
      BY <3>3, AppendCalls
    <3>5. UNCHANGED <<sig, asked>>
      BY <2>13 DEF ModelCallsTools, history
    <3>6. pend'[r] = b /\ Waiting(r)' = cs
      BY <3>1 DEF TypeOK, Waiting, cs
    <3>7. \A q \in Runs \ {r} : pend'[q] = pend[q] /\ Waiting(q)' = Waiting(q)
      BY <3>1 DEF TypeOK, Waiting
    <3>8. \A q \in Runs : Distinct(pend'[q])
      BY <3>2, <3>6, <3>7 DEF FreshInv
    <3>9. Called \cap cs = {}
      BY <3>2
    <3>10. \A q \in Runs : sig'[q] \cap cs = {} /\ Waiting(q) \cap cs = {}
      BY <3>5, <3>9 DEF FreshInv
    <3>11. asked' \cup Answered' \subseteq Called' /\ cs \cap (asked' \cup Answered') = {}
      BY <3>4, <3>5, <3>9 DEF FreshInv
    <3> QED BY <3>4, <3>5, <3>6, <3>7, <3>8, <3>10, <3>11 DEF FreshInv
  <2>14. ASSUME NEW r \in Runs, ModelAnswers(r) PROVE FreshInv'
    <3> DEFINE e == AssistantEntry(r, {})
    <3>1. e \in Entry /\ log' = Append(log, e) /\ e.kind = "assistant" /\ e.calls = {}
      BY <2>14, EntryTypes DEF ModelAnswers, Publish, AssistantEntry
    <3> HIDE DEF e
    <3>2. Called' = Called /\ Answered' = Answered
      BY <3>1, AppendCalls
    <3> QED BY <2>14, <3>2, FreshKept DEF ModelAnswers, step, history
  <2>15. ASSUME NEW r \in Runs, ModelFails(r) PROVE FreshInv'
    BY <2>15, <2>a, FreshKept DEF ModelFails, store, step, history
  <2>16. ASSUME NEW r \in Runs, NEW c \in Calls, ToolReturns(r, c) PROVE FreshInv'
    BY <2>16, <2>a, FreshKept DEF ToolReturns, store, step, history
  <2>17. ASSUME NEW r \in Runs, ToolsDone(r) PROVE FreshInv'
    BY <2>17, <2>a, FreshKept DEF ToolsDone, store, step, history
  <2>18. ASSUME NEW r \in Runs, EmitResult(r) PROVE FreshInv'
    <3> DEFINE h == Head(pend[r])
               e == ResultEntry(r, {h})
    <3>1. pend[r] \in Seq(Calls) /\ pend[r] # <<>> /\ Distinct(pend[r]) /\ h \in Calls
      BY <2>18 DEF EmitResult, TypeOK, FreshInv
    <3> HIDE DEF h
    <3>2. e \in Entry /\ log' = Append(log, e) /\ e.kind = "result" /\ e.calls = {h}
      BY <2>18, <3>1, EntryTypes DEF EmitResult, Publish, ResultEntry, h
    <3> HIDE DEF e
    <3>3. Called' = Called /\ Answered' = Answered \cup {h}
      BY <3>2, AppendCalls
    <3>4. pend' = [pend EXCEPT ![r] = Tail(@)] /\ UNCHANGED <<sig, asked>>
      BY <2>18 DEF EmitResult, history
    <3>5. /\ Distinct(pend'[r]) /\ h \in Waiting(r) /\ Waiting(r)' = Waiting(r) \ {h}
          /\ \A q \in Runs \ {r} : pend'[q] = pend[q] /\ Waiting(q)' = Waiting(q)
      BY <3>1, <3>4, NextOfStep DEF h
    <3>6. \A q \in Runs : Distinct(pend'[q])
      BY <3>5 DEF FreshInv
    <3> QED BY <3>3, <3>4, <3>5, <3>6 DEF FreshInv
  <2>19. ASSUME NEW r \in Runs, CollectSignal(r) PROVE FreshInv'
    <3> DEFINE h == Head(pend[r])
    <3>1. pend[r] \in Seq(Calls) /\ pend[r] # <<>> /\ Distinct(pend[r])
      BY <2>19 DEF CollectSignal, TypeOK, FreshInv
    <3>2. /\ pend' = [pend EXCEPT ![r] = Tail(@)] /\ UNCHANGED <<log, asked>>
          /\ sig' = [sig EXCEPT ![r] = @ \cup {h}]
      BY <2>19 DEF CollectSignal, store, history
    <3>3. /\ Distinct(pend'[r]) /\ h \in Waiting(r) /\ Waiting(r)' = Waiting(r) \ {h}
          /\ \A q \in Runs \ {r} : pend'[q] = pend[q] /\ Waiting(q)' = Waiting(q)
      BY <3>1, <3>2, NextOfStep
    <3> HIDE DEF h
    <3>4. /\ \A q \in Runs : Distinct(pend'[q])
          /\ sig'[r] = sig[r] \cup {h} /\ \A q \in Runs \ {r} : sig'[q] = sig[q]
      BY <3>2, <3>3 DEF FreshInv, TypeOK
    <3> QED BY <2>a, <3>2, <3>3, <3>4 DEF FreshInv
  <2>20. ASSUME NEW r \in Runs, EmitInterrupt(r) PROVE FreshInv'
    <3>1. /\ sig'[r] = {} /\ \A q \in Runs \ {r} : sig'[q] = sig[q]
          /\ asked' = asked \cup (sig[r] \cap Guarded) /\ UNCHANGED <<log, pend>>
      BY <2>20 DEF EmitInterrupt, TypeOK
    <3>2. \A q \in Runs : pend'[q] = pend[q] /\ Waiting(q)' = Waiting(q)
      BY <3>1 DEF Waiting
    <3> QED BY <2>a, <3>1, <3>2 DEF FreshInv
  <2>21. ASSUME NEW r \in Runs, StoreFails(r) PROVE FreshInv'
    BY <2>21, <2>a, FreshKept DEF StoreFails, store, step, history
  <2>22. ASSUME NEW r \in Runs, EndTurn(r) PROVE FreshInv'
    BY <2>22, <2>a, FreshKept DEF EndTurn, store, step, history
  <2>23. ASSUME NEW r \in Runs, SwitchAgent(r) PROVE FreshInv'
    BY <2>23, <2>a, FreshKept DEF SwitchAgent, store, step, history
  <2>24. ASSUME NEW r \in Runs, SwitchFails(r) PROVE FreshInv'
    BY <2>24, <2>a, FreshKept DEF SwitchFails, store, step, history
  <2>25. ASSUME NEW r \in Runs, Finalize(r) PROVE FreshInv'
    BY <2>25, <2>a, FreshKept DEF Finalize, store, step, history
  <2>26. CASE UNCHANGED vars
    BY <2>26, <2>a, FreshKept DEF vars, store, step, history
  <2> QED
    BY <2>1, <2>2, <2>3, <2>4, <2>5, <2>6, <2>7, <2>8, <2>9, <2>10, <2>11, <2>12,
       <2>13, <2>14, <2>15, <2>16, <2>17, <2>18, <2>19, <2>20, <2>21, <2>22, <2>23,
       <2>24, <2>25, <2>26 DEF Next, RunStep
<1> QED BY <1>1, <1>2, TypeCorrect, ApprovalHolds, PTL DEF Spec
-----------------------------------------------------------------------------
\* What the answers of a run are about, and what it has made of them so far: they
\* come with its start and answer what was asked, and a resume step that is done
\* with a call was told about it, and has run its tool if that was a yes.
VerdictInv ==
  /\ \A r \in Runs : approved[r] \subseteq given[r] /\ given[r] \subseteq asked
  /\ \A r \in Runs : pc[r] = "idle" => given[r] = {}
  /\ \A r \in Runs : pc[r] = "resume" =>
       /\ Resumable(r) # {}
       /\ \A c \in Resumable(r) \ todo[r] :
            c \in given[r] /\ (c \in approved[r] => <<r, c>> \in ran)

\* What a run was told stays so, however long its resume takes.
LEMMA VerdictsStand == Spec => []VerdictInv
<1>1. Init => VerdictInv
  BY DEF Init, VerdictInv
<1>2. TypeOK /\ VerdictInv /\ [Next]_vars => VerdictInv'
  <2> SUFFICES ASSUME TypeOK, VerdictInv, [Next]_vars PROVE VerdictInv'
    OBVIOUS
  <2> USE DEF TypeOK, VerdictInv, Resumable, store, inputs, control, history
  <2>1. ASSUME NEW r \in Runs, Start(r) PROVE VerdictInv'
    <3>1. PICK d \in SUBSET asked : \E y \in SUBSET d :
            given' = [given EXCEPT ![r] = d] /\ approved' = [approved EXCEPT ![r] = y]
      BY <2>1 DEF Start
    <3>2. pc' = [pc EXCEPT ![r] = "started"] /\ UNCHANGED <<asked, ran, loaded, agent, todo>>
      BY <2>1 DEF Start, step
    <3> QED BY <3>1, <3>2
  <2>2. ASSUME NEW r \in Runs, NewInvocation(r) PROVE VerdictInv'
    BY <2>2 DEF NewInvocation, step
  <2>3. ASSUME NEW r \in Runs, NewInvocationFails(r) PROVE VerdictInv'
    BY <2>3 DEF NewInvocationFails, Fail, Yield, step
  <2>4. ASSUME NEW r \in Runs, PersistUserMessage(r) PROVE VerdictInv'
    BY <2>4 DEF PersistUserMessage, step
  <2>5. ASSUME NEW r \in Runs, PersistUserMessageFails(r) PROVE VerdictInv'
    BY <2>5 DEF PersistUserMessageFails, Fail, Yield, step
  <2>6. ASSUME NEW r \in Runs, BeginAgent(r) PROVE VerdictInv'
    BY <2>6 DEF BeginAgent, Yield, step
  <2>7. ASSUME NEW r \in Runs, BeginResume(r) PROVE VerdictInv'
    BY <2>7 DEF BeginResume, Yield, step
  <2>8. ASSUME NEW r \in Runs, ResumeRefused(r) PROVE VerdictInv'
    BY <2>8 DEF ResumeRefused, Fail, Yield, step
  <2>9. ASSUME NEW r \in Runs, NEW c \in Calls, ResumeCall(r, c) PROVE VerdictInv'
    BY <2>9 DEF ResumeCall, step
  <2>10. ASSUME NEW r \in Runs, NEW c \in Calls, ResumeCallInterrupts(r, c) PROVE VerdictInv'
    BY <2>10 DEF ResumeCallInterrupts, Fail, Yield, step
  <2>11. ASSUME NEW r \in Runs, ResumeDataMissing(r) PROVE VerdictInv'
    BY <2>11 DEF ResumeDataMissing, Fail, Yield, step
  <2>12. ASSUME NEW r \in Runs, ResumeResults(r) PROVE VerdictInv'
    BY <2>12 DEF ResumeResults, Publish, Yield, step
  <2>13. ASSUME NEW r \in Runs, ModelCallsTools(r) PROVE VerdictInv'
    BY <2>13 DEF ModelCallsTools, Publish, Yield, step
  <2>14. ASSUME NEW r \in Runs, ModelAnswers(r) PROVE VerdictInv'
    BY <2>14 DEF ModelAnswers, Publish, Yield, step
  <2>15. ASSUME NEW r \in Runs, ModelFails(r) PROVE VerdictInv'
    BY <2>15 DEF ModelFails, Fail, Yield, step
  <2>16. ASSUME NEW r \in Runs, NEW c \in Calls, ToolReturns(r, c) PROVE VerdictInv'
    BY <2>16 DEF ToolReturns, step
  <2>17. ASSUME NEW r \in Runs, ToolsDone(r) PROVE VerdictInv'
    BY <2>17 DEF ToolsDone, step
  <2>18. ASSUME NEW r \in Runs, EmitResult(r) PROVE VerdictInv'
    BY <2>18 DEF EmitResult, Publish, Yield, step
  <2>19. ASSUME NEW r \in Runs, CollectSignal(r) PROVE VerdictInv'
    BY <2>19 DEF CollectSignal, step
  <2>20. ASSUME NEW r \in Runs, EmitInterrupt(r) PROVE VerdictInv'
    BY <2>20 DEF EmitInterrupt, Yield, step
  <2>21. ASSUME NEW r \in Runs, StoreFails(r) PROVE VerdictInv'
    BY <2>21 DEF StoreFails, Fail, Yield, step
  <2>22. ASSUME NEW r \in Runs, EndTurn(r) PROVE VerdictInv'
    BY <2>22 DEF EndTurn, step
  <2>23. ASSUME NEW r \in Runs, SwitchAgent(r) PROVE VerdictInv'
    BY <2>23 DEF SwitchAgent, step
  <2>24. ASSUME NEW r \in Runs, SwitchFails(r) PROVE VerdictInv'
    BY <2>24 DEF SwitchFails, Fail, Yield, step
  <2>25. ASSUME NEW r \in Runs, Finalize(r) PROVE VerdictInv'
    BY <2>25 DEF Finalize, step
  <2>26. CASE UNCHANGED vars
    BY <2>26 DEF vars, step
  <2> QED
    BY <2>1, <2>2, <2>3, <2>4, <2>5, <2>6, <2>7, <2>8, <2>9, <2>10, <2>11, <2>12,
       <2>13, <2>14, <2>15, <2>16, <2>17, <2>18, <2>19, <2>20, <2>21, <2>22, <2>23,
       <2>24, <2>25, <2>26 DEF Next, RunStep
<1> QED BY <1>1, <1>2, TypeCorrect, PTL DEF Spec

-----------------------------------------------------------------------------
(* The runner implements Approval: what each of its steps is there. *)

\* A step that asks, tells and runs nothing guarded, and answers nothing guarded,
\* is none of Approval's.
LEMMA GateStutters ==
  ASSUME UNCHANGED <<given, approved>>,
         \A c \in Guarded : (c \in Answered' <=> c \in Answered) /\ (c \in asked' <=> c \in asked),
         \A r \in Runs, c \in Guarded : <<r, c>> \in ran' <=> <<r, c>> \in ran
  PROVE  UNCHANGED Gate!vars
<1>1. (ran \cap (Runs \X Guarded))' = ran \cap (Runs \X Guarded)
  OBVIOUS
<1> QED BY <1>1 DEF Gate!vars

\* A checkpoint that is saved for calls no one has heard of is an Ask.
LEMMA GateAsks ==
  ASSUME NEW S \in SUBSET Guarded, S # {}, S \cap (asked \cup Answered) = {},
         asked' = asked \cup S, Answered' = Answered, UNCHANGED <<given, approved, ran>>
  PROVE  Gate!Next
<1>1. Gate!Ask(S)
  BY DEF Gate!Ask
<1> QED BY <1>1 DEF Gate!Next

\* The start of a run is a Resume, with no verdict where it has no answer.
LEMMA GateResumes ==
  ASSUME NEW r \in Runs, TypeOK, TypeOK', given[r] = {}, given'[r] \subseteq asked,
         \A q \in Runs \ {r} : given'[q] = given[q] /\ approved'[q] = approved[q],
         Answered' = Answered, UNCHANGED <<asked, ran>>
  PROVE  Gate!Next
<1>1. PICK v \in [Guarded -> Gate!Verdict] :
        v = [c \in Guarded |-> IF c \notin given'[r] THEN "none"
                              ELSE IF c \in approved'[r] THEN "yes" ELSE "no"]
  BY DEF Gate!Verdict
<1>2. Gate!Resume(r, v)
  BY <1>1 DEF Gate!Resume
<1> QED BY <1>2 DEF Gate!Next

\* Running the tool of a call that was approved is a Perform.
LEMMA GatePerforms ==
  ASSUME NEW r \in Runs, NEW c \in Guarded, c \in given[r], c \in approved[r],
         ran' = ran \cup {<<r, c>>}, Answered' = Answered, UNCHANGED <<given, approved, asked>>
  PROVE  Gate!Next
<1>1. (ran \cap (Runs \X Guarded))' = (ran \cap (Runs \X Guarded)) \cup {<<r, c>>}
  OBVIOUS
<1>2. Gate!Perform(r, c)
  BY <1>1 DEF Gate!Perform
<1> QED BY <1>2 DEF Gate!Next

\* The results of a resume step are an Answer: each of a call that was turned
\* down, or was approved and has run.
LEMMA GateAnswers ==
  ASSUME NEW r \in Runs, NEW S \in SUBSET Guarded, S # {},
         \A c \in S : c \in given[r] /\ (c \in approved[r] => <<r, c>> \in ran),
         Answered' = Answered \cup S, UNCHANGED <<given, approved, asked, ran>>
  PROVE  Gate!Next
<1>1. Gate!Answer(r, S)
  BY DEF Gate!Answer
<1> QED BY <1>1 DEF Gate!Next

\* The runner keeps what interrupt.WithApproval promises, in every interleaving of
\* its runs: it implements Approval, with the checkpoints as the questions, the
\* resume data as the verdicts and the log as the answers.
THEOREM ImplementsApproval == Spec => KeepsApproval
<1>1. Init => Gate!Init
  <2> SUFFICES ASSUME Init PROVE Gate!Init
    OBVIOUS
  <2>1. Answered = {}
    BY DEF Init, Answered, CallsOf
  <2> QED BY <2>1 DEF Init, Gate!Init
<1>2. /\ TypeOK /\ TypeOK' /\ ApprovalInv /\ FreshInv /\ VerdictInv
      /\ [Next]_vars
      => [Gate!Next]_(Gate!vars)
  <2> SUFFICES ASSUME TypeOK, TypeOK', ApprovalInv, FreshInv, VerdictInv, [Next]_vars
               PROVE  Gate!Next \/ UNCHANGED Gate!vars
    OBVIOUS
  <2>a. UNCHANGED log => Answered' = Answered
    BY DEF Answered, CallsOf
  <2>1. ASSUME NEW r \in Runs, Start(r) PROVE Gate!Next \/ UNCHANGED Gate!vars
    <3>1. PICK d \in SUBSET asked : \E y \in SUBSET d :
            given' = [given EXCEPT ![r] = d] /\ approved' = [approved EXCEPT ![r] = y]
      BY <2>1 DEF Start
    <3>2. given[r] = {} /\ UNCHANGED <<log, asked, ran>>
      BY <2>1 DEF Start, VerdictInv, store, history
    <3>3. given'[r] \subseteq asked /\ \A q \in Runs \ {r} : given'[q] = given[q] /\ approved'[q] = approved[q]
      BY <3>1 DEF TypeOK
    <3> QED BY <2>a, <3>2, <3>3, GateResumes
  <2>2. ASSUME NEW r \in Runs, NewInvocation(r) PROVE Gate!Next \/ UNCHANGED Gate!vars
    BY <2>2, <2>a, GateStutters DEF NewInvocation, store, inputs, history
  <2>3. ASSUME NEW r \in Runs, NewInvocationFails(r) PROVE Gate!Next \/ UNCHANGED Gate!vars
    BY <2>3, <2>a, GateStutters DEF NewInvocationFails, store, inputs, history
  <2>4. ASSUME NEW r \in Runs, PersistUserMessage(r) PROVE Gate!Next \/ UNCHANGED Gate!vars
    <3>1. CASE msg[r]
      <4>1. UserEntry(r) \in Entry /\ UserEntry(r).kind = "user"
        BY EntryTypes DEF UserEntry
      <4>2. log' = Append(log, UserEntry(r))
        BY <2>4, <3>1 DEF PersistUserMessage
      <4>3. Answered' = Answered
        BY <4>1, <4>2, AppendCalls
      <4> QED BY <2>4, <4>3, GateStutters DEF PersistUserMessage, inputs, history
    <3>2. CASE ~msg[r]
      BY <2>4, <2>a, <3>2, GateStutters DEF PersistUserMessage, inputs, history
    <3> QED BY <3>1, <3>2
  <2>5. ASSUME NEW r \in Runs, PersistUserMessageFails(r) PROVE Gate!Next \/ UNCHANGED Gate!vars
    BY <2>5, <2>a, GateStutters DEF PersistUserMessageFails, store, inputs, history
  <2>6. ASSUME NEW r \in Runs, BeginAgent(r) PROVE Gate!Next \/ UNCHANGED Gate!vars
    BY <2>6, <2>a, GateStutters DEF BeginAgent, store, inputs, history
  <2>7. ASSUME NEW r \in Runs, BeginResume(r) PROVE Gate!Next \/ UNCHANGED Gate!vars
    BY <2>7, <2>a, GateStutters DEF BeginResume, store, inputs, history
  <2>8. ASSUME NEW r \in Runs, ResumeRefused(r) PROVE Gate!Next \/ UNCHANGED Gate!vars
    BY <2>8, <2>a, GateStutters DEF ResumeRefused, store, inputs, history
  <2>9. ASSUME NEW r \in Runs, NEW c \in Calls, ResumeCall(r, c) PROVE Gate!Next \/ UNCHANGED Gate!vars
    <3>1. c \in Guarded /\ c \in given[r]
      BY <2>9 DEF ResumeCall, ApprovalInv
    <3>2. UNCHANGED <<given, approved, log, asked>>
      BY <2>9 DEF ResumeCall, store, inputs, history
    <3> QED BY <2>9, <2>a, <3>1, <3>2, GatePerforms, GateStutters DEF ResumeCall
  <2>10. ASSUME NEW r \in Runs, NEW c \in Calls, ResumeCallInterrupts(r, c) PROVE Gate!Next \/ UNCHANGED Gate!vars
    <3>1. c \in Guarded /\ c \in given[r]
      BY <2>10 DEF ResumeCallInterrupts, ApprovalInv
    <3>2. UNCHANGED <<given, approved, log, asked>>
      BY <2>10 DEF ResumeCallInterrupts, store, inputs, history
    <3> QED BY <2>10, <2>a, <3>1, <3>2, GatePerforms, GateStutters DEF ResumeCallInterrupts
  <2>11. ASSUME NEW r \in Runs, ResumeDataMissing(r) PROVE Gate!Next \/ UNCHANGED Gate!vars
    BY <2>11, <2>a, GateStutters DEF ResumeDataMissing, store, inputs, history
  <2>12. ASSUME NEW r \in Runs, ResumeResults(r) PROVE Gate!Next \/ UNCHANGED Gate!vars
    <3> DEFINE e == ResultEntry(r, Resumable(r))
    <3>1. e \in Entry /\ log' = Append(log, e) /\ e.kind = "result" /\ e.calls = Resumable(r)
      BY <2>12, EntryTypes, ResumableType DEF ResumeResults, Publish, ResultEntry
    <3> HIDE DEF e
    <3>2. Answered' = Answered \cup Resumable(r)
      BY <3>1, AppendCalls
    <3>3. Resumable(r) \subseteq Guarded
      BY ResumableType DEF ApprovalInv
    <3>4. \A c \in Resumable(r) : c \in given[r] /\ (c \in approved[r] => <<r, c>> \in ran)
      BY <2>12 DEF ResumeResults, VerdictInv
    <3>5. UNCHANGED <<given, approved, asked, ran>>
      BY <2>12 DEF ResumeResults, inputs, history
    <3>6. Resumable(r) # {}
      BY <2>12 DEF ResumeResults, VerdictInv
    <3> QED BY <3>2, <3>3, <3>4, <3>5, <3>6, GateAnswers
  <2>13. ASSUME NEW r \in Runs, ModelCallsTools(r) PROVE Gate!Next \/ UNCHANGED Gate!vars
    <3>1. PICK b \in Batches :
            Publish(r, AssistantEntry(r, {b[i] : i \in DOMAIN b}), "tools")
      BY <2>13 DEF ModelCallsTools
    <3> DEFINE e == AssistantEntry(r, {b[i] : i \in DOMAIN b})
    <3>2. e \in Entry /\ e.kind = "assistant"
      BY BatchType, EntryTypes, RunnerAssumption DEF AssistantEntry
    <3> HIDE DEF e
    <3>3. Answered' = Answered
      BY <3>1, <3>2, AppendCalls DEF Publish, e
    <3> QED BY <2>13, <3>3, GateStutters DEF ModelCallsTools, inputs, history
  <2>14. ASSUME NEW r \in Runs, ModelAnswers(r) PROVE Gate!Next \/ UNCHANGED Gate!vars
    <3> DEFINE e == AssistantEntry(r, {})
    <3>1. e \in Entry /\ log' = Append(log, e) /\ e.kind = "assistant"
      BY <2>14, EntryTypes DEF ModelAnswers, Publish, AssistantEntry
    <3> HIDE DEF e
    <3>2. Answered' = Answered
      BY <3>1, AppendCalls
    <3> QED BY <2>14, <3>2, GateStutters DEF ModelAnswers, inputs, history
  <2>15. ASSUME NEW r \in Runs, ModelFails(r) PROVE Gate!Next \/ UNCHANGED Gate!vars
    BY <2>15, <2>a, GateStutters DEF ModelFails, store, inputs, history
  <2>16. ASSUME NEW r \in Runs, NEW c \in Calls, ToolReturns(r, c) PROVE Gate!Next \/ UNCHANGED Gate!vars
    <3>1. \A q \in Runs, k \in Guarded : <<q, k>> \in ran' <=> <<q, k>> \in ran
      BY <2>16 DEF ToolReturns
    <3> QED BY <2>16, <2>a, <3>1, GateStutters DEF ToolReturns, store, inputs, history
  <2>17. ASSUME NEW r \in Runs, ToolsDone(r) PROVE Gate!Next \/ UNCHANGED Gate!vars
    BY <2>17, <2>a, GateStutters DEF ToolsDone, store, inputs, history
  <2>18. ASSUME NEW r \in Runs, EmitResult(r) PROVE Gate!Next \/ UNCHANGED Gate!vars
    <3> DEFINE h == Head(pend[r])
               e == ResultEntry(r, {h})
    <3>1. h \in Calls /\ h \notin Guarded
      BY <2>18 DEF EmitResult, TypeOK, Interrupting
    <3> HIDE DEF h
    <3>2. e \in Entry /\ log' = Append(log, e) /\ e.kind = "result" /\ e.calls = {h}
      BY <2>18, <3>1, EntryTypes DEF EmitResult, Publish, ResultEntry, h
    <3> HIDE DEF e
    <3>3. Answered' = Answered \cup {h}
      BY <3>2, AppendCalls
    <3> QED BY <2>18, <3>1, <3>3, GateStutters DEF EmitResult, inputs, history
  <2>19. ASSUME NEW r \in Runs, CollectSignal(r) PROVE Gate!Next \/ UNCHANGED Gate!vars
    BY <2>19, <2>a, GateStutters DEF CollectSignal, store, inputs, history
  <2>20. ASSUME NEW r \in Runs, EmitInterrupt(r) PROVE Gate!Next \/ UNCHANGED Gate!vars
    <3>1. asked' = asked \cup (sig[r] \cap Guarded) /\ UNCHANGED <<log, given, approved, ran>>
      BY <2>20 DEF EmitInterrupt, inputs
    <3>2. (sig[r] \cap Guarded) \cap (asked \cup Answered) = {}
      BY DEF FreshInv
    <3>3. CASE sig[r] \cap Guarded = {}
      BY <2>a, <3>1, <3>3, GateStutters
    <3>4. CASE sig[r] \cap Guarded # {}
      BY <2>a, <3>1, <3>2, <3>4, GateAsks
    <3> QED BY <3>3, <3>4
  <2>21. ASSUME NEW r \in Runs, StoreFails(r) PROVE Gate!Next \/ UNCHANGED Gate!vars
    BY <2>21, <2>a, GateStutters DEF StoreFails, store, inputs, history
  <2>22. ASSUME NEW r \in Runs, EndTurn(r) PROVE Gate!Next \/ UNCHANGED Gate!vars
    BY <2>22, <2>a, GateStutters DEF EndTurn, store, inputs, history
  <2>23. ASSUME NEW r \in Runs, SwitchAgent(r) PROVE Gate!Next \/ UNCHANGED Gate!vars
    BY <2>23, <2>a, GateStutters DEF SwitchAgent, store, inputs, history
  <2>24. ASSUME NEW r \in Runs, SwitchFails(r) PROVE Gate!Next \/ UNCHANGED Gate!vars
    BY <2>24, <2>a, GateStutters DEF SwitchFails, store, inputs, history
  <2>25. ASSUME NEW r \in Runs, Finalize(r) PROVE Gate!Next \/ UNCHANGED Gate!vars
    BY <2>25, <2>a, GateStutters DEF Finalize, store, inputs, history
  <2>26. CASE UNCHANGED vars
    BY <2>26, <2>a, GateStutters DEF vars, store, inputs, history
  <2> QED
    BY <2>1, <2>2, <2>3, <2>4, <2>5, <2>6, <2>7, <2>8, <2>9, <2>10, <2>11, <2>12,
       <2>13, <2>14, <2>15, <2>16, <2>17, <2>18, <2>19, <2>20, <2>21, <2>22, <2>23,
       <2>24, <2>25, <2>26 DEF Next, RunStep
<1> QED
  BY <1>1, <1>2, TypeCorrect, ApprovalHolds, CallsAreFresh, VerdictsStand, PTL
  DEF Spec, KeepsApproval, Gate!Spec

-----------------------------------------------------------------------------
(* One run at a time: what the runner promises only then. *)

InProgress(r) == pc[r] \notin Over \cup {"idle"}

\* At most one run is in progress.
Alone == \A r, q \in Runs : InProgress(r) /\ InProgress(q) => r = q

\* A run has nothing of a checkpoint before newInvocation loads it, and executes
\* guarded calls of that one only.
LoadsOnce ==
  \A r \in Runs : pc[r] \in {"idle", "started"} => loaded[r] = NoCheckpoint /\ ~wrote[r]
RanIsLoaded == \A r \in Runs, c \in Guarded : <<r, c>> \in ran => c \in loaded[r].calls

\* The run in progress has the checkpoint to itself: until it saves one of its own
\* the stored one is what it loaded, and what it resumed of that is answered once
\* the resume step is over; after that the two have nothing in common.
Exclusive ==
  \A r \in Runs : InProgress(r) =>
    /\ wrote[r] => checkpoint.calls \cap loaded[r].calls = {}
    /\ IsResume(r) /\ ~wrote[r] /\ pc[r] # "started" => loaded[r] = checkpoint
    /\ IsResume(r) /\ ~wrote[r] /\ pc[r] \in {"emit", "model", "tools", "left"}
         => loaded[r].calls \subseteq Answered

\* A call that ran in a run that is done is pending no more, anywhere.
Used ==
  \A r \in Runs, c \in Guarded : <<r, c>> \in ran /\ pc[r] = "done" =>
    c \notin checkpoint.calls /\ \A q \in Runs : InProgress(q) => c \notin loaded[q].calls

SerialInv == Alone /\ LoadsOnce /\ RanIsLoaded /\ Exclusive /\ Used /\ ApprovalUsedOnce

\* Where at most one run is in progress, another starts when none is.
LEMMA NoneInProgress ==
  ASSUME MaxActive = 1, Alone, Cardinality(Active) < MaxActive
  PROVE  \A r \in Runs : ~InProgress(r)
<1> SUFFICES ASSUME NEW r \in Runs, InProgress(r) PROVE FALSE
  OBVIOUS
<1>1. Active = {r}
  BY DEF Active, Alone, InProgress
<1>2. Cardinality({r}) = 1
  BY FS_Singleton
<1> QED BY <1>1, <1>2

\* What the steps of a run are that leave the checkpoint alone and do not end it
\* well: they run what it loaded, at most, and take back no answer.
StepOf(r) ==
  /\ InProgress(r)
  /\ pc'[r] \notin {"idle", "started", "done"} /\ \A q \in Runs \ {r} : pc'[q] = pc[q]
  /\ UNCHANGED <<checkpoint, loaded, wrote, given>>
  /\ Answered \subseteq Answered'
  /\ \A q \in Runs, c \in Guarded :
       <<q, c>> \in ran' => <<q, c>> \in ran \/ (q = r /\ c \in loaded[r].calls)
  /\ pc'[r] \in {"failed", "aborted"} \/ pc[r] # "started"
  /\ IsResume(r) /\ ~wrote[r] /\ pc'[r] \in {"emit", "model", "tools", "left"}
       => loaded[r].calls \subseteq Answered'

LEMMA QuietStep ==
  ASSUME TypeOK, SerialInv, NEW r \in Runs, StepOf(r)
  PROVE  SerialInv'
<1>1. \A q \in Runs : InProgress(q)' => InProgress(q) /\ q = r
  BY DEF StepOf, SerialInv, Alone, InProgress
<1>2. Alone' /\ LoadsOnce' /\ RanIsLoaded'
  BY <1>1 DEF StepOf, SerialInv, Alone, LoadsOnce, RanIsLoaded
<1>3. Exclusive'
  BY <1>1 DEF StepOf, SerialInv, Exclusive, IsResume, InProgress, Over
<1>4. \A q \in Runs, c \in Guarded : <<q, c>> \in ran' /\ pc'[q] = "done" => <<q, c>> \in ran /\ pc[q] = "done"
  BY DEF StepOf
<1>5. Used'
  BY <1>1, <1>4 DEF StepOf, SerialInv, Used
<1>6. ApprovalUsedOnce'
  <2> SUFFICES ASSUME NEW p \in Runs, NEW c \in Guarded, <<p, c>> \in ran, pc[p] = "done",
                      pc'[p] = "done", NEW q \in Runs \ {p}, <<q, c>> \in ran'
               PROVE  c \notin checkpoint.calls /\ pc'[q] \in Over \ {"done"}
    BY <1>4, <1>5 DEF ApprovalUsedOnce, Used, StepOf
  <2>1. c \notin checkpoint.calls /\ (InProgress(r) => c \notin loaded[r].calls)
    BY DEF SerialInv, Used
  <2>2. <<q, c>> \in ran
    BY <2>1 DEF StepOf
  <2>3. pc[q] \in Over \ {"done"} /\ q # r
    BY <2>2 DEF SerialInv, ApprovalUsedOnce, StepOf, InProgress
  <2> QED BY <2>1, <2>3 DEF StepOf
<1> QED BY <1>2, <1>3, <1>5, <1>6 DEF SerialInv

\* A caller that waits for each run to end before the next (MaxActive = 1).
LEMMA RunsAreSerial ==
  ASSUME MaxActive = 1
  PROVE  Spec => []SerialInv
<1>1. Init => SerialInv
  BY DEF Init, SerialInv, Alone, InProgress, LoadsOnce, RanIsLoaded, Exclusive, Used,
     ApprovalUsedOnce, Over
<1>2. /\ TypeOK /\ ApprovalInv /\ FreshInv /\ VerdictInv /\ SerialInv /\ [Next]_vars
      => SerialInv'
  <2> SUFFICES ASSUME TypeOK, ApprovalInv, FreshInv, VerdictInv, SerialInv, [Next]_vars
               PROVE  SerialInv'
    OBVIOUS
  <2>a. UNCHANGED log => Answered' = Answered
    BY DEF Answered, CallsOf
  <2> USE DEF TypeOK, Over
  <2>1. ASSUME NEW r \in Runs, Start(r) PROVE SerialInv'
    <3>1. \A q \in Runs : ~InProgress(q)
      BY <2>1, NoneInProgress DEF Start, SerialInv
    <3>2. /\ pc' = [pc EXCEPT ![r] = "started"] /\ pc[r] = "idle"
          /\ \A q \in Runs \ {r} : given'[q] = given[q]
          /\ UNCHANGED <<log, checkpoint, loaded, wrote, ran>>
      BY <2>1 DEF Start, store, control, history
    <3>3. \A q \in Runs : pc'[q] = IF q = r THEN "started" ELSE pc[q]
      BY <3>2
    <3>4. Alone' /\ \A q \in Runs : InProgress(q)' => q = r
      BY <3>1, <3>3 DEF Alone, InProgress
    <3>5. LoadsOnce' /\ RanIsLoaded'
      BY <3>2, <3>3 DEF SerialInv, LoadsOnce, RanIsLoaded
    <3>6. Exclusive'
      BY <3>2, <3>3, <3>4 DEF Exclusive, SerialInv, LoadsOnce
    <3>7. loaded[r].calls = {}
      BY <3>2 DEF SerialInv, LoadsOnce, NoCheckpoint
    <3>8. Used' /\ ApprovalUsedOnce'
      BY <3>2, <3>3, <3>4, <3>7 DEF SerialInv, Used, ApprovalUsedOnce, InProgress, RanIsLoaded
    <3> QED BY <3>4, <3>5, <3>6, <3>8 DEF SerialInv
  <2>2. ASSUME NEW r \in Runs, NewInvocation(r) PROVE SerialInv'
    <3>1. /\ pc' = [pc EXCEPT ![r] = "opened"] /\ pc[r] = "started"
          /\ \A q \in Runs \ {r} : loaded'[q] = loaded[q]
          /\ IF IsResume(r) THEN loaded'[r] = checkpoint ELSE loaded'[r] = loaded[r]
          /\ UNCHANGED <<log, checkpoint, given, wrote, ran>>
      BY <2>2 DEF NewInvocation, store, inputs, history
    <3>2. \A q \in Runs : pc'[q] = IF q = r THEN "opened" ELSE pc[q]
      BY <3>1
    <3>3. loaded[r] = NoCheckpoint /\ ~wrote[r] /\ InProgress(r)
      BY <3>1 DEF SerialInv, LoadsOnce, InProgress, Over
    <3>4. \A q \in Runs : InProgress(q)' => q = r
      BY <3>2, <3>3 DEF SerialInv, Alone, InProgress
    <3>5. \A c \in Guarded : <<r, c>> \notin ran
      BY <3>3 DEF SerialInv, RanIsLoaded, NoCheckpoint
    <3>6. Alone' /\ LoadsOnce' /\ RanIsLoaded'
      BY <3>1, <3>2, <3>4, <3>5 DEF SerialInv, Alone, LoadsOnce, RanIsLoaded
    <3>7. Exclusive'
      BY <3>1, <3>2, <3>3, <3>4 DEF Exclusive, IsResume
    <3>8. Used'
      BY <3>1, <3>2, <3>3, <3>4 DEF SerialInv, Used, NoCheckpoint
    <3>9. ApprovalUsedOnce'
      BY <3>1, <3>2, <3>5 DEF SerialInv, ApprovalUsedOnce
    <3> QED BY <3>6, <3>7, <3>8, <3>9 DEF SerialInv
  <2>3. ASSUME NEW r \in Runs, NewInvocationFails(r) PROVE SerialInv'
    <3>1. StepOf(r)
      BY <2>3, <2>a DEF NewInvocationFails, Fail, Yield, StepOf, Exclusive, SerialInv,
        InProgress, IsResume, store, inputs, control, step, history
    <3> QED BY <3>1, QuietStep
  <2>4. ASSUME NEW r \in Runs, PersistUserMessage(r) PROVE SerialInv'
    <3>8. Answered \subseteq Answered'
      <4>1. UserEntry(r) \in Entry
        BY EntryTypes
      <4> QED BY <2>4, <2>a, <4>1, AppendAnswers DEF PersistUserMessage
    <3>9. StepOf(r)
      BY <2>4, <3>8 DEF PersistUserMessage, StepOf, Exclusive, SerialInv, InProgress, IsResume,
        store, inputs, control, step, history
    <3> QED BY <3>9, QuietStep
  <2>5. ASSUME NEW r \in Runs, PersistUserMessageFails(r) PROVE SerialInv'
    <3>1. StepOf(r)
      BY <2>5, <2>a DEF PersistUserMessageFails, Fail, Yield, StepOf, Exclusive, SerialInv,
        InProgress, IsResume, store, inputs, control, step, history
    <3> QED BY <3>1, QuietStep
  <2>6. ASSUME NEW r \in Runs, BeginAgent(r) PROVE SerialInv'
    <3>1. StepOf(r)
      BY <2>6, <2>a DEF BeginAgent, Yield, StepOf, Exclusive, SerialInv, InProgress, IsResume,
        store, inputs, control, step, history
    <3> QED BY <3>1, QuietStep
  <2>7. ASSUME NEW r \in Runs, BeginResume(r) PROVE SerialInv'
    <3>1. StepOf(r)
      BY <2>7, <2>a DEF BeginResume, Yield, StepOf, Exclusive, SerialInv, InProgress, IsResume,
        store, inputs, control, step, history
    <3> QED BY <3>1, QuietStep
  <2>8. ASSUME NEW r \in Runs, ResumeRefused(r) PROVE SerialInv'
    <3>1. StepOf(r)
      BY <2>8, <2>a DEF ResumeRefused, Fail, Yield, StepOf, Exclusive, SerialInv, InProgress,
        IsResume, store, inputs, control, step, history
    <3> QED BY <3>1, QuietStep
  <2>9. ASSUME NEW r \in Runs, NEW c \in Calls, ResumeCall(r, c) PROVE SerialInv'
    <3>1. c \in loaded[r].calls
      BY <2>9 DEF ResumeCall, ApprovalInv
    <3>2. StepOf(r)
      BY <2>9, <2>a, <3>1 DEF ResumeCall, StepOf, Exclusive, SerialInv, InProgress, IsResume,
        store,
         inputs, control, history
    <3> QED BY <3>2, QuietStep
  <2>10. ASSUME NEW r \in Runs, NEW c \in Calls, ResumeCallInterrupts(r, c) PROVE SerialInv'
    <3>1. c \in loaded[r].calls
      BY <2>10 DEF ResumeCallInterrupts, ApprovalInv
    <3>2. StepOf(r)
      BY <2>10, <2>a, <3>1 DEF ResumeCallInterrupts, Fail, Yield, StepOf, Exclusive, SerialInv,
         InProgress, IsResume, store, inputs, control, history
    <3> QED BY <3>2, QuietStep
  <2>11. ASSUME NEW r \in Runs, ResumeDataMissing(r) PROVE SerialInv'
    <3>1. StepOf(r)
      BY <2>11, <2>a DEF ResumeDataMissing, Fail, Yield, StepOf, Exclusive, SerialInv,
        InProgress, IsResume, store, inputs, control, step, history
    <3> QED BY <3>1, QuietStep
  <2>12. ASSUME NEW r \in Runs, ResumeResults(r) PROVE SerialInv'
    <3> DEFINE e == ResultEntry(r, Resumable(r))
    <3>1. e \in Entry /\ log' = Append(log, e) /\ e.kind = "result" /\ e.calls = Resumable(r)
      BY <2>12, EntryTypes, ResumableType DEF ResumeResults, Publish, ResultEntry
    <3> HIDE DEF e
    <3>2. Answered \subseteq Answered' /\ Resumable(r) \subseteq Answered'
      BY <3>1, AppendAnswers
    <3>3. Resumable(r) = loaded[r].calls
      BY <2>12 DEF ResumeResults, VerdictInv, Resumable
    <3>4. StepOf(r)
      BY <2>12, <3>2, <3>3 DEF ResumeResults, Publish, Yield, StepOf, Exclusive, SerialInv,
        InProgress,
         IsResume, inputs, step, history
    <3> QED BY <3>4, QuietStep
  <2>13. ASSUME NEW r \in Runs, ModelCallsTools(r) PROVE SerialInv'
    <3>1. PICK b \in Batches :
            Publish(r, AssistantEntry(r, {b[i] : i \in DOMAIN b}), "tools")
      BY <2>13 DEF ModelCallsTools
    <3> DEFINE e == AssistantEntry(r, {b[i] : i \in DOMAIN b})
    <3>2. e \in Entry
      BY BatchType, EntryTypes, RunnerAssumption
    <3>3. log' = Append(log, e) /\ Yield(r, "tools")
      BY <3>1 DEF Publish
    <3> HIDE DEF e
    <3>4. Answered \subseteq Answered'
      BY <3>2, <3>3, AppendAnswers
    <3>5. StepOf(r)
      BY <2>13, <3>3, <3>4 DEF ModelCallsTools, Yield, StepOf, Exclusive, SerialInv, InProgress,
         IsResume, inputs, control, history
    <3> QED BY <3>5, QuietStep
  <2>14. ASSUME NEW r \in Runs, ModelAnswers(r) PROVE SerialInv'
    <3>8. Answered \subseteq Answered'
      BY <2>14, EntryTypes, AppendAnswers DEF ModelAnswers, Publish
    <3>9. StepOf(r)
      BY <2>14, <3>8 DEF ModelAnswers, Publish, Yield, StepOf, Exclusive, SerialInv,
        InProgress, IsResume, store, inputs, control, step, history
    <3> QED BY <3>9, QuietStep
  <2>15. ASSUME NEW r \in Runs, ModelFails(r) PROVE SerialInv'
    <3>1. StepOf(r)
      BY <2>15, <2>a DEF ModelFails, Fail, Yield, StepOf, Exclusive, SerialInv, InProgress,
        IsResume, store, inputs, control, step, history
    <3> QED BY <3>1, QuietStep
  <2>16. ASSUME NEW r \in Runs, NEW c \in Calls, ToolReturns(r, c) PROVE SerialInv'
    <3>1. StepOf(r)
      BY <2>16, <2>a DEF ToolReturns, StepOf, Exclusive, SerialInv, InProgress, IsResume,
        store, inputs, control, step, history
    <3> QED BY <3>1, QuietStep
  <2>17. ASSUME NEW r \in Runs, ToolsDone(r) PROVE SerialInv'
    <3>1. StepOf(r)
      BY <2>17, <2>a DEF ToolsDone, StepOf, Exclusive, SerialInv, InProgress, IsResume, store,
        inputs, control, step, history
    <3> QED BY <3>1, QuietStep
  <2>18. ASSUME NEW r \in Runs, EmitResult(r) PROVE SerialInv'
    <3>1. Head(pend[r]) \in Calls
      BY <2>18 DEF EmitResult
    <3>8. Answered \subseteq Answered'
      BY <2>18, <3>1, EntryTypes, AppendAnswers DEF EmitResult, Publish
    <3>9. StepOf(r)
      BY <2>18, <3>8 DEF EmitResult, Publish, Yield, StepOf, Exclusive, SerialInv, InProgress,
        IsResume, store, inputs, control, step, history
    <3> QED BY <3>9, QuietStep
  <2>19. ASSUME NEW r \in Runs, CollectSignal(r) PROVE SerialInv'
    <3>1. StepOf(r)
      BY <2>19, <2>a DEF CollectSignal, StepOf, Exclusive, SerialInv, InProgress, IsResume,
        store, inputs, control, step, history
    <3> QED BY <3>1, QuietStep
  <2>20. ASSUME NEW r \in Runs, EmitInterrupt(r) PROVE SerialInv'
    <3>1. /\ pc[r] = "emit" /\ checkpoint'.calls = sig[r] \cap Guarded
          /\ wrote' = [wrote EXCEPT ![r] = TRUE] /\ UNCHANGED <<log, given, loaded, ran>>
      BY <2>20 DEF EmitInterrupt, inputs
    <3>2. pc'[r] \in {"left", "aborted"} /\ \A q \in Runs \ {r} : pc'[q] = pc[q]
      BY <2>20 DEF EmitInterrupt, Yield
    <3>3. InProgress(r) /\ \A q \in Runs : InProgress(q)' => q = r
      BY <3>1, <3>2 DEF SerialInv, Alone, InProgress, Over
    <3>4. checkpoint'.calls \cap asked = {}
      BY <3>1 DEF FreshInv
    <3>5. loaded[r].calls \subseteq asked /\ \A q \in Runs, c \in Guarded : <<q, c>> \in ran => c \in asked
      BY DEF ApprovalInv, NoUnapprovedExecution
    <3>6. Alone' /\ LoadsOnce' /\ RanIsLoaded'
      BY <3>1, <3>2, <3>3 DEF SerialInv, Alone, LoadsOnce, RanIsLoaded
    <3>7. Exclusive'
      <4>1. wrote'[r] = TRUE /\ checkpoint'.calls \cap loaded'[r].calls = {}
        BY <3>1, <3>4, <3>5
      <4> QED BY <3>3, <4>1 DEF Exclusive
    <3>8. \A p \in Runs, c \in Guarded : <<p, c>> \in ran' /\ pc'[p] = "done" =>
            <<p, c>> \in ran /\ pc[p] = "done" /\ c \notin checkpoint'.calls
      BY <3>1, <3>2, <3>4, <3>5
    <3>9. Used'
      BY <3>1, <3>3, <3>8 DEF SerialInv, Used
    <3>10. ApprovalUsedOnce'
      <4> SUFFICES ASSUME NEW p \in Runs, NEW c \in Guarded, <<p, c>> \in ran, pc[p] = "done",
                          NEW q \in Runs \ {p}, <<q, c>> \in ran
                   PROVE  pc'[q] \in Over \ {"done"}
        BY <3>1, <3>8 DEF ApprovalUsedOnce
      <4>1. pc[q] \in Over \ {"done"}
        BY DEF SerialInv, ApprovalUsedOnce
      <4> QED BY <3>2, <3>3, <4>1 DEF InProgress
    <3> QED BY <3>6, <3>7, <3>9, <3>10 DEF SerialInv
  <2>21. ASSUME NEW r \in Runs, StoreFails(r) PROVE SerialInv'
    <3>1. StepOf(r)
      BY <2>21, <2>a DEF StoreFails, Fail, Yield, StepOf, Exclusive, SerialInv, InProgress,
        IsResume, store, inputs, control, step, history
    <3> QED BY <3>1, QuietStep
  <2>22. ASSUME NEW r \in Runs, EndTurn(r) PROVE SerialInv'
    <3>1. StepOf(r)
      BY <2>22, <2>a DEF EndTurn, StepOf, Exclusive, SerialInv, InProgress, IsResume, store,
        inputs, control, step, history
    <3> QED BY <3>1, QuietStep
  <2>23. ASSUME NEW r \in Runs, SwitchAgent(r) PROVE SerialInv'
    <3>1. StepOf(r)
      BY <2>23, <2>a DEF SwitchAgent, StepOf, Exclusive, SerialInv, InProgress, IsResume,
        store, inputs, control, step, history
    <3> QED BY <3>1, QuietStep
  <2>24. ASSUME NEW r \in Runs, SwitchFails(r) PROVE SerialInv'
    <3>1. StepOf(r)
      BY <2>24, <2>a DEF SwitchFails, Fail, Yield, StepOf, Exclusive, SerialInv, InProgress,
        IsResume, store, inputs, control, step, history
    <3> QED BY <3>1, QuietStep
  <2>25. ASSUME NEW r \in Runs, Finalize(r) PROVE SerialInv'
    <3>1. /\ pc[r] = "left" /\ checkpoint' = IF IsResume(r) /\ ~wrote[r] THEN NoCheckpoint ELSE checkpoint
          /\ UNCHANGED <<log, given, loaded, wrote, ran>>
      BY <2>25 DEF Finalize, inputs, control, history
    <3>2. pc'[r] = "done" /\ \A q \in Runs \ {r} : pc'[q] = pc[q]
      BY <2>25 DEF Finalize
    <3>3. InProgress(r) /\ \A q \in Runs : ~InProgress(q)'
      BY <3>1, <3>2 DEF SerialInv, Alone, InProgress, Over
    <3>4. \A c \in Guarded : <<r, c>> \in ran => IsResume(r) /\ c \in loaded[r].calls
      BY DEF ApprovalInv, NoUnapprovedExecution, SerialInv, RanIsLoaded, IsResume
    <3>5. checkpoint'.calls \subseteq checkpoint.calls
      BY <3>1 DEF NoCheckpoint
    <3>6. \A c \in Guarded : <<r, c>> \in ran => c \notin checkpoint'.calls
      BY <3>1, <3>3, <3>4 DEF SerialInv, Exclusive, NoCheckpoint
    <3>7. \A c \in Guarded, q \in Runs \ {r} :
            <<r, c>> \in ran /\ <<q, c>> \in ran => pc[q] # "done" /\ pc[q] # "idle" /\ ~InProgress(q)
      <4> SUFFICES ASSUME NEW c \in Guarded, NEW q \in Runs \ {r}, <<r, c>> \in ran, <<q, c>> \in ran
                   PROVE  pc[q] # "done" /\ pc[q] # "idle" /\ ~InProgress(q)
        OBVIOUS
      <4>1. pc[q] # "done"
        BY <3>3, <3>4 DEF SerialInv, Used
      <4>2. pc[q] # "idle"
        BY DEF SerialInv, RanIsLoaded, LoadsOnce, NoCheckpoint
      <4>3. ~InProgress(q)
        BY <3>3 DEF SerialInv, Alone
      <4> QED BY <4>1, <4>2, <4>3
    <3>8. Alone' /\ LoadsOnce' /\ RanIsLoaded' /\ Exclusive'
      BY <3>1, <3>2, <3>3 DEF SerialInv, Alone, LoadsOnce, RanIsLoaded, Exclusive
    <3>9. Used'
      BY <3>1, <3>2, <3>3, <3>5, <3>6 DEF SerialInv, Used
    <3>10. ApprovalUsedOnce'
      BY <3>1, <3>2, <3>5, <3>6, <3>7 DEF SerialInv, ApprovalUsedOnce, InProgress, Over
    <3> QED BY <3>8, <3>9, <3>10 DEF SerialInv
  <2>26. CASE UNCHANGED vars
    BY <2>26, <2>a DEF vars, store, inputs, control, history, SerialInv, Alone, InProgress,
      LoadsOnce,
       RanIsLoaded, Exclusive, Used, IsResume, ApprovalUsedOnce
  <2> QED
    BY <2>1, <2>2, <2>3, <2>4, <2>5, <2>6, <2>7, <2>8, <2>9, <2>10, <2>11, <2>12,
       <2>13, <2>14, <2>15, <2>16, <2>17, <2>18, <2>19, <2>20, <2>21, <2>22, <2>23,
       <2>24, <2>25, <2>26 DEF Next, RunStep
<1> QED BY <1>1, <1>2, TypeCorrect, ApprovalHolds, CallsAreFresh, VerdictsStand, PTL DEF Spec

\* One run at a time: of the runs that executed a guarded call, at most one ended
\* without an error, and its approval is gone with it (runner finalize).
THEOREM ApprovalIsUsedOnce ==
  ASSUME MaxActive = 1
  PROVE  Spec => []ApprovalUsedOnce
<1>1. SerialInv => ApprovalUsedOnce
  BY DEF SerialInv
<1> QED BY <1>1, RunsAreSerial, PTL

\* One run at a time: the checkpoint is only cleared when the log answers every
\* call that it holds as pending (runner finalize).
THEOREM ClearsWhatIsAnswered ==
  ASSUME MaxActive = 1
  PROVE  Spec => ClearedWhenAnswered
<1>1. TypeOK /\ SerialInv /\ [Next]_vars
      => [checkpoint # NoCheckpoint /\ checkpoint' = NoCheckpoint
            => checkpoint.calls \subseteq Answered]_vars
  <2> SUFFICES ASSUME TypeOK, SerialInv, [Next]_vars,
                      checkpoint # NoCheckpoint, checkpoint' = NoCheckpoint
               PROVE  checkpoint.calls \subseteq Answered
    OBVIOUS
  <2>1. \E r \in Runs : EmitInterrupt(r) \/ Finalize(r)
    BY ZenonT(40) DEF Next, RunStep, vars, store, Start, NewInvocation, NewInvocationFails,
       PersistUserMessage, PersistUserMessageFails, BeginAgent, BeginResume, ResumeRefused,
       ResumeCall, ResumeCallInterrupts, ResumeDataMissing, ResumeResults, ModelCallsTools,
       ModelAnswers, ModelFails, ToolReturns, ToolsDone, EmitResult, CollectSignal,
       StoreFails, EndTurn, SwitchAgent, SwitchFails
  <2>2. ASSUME NEW r \in Runs, EmitInterrupt(r) PROVE FALSE
    BY <2>2, RunnerAssumption DEF EmitInterrupt, NoCheckpoint, TypeOK
  <2>3. ASSUME NEW r \in Runs, Finalize(r) PROVE checkpoint.calls \subseteq Answered
    BY <2>3 DEF Finalize, SerialInv, Exclusive, InProgress, Over
  <2> QED BY <2>1, <2>2, <2>3
<1> QED
  BY <1>1, TypeCorrect, RunsAreSerial, PTL DEF Spec, ClearedWhenAnswered

=============================================================================
