--------------------------- MODULE ParallelProofs ---------------------------
(***************************************************************************)
(* Theorems about the parallel agent, for every set of sub-agents and      *)
(* every bound: its checkpoints are whole, its saved state is never older  *)
(* than the checkpoint, what completed stays completed, and a resume that  *)
(* does not fail ran just the sub-agents it answers.                       *)
(***************************************************************************)
EXTENDS Parallel, TLAPS

-----------------------------------------------------------------------------
(* Types. *)

\* The types hold at the start.
LEMMA InitTypes == Init => TypeOK
<1> SUFFICES ASSUME Init PROVE TypeOK
  OBVIOUS
<1>1. /\ resume \in BOOLEAN /\ gone \in BOOLEAN /\ cancelled \in BOOLEAN /\ done \in BOOLEAN
      /\ skip \in SUBSET Subs /\ (skip # {} => resume)
  BY DEF Init
<1>2. /\ wpc \in [Subs -> {"run", "send", "stop", "ended", "skipped"}]
      /\ out \in [Subs -> {"nothing", "event", "final", "interrupt", "error"}]
      /\ left \in [Subs -> 0..MaxEvents]
  BY ParallelAssumption DEF ParallelAssumption, Init
<1>3. /\ saved \in [by : 0..MaxRuns, done : SUBSET Subs]
      /\ checkpoint \in [by : 0..MaxRuns, pending : SUBSET Subs]
      /\ run \in 0..MaxRuns
  BY ParallelAssumption DEF ParallelAssumption, Init, NoState, NoCheckpoint
<1> QED BY <1>1, <1>2, <1>3 DEF Init, TypeOK

\* Every step keeps the types.
LEMMA NextTypes ==
  ASSUME TypeOK, [Next]_vars
  PROVE  TypeOK'
<1> USE ParallelAssumption DEF ParallelAssumption, TypeOK, store, inputs, found, signals, workers
<1>1. ASSUME NEW s \in SUBSET Subs, Launch(s), s # {} => resume', UNCHANGED store,
             resume' \in BOOLEAN, given' \in SUBSET Subs, loaded' \in SUBSET Subs
      PROVE  TypeOK'
  <2>1. /\ gone' \in BOOLEAN /\ cancelled' \in BOOLEAN /\ done' \in BOOLEAN
        /\ skip' \in SUBSET Subs /\ (skip' # {} => resume')
    BY <1>1 DEF Launch
  <2>2. /\ wpc' \in [Subs -> {"run", "send", "stop", "ended", "skipped"}]
        /\ out' \in [Subs -> {"nothing", "event", "final", "interrupt", "error"}]
        /\ left' \in [Subs -> 0..MaxEvents]
    BY <1>1 DEF Launch
  <2>3. run' \in 0..MaxRuns
    BY <1>1 DEF Launch
  <2> QED BY <1>1, <2>1, <2>2, <2>3 DEF Launch
<1>2. CASE StartFresh
  BY <1>1, <1>2 DEF StartFresh
<1>3. CASE StartResume
  BY <1>1, <1>3 DEF StartResume
<1>4. CASE Cancel \/ Crash
  BY <1>4 DEF Cancel, Crash
<1>5. ASSUME NEW w \in Subs, TakeEvent(w)
      PROVE  TypeOK'
  BY <1>5 DEF TakeEvent
<1>6. ASSUME NEW w \in Subs, TakeInterrupt(w) \/ TakeError(w)
      PROVE  TypeOK'
  BY <1>6, ZenonT(40) DEF TakeInterrupt, TakeError
<1>7. CASE Compose
  BY <1>7 DEF Compose
<1>8. CASE SaveCheckpoint
  BY <1>8 DEF SaveCheckpoint
<1>9. CASE ComposeFails \/ SaveCheckpointFails \/ AllCompleted
  BY <1>9 DEF ComposeFails, SaveCheckpointFails, AllCompleted
<1>10. CASE ClearState
  BY <1>10 DEF ClearState, NoState
<1>11. CASE CloseDone
  BY <1>11 DEF CloseDone
<1>12. CASE Finalize
  BY <1>12 DEF Finalize, NoCheckpoint
<1>13. ASSUME NEW w \in Subs, Produce(w)
       PROVE  TypeOK'
  BY <1>13 DEF Produce
<1>14. ASSUME NEW w \in Subs, StreamEnds(w) \/ SeesDone(w) \/ SeesCancel(w)
       PROVE  TypeOK'
  BY <1>14 DEF StreamEnds, SeesDone, SeesCancel
<1>15. CASE UNCHANGED vars
  BY <1>15 DEF vars
<1> QED
  BY <1>2, <1>3, <1>4, <1>5, <1>6, <1>7, <1>8, <1>9, <1>10, <1>11, <1>12,
     <1>13, <1>14, <1>15 DEF Next, Collector, Worker

\* For any parameters, every variable of the parallel agent keeps to its type,
\* and only a resume skips sub-agents.
THEOREM TypeCorrect == Spec => []TypeOK
<1>1. Init => TypeOK
  BY InitTypes
<1>2. TypeOK /\ [Next]_vars => TypeOK'
  BY NextTypes
<1> QED BY <1>1, <1>2, PTL DEF Spec

-----------------------------------------------------------------------------
(* The store. *)

\* Writes are numbered by the run that made them; the current run, until it is
\* composed, has not saved a checkpoint.
StoreInv ==
  /\ saved.by <= run /\ checkpoint.by <= run
  /\ pc \in {"collect", "composed", "leave"} =>
       run > 0 /\ (checkpoint = NoCheckpoint \/ checkpoint.by < run)
  /\ pc = "composed" => saved.by = run
  /\ StateNotOlder

\* Every step keeps the state no older than the checkpoint.
LEMMA NextStore ==
  ASSUME TypeOK, StoreInv, [Next]_vars
  PROVE  StoreInv'
<1> USE DEF StoreInv, StateNotOlder
<1>1. CASE StartFresh \/ StartResume
  <2>1. run' = run + 1 /\ pc' = "collect" /\ UNCHANGED store
    BY <1>1 DEF StartFresh, StartResume, Launch
  <2> QED BY <2>1 DEF store, TypeOK
<1>2. CASE Cancel \/ Crash
  BY <1>2 DEF Cancel, Crash, store, inputs
<1>3. ASSUME NEW w \in Subs, TakeEvent(w) \/ TakeInterrupt(w) \/ TakeError(w)
      PROVE  StoreInv'
  BY <1>3 DEF TakeEvent, TakeInterrupt, TakeError, Meet, store, inputs
<1>4. CASE Compose
  BY <1>4 DEF Compose, TypeOK, inputs
<1>5. CASE ComposeFails \/ AllCompleted \/ SaveCheckpointFails \/ CloseDone
  BY <1>5 DEF ComposeFails, AllCompleted, SaveCheckpointFails, CloseDone, store, inputs
<1>6. CASE SaveCheckpoint
  BY <1>6 DEF SaveCheckpoint, TypeOK, inputs
<1>7. CASE ClearState
  BY <1>7 DEF ClearState, NoState, TypeOK, inputs
<1>8. CASE Finalize
  BY <1>8 DEF Finalize, NoCheckpoint, TypeOK, inputs
<1>9. ASSUME NEW w \in Subs, Worker(w)
      PROVE  StoreInv'
  BY <1>9 DEF Worker, Produce, StreamEnds, SeesDone, SeesCancel, store, inputs
<1>10. CASE UNCHANGED vars
  BY <1>10 DEF vars, store, inputs
<1> QED
  BY <1>1, <1>2, <1>3, <1>4, <1>5, <1>6, <1>7, <1>8, <1>9, <1>10 DEF Next, Collector

\* The invariant of the store, with the types.
LEMMA StoreCorrect == Spec => []StoreInv
<1>1. Init => StoreInv
  BY DEF Init, StoreInv, StateNotOlder, NoState, NoCheckpoint
<1>2. TypeOK /\ StoreInv /\ [Next]_vars => StoreInv'
  BY NextStore
<1> QED BY <1>1, <1>2, TypeCorrect, PTL DEF Spec

\* For any parameters, the stored state is never older than the stored
\* checkpoint: the parallel agent saves it before the runner saves that.
THEOREM StateIsNotOlder == Spec => []StateNotOlder
<1>1. StoreInv => StateNotOlder
  BY DEF StoreInv
<1> QED BY <1>1, StoreCorrect, PTL

-----------------------------------------------------------------------------
(* The goroutines and the collector. *)

\* While the collector waits, what it knows of a goroutine and what that has done
\* agree; nobody has ended with an error, or on a resume without an answer.
WorkerInv(w) ==
  /\ wpc[w] = "skipped" <=> w \in skip
  /\ wpc[w] = "run" => out[w] \in {"nothing", "event", "final"}
  /\ wpc[w] = "stop" => out[w] = "error"
  /\ wpc[w] = "ended" => out[w] # "error" /\ Matches(w)
  /\ out[w] \in {"final", "interrupt"} => Matches(w)
  /\ w \in interrupts <=> (wpc[w] = "ended" /\ out[w] = "interrupt")
  /\ out[w] = "final" /\ wpc[w] \in {"run", "ended"} => w \in completed

CollectInv == pc = "collect" => ~done /\ \A w \in Subs : WorkerInv(w)

\* The set s is whom an interruption leaves pending.
Whole(s) ==
  /\ s = {w \in Subs \ skip : out[w] = "interrupt"}
  /\ \A w \in Subs \ skip : out[w] # "error"

ComposedInv ==
  pc = "composed" =>
    /\ ResultsClosed /\ Whole(interrupts)
    /\ saved.done = skip \cup completed
    /\ \A w \in Subs \ skip : out[w] = "final" => w \in completed

CheckpointInv == checkpoint.by = run /\ run > 0 => ResultsClosed /\ Whole(checkpoint.pending)

MatchInv ==
  pc = "composed" \/ verdict \in {"ok", "interrupted"} => \A w \in Subs \ skip : Matches(w)

GroupInv == CollectInv /\ ComposedInv /\ CheckpointInv /\ MatchInv

\* When all results are in, the collector knows all there is to know.
LEMMA AllIn ==
  ASSUME TypeOK, CollectInv, pc = "collect", ResultsClosed
  PROVE  /\ Whole(interrupts)
         /\ \A w \in Subs \ skip : Matches(w) /\ (out[w] = "final" => w \in completed)
<1>1. \A w \in Subs \ skip : wpc[w] = "ended"
  BY DEF CollectInv, WorkerInv, ResultsClosed
<1>2. \A w \in Subs : w \in skip => w \notin interrupts
  BY DEF CollectInv, WorkerInv
<1>3. interrupts = {w \in Subs \ skip : out[w] = "interrupt"}
  BY <1>1, <1>2 DEF CollectInv, WorkerInv, TypeOK
<1> QED BY <1>1, <1>3 DEF CollectInv, WorkerInv, Whole

\* A new run knows nothing and has saved nothing.
LEMMA StartGroup ==
  ASSUME TypeOK, StoreInv, NEW s \in SUBSET Subs, Launch(s), UNCHANGED store
  PROVE  GroupInv'
<1>1. /\ skip' = s /\ pc' = "collect" /\ verdict' = "none" /\ ~done'
      /\ run' = run + 1 /\ checkpoint' = checkpoint
      /\ completed' = {} /\ interrupts' = {}
      /\ wpc' = [w \in Subs |-> IF w \in s THEN "skipped" ELSE "run"]
      /\ out' = [w \in Subs |-> "nothing"]
  BY DEF Launch, store
<1>2. CollectInv'
  BY <1>1 DEF CollectInv, WorkerInv
<1>3. CheckpointInv'
  BY <1>1 DEF CheckpointInv, StoreInv, TypeOK
<1> QED BY <1>1, <1>2, <1>3 DEF GroupInv, ComposedInv, MatchInv

\* A step of a goroutine or of the collector that concerns goroutine w alone.
LEMMA OneWorker ==
  ASSUME TypeOK, StoreInv, GroupInv, NEW w \in Subs,
         wpc[w] \in {"run", "send", "stop"},
         UNCHANGED <<store, inputs, done>>,
         \A v \in Subs \ {w} :
           /\ wpc'[v] = wpc[v] /\ out'[v] = out[v]
           /\ v \in completed' <=> v \in completed
           /\ v \in interrupts' <=> v \in interrupts,
         \/ pc' = pc /\ verdict' = verdict
         \/ pc = "collect" /\ pc' = "leave" /\ verdict' \in {"failed", "aborted"},
         (pc = "collect" /\ pc' = "collect") => WorkerInv(w)'
  PROVE  GroupInv'
<1>1. ~ResultsClosed
  BY DEF ResultsClosed
<1>2. CollectInv'
  <2> SUFFICES ASSUME pc' = "collect" PROVE ~done' /\ \A v \in Subs : WorkerInv(v)'
    BY DEF CollectInv
  <2>1. pc = "collect" /\ ~done' /\ WorkerInv(w)'
    BY DEF GroupInv, CollectInv
  <2>2. ASSUME NEW v \in Subs \ {w} PROVE WorkerInv(v)'
    BY <2>1 DEF GroupInv, CollectInv, WorkerInv, Matches, inputs
  <2> QED BY <2>1, <2>2
<1>3. pc # "composed" /\ pc' # "composed"
  BY <1>1 DEF GroupInv, ComposedInv
<1>4. CheckpointInv'
  BY <1>1 DEF GroupInv, CheckpointInv, store, inputs
<1>5. MatchInv'
  BY <1>3 DEF GroupInv, MatchInv, Matches, inputs
<1> QED BY <1>2, <1>3, <1>4, <1>5 DEF GroupInv, ComposedInv

\* Every step keeps what the collector and the goroutines know.
LEMMA NextGroup ==
  ASSUME TypeOK, StoreInv, GroupInv, [Next]_vars
  PROVE  GroupInv'
<1> USE DEF GroupInv
<1>1. CASE StartFresh \/ StartResume
  <2>1. PICK s \in SUBSET Subs : Launch(s) /\ UNCHANGED store
    BY <1>1 DEF StartFresh, StartResume, TypeOK
  <2> QED BY <2>1, StartGroup
<1>2. CASE Cancel
  BY <1>2 DEF Cancel, CollectInv, WorkerInv, Matches, ComposedInv, CheckpointInv, Whole,
              MatchInv, ResultsClosed, store, inputs, found, workers
<1>3. CASE Crash
  BY <1>3 DEF Crash, CollectInv, ComposedInv, CheckpointInv, Whole, Matches,
              MatchInv, ResultsClosed, store, inputs, found, signals, TypeOK
<1>4. ASSUME NEW w \in Subs, Produce(w)
      PROVE  GroupInv'
  <2>1. pc = "collect" => WorkerInv(w)'
    BY <1>4 DEF Produce, CollectInv, WorkerInv, Matches, inputs, found, TypeOK
  <2> QED BY <1>4, <2>1, OneWorker DEF Produce, found, signals, TypeOK
<1>5. ASSUME NEW w \in Subs, StreamEnds(w)
      PROVE  GroupInv'
  <2>1. pc = "collect" => WorkerInv(w)'
    BY <1>5 DEF StreamEnds, CollectInv, WorkerInv, Matches, inputs, found, TypeOK
  <2> QED BY <1>5, <2>1, OneWorker DEF StreamEnds, found, signals, TypeOK
<1>6. ASSUME NEW w \in Subs, SeesDone(w)
      PROVE  GroupInv'
  <2>1. pc # "collect"
    BY <1>6 DEF SeesDone, CollectInv
  <2> QED BY <1>6, <2>1, OneWorker DEF SeesDone, found, signals, TypeOK
<1>7. ASSUME NEW w \in Subs, SeesCancel(w)
      PROVE  GroupInv'
  <2>1. pc = "collect" => WorkerInv(w)'
    BY <1>7 DEF SeesCancel, CollectInv, WorkerInv, Matches, inputs, found, TypeOK
  <2> QED BY <1>7, <2>1, OneWorker DEF SeesCancel, found, signals, TypeOK
<1>8. ASSUME NEW w \in Subs, TakeEvent(w)
      PROVE  GroupInv'
  <2>1. WorkerInv(w)'
    BY <1>8 DEF TakeEvent, Meet, CollectInv, WorkerInv, Matches, inputs, TypeOK
  <2> QED BY <1>8, <2>1, OneWorker DEF TakeEvent, Meet, signals, TypeOK
<1>9. ASSUME NEW w \in Subs, TakeInterrupt(w)
      PROVE  GroupInv'
  <2>1. WorkerInv(w)'
    BY <1>9 DEF TakeInterrupt, Meet, CollectInv, WorkerInv, Matches, inputs, TypeOK
  <2> QED BY <1>9, <2>1, OneWorker DEF TakeInterrupt, Meet, signals, TypeOK
<1>10. ASSUME NEW w \in Subs, TakeError(w)
       PROVE  GroupInv'
  BY <1>10, OneWorker DEF TakeError, Meet, found, TypeOK
<1>11. CASE Compose
  <2>1. /\ Whole(interrupts)
        /\ \A w \in Subs \ skip : Matches(w) /\ (out[w] = "final" => w \in completed)
    BY <1>11, AllIn DEF Compose
  <2>2. /\ pc' = "composed" /\ saved'.done = skip \cup completed /\ ResultsClosed
        /\ UNCHANGED <<checkpoint, verdict, inputs, found, workers>>
    BY <1>11 DEF Compose
  <2> QED BY <2>1, <2>2 DEF CollectInv, ComposedInv, CheckpointInv, MatchInv, Whole,
                            ResultsClosed, Matches, inputs, found, workers
<1>12. CASE AllCompleted
  <2>1. \A w \in Subs \ skip : Matches(w)
    BY <1>12, AllIn DEF AllCompleted
  <2> QED BY <1>12, <2>1 DEF AllCompleted, CollectInv, ComposedInv, CheckpointInv, MatchInv,
                             Whole, ResultsClosed, Matches, store, inputs, found, workers
<1>13. CASE SaveCheckpoint
  <2>1. /\ pc = "composed" /\ pc' = "close" /\ checkpoint'.pending = interrupts
        /\ UNCHANGED <<inputs, found, workers>>
    BY <1>13 DEF SaveCheckpoint
  <2> QED BY <2>1 DEF CollectInv, ComposedInv, CheckpointInv, MatchInv,
                      Whole, ResultsClosed, Matches, inputs, found, workers
<1>14. CASE ComposeFails \/ SaveCheckpointFails \/ CloseDone
  BY <1>14 DEF ComposeFails, SaveCheckpointFails, CloseDone, CollectInv, ComposedInv,
               CheckpointInv, MatchInv, Whole, ResultsClosed, Matches, store, inputs, found, workers
<1>15. CASE ClearState \/ Finalize
  BY <1>15 DEF ClearState, Finalize, CollectInv, ComposedInv, CheckpointInv, MatchInv,
               Whole, ResultsClosed, Matches, NoCheckpoint, inputs, found, workers, TypeOK
<1>16. CASE UNCHANGED vars
  BY <1>16 DEF vars, CollectInv, WorkerInv, ComposedInv, CheckpointInv, MatchInv,
               Whole, ResultsClosed, Matches, store, inputs, found, signals, workers
<1> QED
  BY <1>1, <1>2, <1>3, <1>4, <1>5, <1>6, <1>7, <1>8, <1>9, <1>10, <1>11, <1>12,
     <1>13, <1>14, <1>15, <1>16 DEF Next, Collector, Worker

\* The invariant of the group, which the theorems below read off.
LEMMA GroupCorrect == Spec => []GroupInv
<1>1. Init => GroupInv
  BY DEF Init, GroupInv, CollectInv, ComposedInv, CheckpointInv, MatchInv
<1>2. TypeOK /\ StoreInv /\ GroupInv /\ [Next]_vars => GroupInv'
  BY NextGroup
<1> QED BY <1>1, <1>2, TypeCorrect, StoreCorrect, PTL DEF Spec

\* For any parameters, the checkpoint of a run has as pending just the
\* sub-agents that ended with an interrupt, and none ended with an error.
THEOREM CheckpointsAreWhole == Spec => []CheckpointIsWhole
<1>1. GroupInv => CheckpointIsWhole
  BY DEF GroupInv, CheckpointInv, Whole, CheckpointIsWhole
<1> QED BY <1>1, GroupCorrect, PTL

\* For any parameters, a resume that does not fail ran only sub-agents whose
\* pending interrupt it answered.
THEOREM ResumesRunPending == Spec => []OnlyPendingRan
<1>1. TypeOK /\ GroupInv => OnlyPendingRan
  BY DEF TypeOK, GroupInv, MatchInv, Matches, OnlyPendingRan
<1> QED BY <1>1, TypeCorrect, GroupCorrect, PTL

\* For any parameters, an interrupt keeps whom the run skipped as completed and
\* adds everybody whose last word was a final response.
THEOREM CompletedStays == Spec => CompletedGrows
<1>1. GroupInv /\ [Next]_vars =>
        [SaveCheckpoint => skip \cup {w \in Subs : out[w] = "final"} \subseteq saved.done]_vars
  BY DEF GroupInv, ComposedInv, SaveCheckpoint
<1> QED BY <1>1, GroupCorrect, PTL DEF Spec, CompletedGrows
=============================================================================
