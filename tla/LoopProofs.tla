----------------------------- MODULE LoopProofs -----------------------------
(***************************************************************************)
(* Theorems about the loop agent, for every number of sub-agents,          *)
(* iterations and runs: the stored position and checkpoint fit each other, *)
(* sub-agents run in order over all resumes, and the answer reaches the    *)
(* sub-agent that asked.                                                   *)
(***************************************************************************)
EXTENDS Loop, TLAPS

-----------------------------------------------------------------------------
(* The inductive invariant. *)

\* The next position to run is the one the run starts at, while it skips.
Skipping == pos.iter = start.iter /\ pos.sub < start.sub
Due == IF Skipping THEN start ELSE pos
Done(p) == {q \in Position : Before(q, p)}

Running == pc \in {"next", "sub", "composed"}

\* Where pos is, and what the run has not done yet.
PlaceInv ==
  /\ Running => verdict = "none" /\ pos.iter >= start.iter
  /\ pc \in {"sub", "composed"} => pos.sub <= N /\ ~Skipping

\* Writes are numbered by the run that made them; the current run, until it is
\* composed, has not saved a checkpoint.
StoreInv ==
  /\ saved.by <= run /\ checkpoint.by <= run
  /\ pc \in {"next", "sub"} => run > 0 /\ (checkpoint = NoCheckpoint \/ checkpoint.by < run)
  /\ pc = "composed" => saved = [by |-> run, at |-> pos]
  /\ StateFitsCheckpoint

\* The trail is what comes before the position due, and was so when it was saved.
TrailInv ==
  /\ savedTrail = Done(saved.at)
  /\ pc \in {"next", "sub"} => trail = Done(Due)

\* Who was passed the resume data, and how far it has got with it.
Asked(p) ==
  \/ p.sub = loaded
  \/ pc = "sub" /\ subData /\ p = pos
  \/ verdict \in {"failed", "aborted", "crashed"}

AnswerInv ==
  /\ \A p, q \in took : p = q
  /\ data => took = {}
  /\ pc \in {"sub", "composed"} => ~data
  /\ pc = "next" /\ data => pos.iter = start.iter /\ pos.sub <= start.sub
  /\ resume /\ ~data => \E p \in took : Asked(p)
  /\ verdict \in {"ok", "interrupted"} => ~data

-----------------------------------------------------------------------------
(* Types. *)

LEMMA FirstIsPosition == First \in Position
BY LoopAssumption DEF First, Position, LoopAssumption

LEMMA FirstIsPlace == First \in [iter : 0..(MaxIterations - 1), sub : 1..(N + 1)]
BY LoopAssumption DEF LoopAssumption, First

\* The flags have their types, and only a resume has resume data.
Flags ==
  /\ resume \in BOOLEAN /\ answered \in BOOLEAN
  /\ data \in BOOLEAN /\ subData \in BOOLEAN
  /\ data \/ subData => resume
  /\ shouldExit \in BOOLEAN /\ gone \in BOOLEAN

\* The type invariant and the place invariant hold at the start.
LEMMA InitTypes == Init => TypeOK /\ PlaceInv
<1> SUFFICES ASSUME Init PROVE TypeOK /\ PlaceInv
  OBVIOUS
<1>1. Flags
  BY Zenon DEF Init, Flags
<1>2. saved \in [by : 0..MaxRuns, at : Position]
  BY FirstIsPosition, LoopAssumption DEF LoopAssumption, Init, NoState
<1>3. checkpoint \in [by : 0..MaxRuns, sub : 0..N]
  BY LoopAssumption DEF LoopAssumption, Init, NoCheckpoint
<1>4. TypeOK
  BY <1>1, <1>2, <1>3, FirstIsPosition, FirstIsPlace, LoopAssumption
  DEF LoopAssumption, Init, TypeOK, Flags
<1>5. PlaceInv
  BY DEF Init, PlaceInv, Running
<1> QED BY <1>4, <1>5

\* Every step keeps the types and the place.
LEMMA NextTypes ==
  ASSUME TypeOK, PlaceInv, [Next]_vars
  PROVE  TypeOK' /\ PlaceInv'
<1> USE LoopAssumption DEF LoopAssumption, TypeOK, PlaceInv, Running, Skipping, Position, store, inputs, locals, history
<1>1. CASE StartFresh
  <2>1. Flags'
    BY <1>1 DEF StartFresh, Launch, Flags
  <2> QED BY <2>1, <1>1, FirstIsPosition DEF StartFresh, Launch, First, Flags
<1>2. CASE StartResume
  <2>1. Flags'
    BY <1>2 DEF StartResume, Launch, Flags
  <2>2. PICK p \in {saved.at, First} : Launch(p)
    BY <1>2 DEF StartResume
  <2>3. p \in Position
    BY FirstIsPosition
  <2> QED BY <2>1, <2>2, <2>3, <1>2 DEF StartResume, Launch, First, Flags
<1>3. CASE Cancel
  BY <1>3 DEF Cancel
<1>4. CASE Crash
  BY <1>4 DEF Crash
<1>5. CASE Skip
  BY <1>5 DEF Skip
<1>6. CASE Begin
  <2>1. Flags'
    BY <1>6 DEF Begin, Flags
  <2>2. took' \in SUBSET Position
    BY <1>6 DEF Begin
  <2> QED BY <2>1, <2>2, <1>6 DEF Begin, Flags
<1>7. CASE NextIteration
  BY <1>7 DEF NextIteration
<1>8. CASE LastIteration
  BY <1>8 DEF LastIteration
<1>9. CASE SaveCheckpoint
  BY <1>9 DEF SaveCheckpoint
<1>10. CASE ClearState
  BY <1>10 DEF ClearState, NoState, First
<1>11. CASE Finalize
  BY <1>11 DEF Finalize, NoCheckpoint
<1>12. CASE SubEvent
  BY <1>12 DEF SubEvent
<1>13. CASE SubFails
  BY <1>13 DEF SubFails
<1>14. CASE SubInterrupts
  BY <1>14 DEF SubInterrupts
<1>15. CASE SubInterruptFails
  BY <1>15 DEF SubInterruptFails
<1>16. CASE SubEnds
  BY <1>16 DEF SubEnds
<1>17. CASE UNCHANGED vars
  BY <1>17 DEF vars
<1> QED
  BY <1>1, <1>2, <1>3, <1>4, <1>5, <1>6, <1>7, <1>8, <1>9, <1>10, <1>11,
     <1>12, <1>13, <1>14, <1>15, <1>16, <1>17 DEF Next, Advance, SubStops

\* The place invariant holds with the types.
LEMMA PlaceCorrect == Spec => [](TypeOK /\ PlaceInv)
<1>1. Init => TypeOK /\ PlaceInv
  BY InitTypes
<1>2. TypeOK /\ PlaceInv /\ [Next]_vars => (TypeOK /\ PlaceInv)'
  BY NextTypes
<1> QED BY <1>1, <1>2, PTL DEF Spec

\* For any parameters, every variable of the loop agent keeps to its type: the
\* iteration stays below MaxIterations and only a resume has ResumeData.
THEOREM TypeCorrect == Spec => []TypeOK
BY PlaceCorrect, PTL

-----------------------------------------------------------------------------
(* The store. *)

\* Every step keeps position and checkpoint in agreement.
LEMMA NextStore ==
  ASSUME TypeOK, PlaceInv, StoreInv, [Next]_vars
  PROVE  StoreInv'
<1> USE DEF StoreInv, StateFitsCheckpoint
<1>1. CASE StartFresh \/ StartResume
  <2>1. PICK p : Launch(p)
    BY <1>1 DEF StartFresh, StartResume
  <2>2. run' = run + 1 /\ pc' = "next" /\ UNCHANGED store
    BY <2>1 DEF Launch
  <2> QED BY <2>2 DEF store, TypeOK
<1>2. CASE Skip \/ Begin \/ NextIteration
  BY <1>2 DEF Skip, Begin, NextIteration, store, inputs
<1>3. CASE SubEvent \/ SubFails \/ SubInterruptFails \/ SubEnds \/ LastIteration
  BY <1>3 DEF SubEvent, SubFails, SubInterruptFails, SubEnds, LastIteration, store, inputs
<1>4. CASE SubInterrupts
  BY <1>4 DEF SubInterrupts, TypeOK, inputs, locals
<1>5. CASE SaveCheckpoint
  BY <1>5 DEF SaveCheckpoint, TypeOK, inputs, locals
<1>6. CASE ClearState
  BY <1>6 DEF ClearState, TypeOK, NoState, inputs, locals
<1>7. CASE Finalize
  BY <1>7 DEF Finalize, TypeOK, NoCheckpoint, inputs, locals
<1>8. CASE Cancel \/ Crash
  BY <1>8 DEF Cancel, Crash, store, inputs, locals
<1>9. CASE UNCHANGED vars
  BY <1>9 DEF vars, store, inputs, locals
<1> QED
  BY <1>1, <1>2, <1>3, <1>4, <1>5, <1>6, <1>7, <1>8, <1>9 DEF Next, Advance, SubStops

\* For any parameters, a stored position is never older than the stored
\* checkpoint, and when one run saved both they name the same sub-agent: the
\* loop agent saves its position before the runner saves the checkpoint.
THEOREM PositionFits == Spec => []StateFitsCheckpoint
<1>1. Init => StoreInv
  BY DEF Init, StoreInv, StateFitsCheckpoint, NoState, NoCheckpoint
<1>2. TypeOK /\ PlaceInv /\ StoreInv /\ [Next]_vars => StoreInv'
  BY NextStore
<1>3. StoreInv => StateFitsCheckpoint
  BY DEF StoreInv
<1> QED BY <1>1, <1>2, <1>3, PlaceCorrect, PTL DEF Spec

-----------------------------------------------------------------------------
(* The order. *)

\* What is done when a position is completed is what is done before the next.
LEMMA DoneGrows ==
  ASSUME NEW p \in Position
  PROVE  Done([p EXCEPT !.sub = @ + 1]) = Done(p) \cup {p}
<1>1. \A q \in Position : Before(q, [p EXCEPT !.sub = @ + 1]) <=> Before(q, p) \/ q = p
  BY DEF Position, Before
<1> QED BY <1>1 DEF Done

\* Behind the last sub-agent of an iteration is the first one of the next.
LEMMA DoneWraps ==
  ASSUME NEW i \in Nat
  PROVE  Done([iter |-> i, sub |-> N + 1]) = Done([iter |-> i + 1, sub |-> 1])
<1>1. \A q \in Position :
        Before(q, [iter |-> i, sub |-> N + 1]) <=> Before(q, [iter |-> i + 1, sub |-> 1])
  BY LoopAssumption DEF LoopAssumption, Position, Before
<1> QED BY <1>1 DEF Done

\* Nothing is before the first position.
LEMMA NothingFirst == Done(First) = {}
BY LoopAssumption DEF LoopAssumption, Done, Position, Before, First

\* Every step keeps the trail the positions before the one that is due.
LEMMA NextTrail ==
  ASSUME TypeOK, PlaceInv, TrailInv, [Next]_vars
  PROVE  TrailInv'
<1> USE DEF TrailInv
<1>1. CASE StartFresh \/ StartResume
  <2>1. PICK p : Launch(p) /\ p \in Position /\ trail' = Done(p)
    BY <1>1, FirstIsPosition, NothingFirst DEF StartFresh, StartResume, TypeOK
  <2>2. /\ start' = p /\ pos' = [p EXCEPT !.sub = 1]
        /\ pc' = "next" /\ UNCHANGED <<saved, savedTrail>>
    BY <2>1 DEF Launch, store
  <2>3. Due' = p
    BY <2>1, <2>2 DEF Due, Skipping, Position
  <2> QED BY <2>1, <2>2, <2>3 DEF Done
<1>2. CASE Skip
  <2>1. Due' = Due
    BY <1>2 DEF Skip, Due, Skipping, TypeOK, inputs, Position
  <2> QED BY <1>2, <2>1 DEF Skip, Done, store, inputs, history
<1>3. CASE Begin
  <2>1. Due' = Due
    BY <1>3 DEF Begin, Due, Skipping, inputs
  <2> QED BY <1>3, <2>1 DEF Begin, Done, store, inputs
<1>4. CASE NextIteration
  <2>1. pos = [iter |-> pos.iter, sub |-> N + 1] /\ pos.iter \in Nat
    BY <1>4, LoopAssumption DEF LoopAssumption, NextIteration, TypeOK
  <2>2. Due = pos
    BY <1>4, LoopAssumption DEF LoopAssumption, NextIteration, Due, Skipping, TypeOK, Position
  <2>3. ~Skipping'
    BY <1>4 DEF NextIteration, Skipping, TypeOK, PlaceInv, Running, inputs, Position
  <2>4. Due' = [iter |-> pos.iter + 1, sub |-> 1]
    BY <1>4, <2>3 DEF NextIteration, Due
  <2>5. Done(Due') = Done(Due)
    BY <2>1, <2>2, <2>4, DoneWraps
  <2> QED BY <1>4, <2>5 DEF NextIteration, Done, store, inputs, history
<1>5. CASE SubEnds
  <2>1. pos \in Position /\ Due = pos
    BY <1>5 DEF SubEnds, TypeOK, PlaceInv, Running, Position, Due
  <2>2. trail' = Done([pos EXCEPT !.sub = @ + 1])
    BY <1>5, <2>1, DoneGrows DEF SubEnds
  <2>3. pc' = "next" => Due' = [pos EXCEPT !.sub = @ + 1]
    BY <1>5 DEF SubEnds, Due, Skipping, TypeOK, PlaceInv, Position, inputs
  <2> QED BY <1>5, <2>2, <2>3 DEF SubEnds, Done, store
<1>6. CASE SubInterrupts
  <2>1. Due = pos
    BY <1>6 DEF SubInterrupts, PlaceInv, Due
  <2> QED BY <1>6, <2>1 DEF SubInterrupts, Done
<1>7. CASE ClearState
  BY <1>7, NothingFirst DEF ClearState, NoState, Done
<1>8. CASE SubEvent
  <2>1. Due' = Due
    BY <1>8 DEF SubEvent, Due, Skipping, inputs
  <2> QED BY <1>8, <2>1 DEF SubEvent, Done, store, history
<1>9. CASE SubFails \/ SubInterruptFails \/ LastIteration \/ SaveCheckpoint \/ Finalize \/ Crash
  BY <1>9 DEF SubFails, SubInterruptFails, LastIteration, SaveCheckpoint, Finalize, Crash,
    store, Done
<1>10. CASE Cancel \/ UNCHANGED vars
  <2>1. Due' = Due /\ UNCHANGED <<pc, saved, savedTrail, trail>>
    BY <1>10 DEF Cancel, vars, Due, Skipping, inputs, locals, store, history
  <2> QED BY <2>1 DEF Done
<1> QED
  BY <1>1, <1>2, <1>3, <1>4, <1>5, <1>6, <1>7, <1>8, <1>9, <1>10 DEF Next, Advance, SubStops

\* For any parameters, when a sub-agent runs, those before it have completed, in
\* this run or in those it resumes, and neither it nor any after it has.
THEOREM RunsInOrder == Spec => []InOrder
<1>1. Init => TrailInv
  BY NothingFirst DEF Init, TrailInv, NoState
<1>2. TypeOK /\ PlaceInv /\ TrailInv /\ [Next]_vars => TrailInv'
  BY NextTrail
<1>3. TypeOK /\ PlaceInv /\ TrailInv => InOrder
  BY DEF TrailInv, PlaceInv, InOrder, Due, Done
<1> QED BY <1>1, <1>2, <1>3, PlaceCorrect, PTL DEF Spec

-----------------------------------------------------------------------------
(* The answer. *)

\* Every step keeps track of who was passed the resume data.
LEMMA NextAnswer ==
  ASSUME TypeOK, PlaceInv, AnswerInv, [Next]_vars
  PROVE  AnswerInv'
<1> USE DEF AnswerInv, Asked
<1>1. CASE StartFresh \/ StartResume
  <2>1. PICK p \in {saved.at, First} : Launch(p)
    BY <1>1 DEF StartFresh, StartResume
  <2>2. p \in Position /\ p.sub >= 1
    BY FirstIsPosition DEF TypeOK, Position
  <2>3. /\ start' = p /\ pos'.iter = p.iter /\ pos'.sub = 1
        /\ took' = {} /\ pc' = "next" /\ verdict' = "none"
    BY <2>1, <2>2 DEF Launch, Position
  <2>4. resume' <=> data'
    BY <1>1 DEF StartFresh, StartResume
  <2> QED BY <2>2, <2>3, <2>4
<1>2. CASE Skip
  <2>1. /\ pc = "next" /\ pos'.iter = pos.iter /\ pos'.sub = pos.sub + 1
        /\ pos.iter = start.iter /\ pos.sub < start.sub
        /\ UNCHANGED <<pc, verdict, start, resume, loaded, data, subData, took>>
    BY <1>2 DEF Skip, inputs, history, TypeOK
  <2>2. pos.sub \in Nat /\ start.sub \in Nat
    BY DEF TypeOK, Position
  <2> QED BY <2>1, <2>2
<1>3. CASE Begin
  <2>1. /\ pc = "next" /\ pc' = "sub" /\ subData' = data /\ ~data'
        /\ took' = IF data THEN took \cup {pos} ELSE took
        /\ UNCHANGED <<verdict, resume, loaded, pos>>
    BY <1>3 DEF Begin, inputs
  <2>2. CASE data
    <3>1. took' = {pos}
      BY <2>1, <2>2
    <3> QED BY <2>1, <2>2, <3>1, PlaceInv DEF PlaceInv, Running
  <2>3. CASE ~data
    BY <2>1, <2>3 DEF PlaceInv, Running
  <2> QED BY <2>2, <2>3
<1>4. CASE NextIteration \/ LastIteration
  <2>1. pc = "next" /\ pos.sub > N
    BY <1>4 DEF NextIteration, LastIteration
  <2>2. ~(pos.sub <= start.sub)
    BY <2>1, LoopAssumption DEF LoopAssumption, TypeOK, Position
  <2>3. ~data
    BY <2>1, <2>2
  <2>4. /\ pc' \in {"next", "leave"}
        /\ UNCHANGED <<resume, loaded, data, took>>
        /\ pc' = "leave" => verdict' = "ok"
        /\ pc' = "next" => UNCHANGED verdict
    BY <1>4 DEF NextIteration, LastIteration, inputs, locals, history
  <2> QED BY <2>1, <2>3, <2>4 DEF PlaceInv, Running
<1>5. CASE SubFails \/ SubInterruptFails
  BY <1>5 DEF SubFails, SubInterruptFails, inputs, locals, history
<1>6. CASE SubEvent
  <2>1. /\ pc = "sub" /\ pc' \in {"sub", "leave"}
        /\ UNCHANGED <<resume, loaded, data, took, pos, subData>>
        /\ pc' = "leave" => verdict' = "aborted"
        /\ pc' = "sub" => UNCHANGED verdict
    BY <1>6 DEF SubEvent, inputs, history
  <2> QED BY <2>1
<1>7. CASE SubEnds \/ SubInterrupts
  <2>1. /\ pc = "sub" /\ ~data
        /\ pc' \in {"next", "leave", "composed"}
        /\ UNCHANGED <<resume, loaded, data, took>>
        /\ verdict' \in {"none", "ok"}
    BY <1>7 DEF SubEnds, SubInterrupts, inputs, locals, history, PlaceInv, Running
  <2>2. subData => pos.sub = loaded
    BY <1>7 DEF SubEnds, SubInterrupts, Matches
  <2> QED BY <2>1, <2>2 DEF PlaceInv, Running
<1>8. CASE SaveCheckpoint
  BY <1>8 DEF SaveCheckpoint, inputs, locals, history, PlaceInv, Running
<1>9. CASE ClearState \/ Finalize
  BY <1>9 DEF ClearState, Finalize, inputs, locals, history
<1>10. CASE Crash
  BY <1>10 DEF Crash, inputs, locals, history
<1>11. CASE Cancel \/ UNCHANGED vars
  BY <1>11 DEF Cancel, vars, inputs, locals, history
<1> QED
  BY <1>1, <1>2, <1>3, <1>4, <1>5, <1>6, <1>7, <1>8, <1>9, <1>10, <1>11
  DEF Next, Advance, SubStops

\* For any parameters, no two sub-agents of a run are passed the resume data, and
\* a resume that does not fail has passed it to the one whose interrupt is pending.
THEOREM AnswerArrives == Spec => []AnswerReachesAsker
<1>1. Init => AnswerInv
  BY DEF Init, AnswerInv
<1>2. TypeOK /\ PlaceInv /\ AnswerInv /\ [Next]_vars => AnswerInv'
  BY NextAnswer
<1>3. AnswerInv /\ PlaceInv => AnswerReachesAsker
  BY DEF AnswerInv, AnswerReachesAsker, PlaceInv, Running, Asked
<1> QED BY <1>1, <1>2, <1>3, PlaceCorrect, PTL DEF Spec
=============================================================================
