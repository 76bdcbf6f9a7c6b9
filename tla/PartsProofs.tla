---------------------------- MODULE PartsProofs ----------------------------
(* Of each component of Parts but UIStream an inductive invariant, for every value of
   its constants: how it begins, that a step keeps it, and what it means. *)
EXTENDS Parts, KeptProofs, SequenceTheorems, TLAPS

-----------------------------------------------------------------------------
(* DurableTool: the body runs again only on a signal of its own, and a session that
   nothing came between waits for what its workflow waits for. *)

DurablePcs == {"idle", "resume", "poll", "paused", "returned", "ended"}

\* A signal, as far as the rest needs it.
Sent == [no : Nat, keys : SUBSET Nat]

\* What of the types the rest needs.
DurableTypes ==
  /\ ids \in Nat /\ pending \in SUBSET Nat /\ data \in Sent /\ signaled \in Nat
  /\ checkpoint \in SUBSET Nat
  /\ found \in [Runs -> SUBSET Nat] /\ pc \in [Runs -> DurablePcs]
  /\ signals \in Seq(Sent)
  /\ segments \in SUBSET [after : Nat, on : Sent]

\* The status is what the queries of the runs are answered with.
StatusInv ==
  /\ wpc \in {"none", "head", "activity", "wait", "closed"}
  /\ wpc = "none" => status = "none"
  /\ wpc \in {"head", "activity"} => status = "running"
  /\ wpc = "wait" => status = "interrupted"
  /\ wpc = "closed" => status \in {"completed", "failed", "cancelled"}

\* The signals that are kept are later than the one the workflow has, and are in
\* the order they were sent in.
SignalsInv ==
  /\ data.no <= signaled
  /\ \A k \in 1..Len(signals) :
       /\ data.no < signals[k].no /\ signals[k].no <= signaled
       /\ \A j \in 1 .. k - 1 : signals[j].no < signals[k].no

\* The interrupts that are pending came after all the segments but the last, and
\* the signal that a segment is about to run on came after theirs.
SegmentInv ==
  /\ \A t \in segments : t.after <= ids /\ t.on.no <= data.no
  /\ wpc # "closed" =>
       /\ pending = {} => ids = 0
       /\ \A i \in pending : i <= ids /\ \A t \in segments : t.after < ids => t.after < i
  /\ wpc \in {"none", "head", "activity"} =>
       \A t \in segments : t.after < ids => t.on.no < data.no

AtWork(r) == pc[r] \notin DurableToolPart!Over

\* While nothing comes between, one execution at a time is at work, and it has
\* the workflow to itself.
PauseInv ==
  /\ wpc = "none" => checkpoint = {} /\ \A r \in Runs : pc[r] = "idle"
  /\ \A r \in Runs : pc[r] = "idle" => found[r] = {}
  /\ ~apart =>
       /\ ~cancel
       /\ \A r, q \in Runs : AtWork(r) /\ AtWork(q) => r = q
       /\ (\A r \in Runs : ~AtWork(r)) =>
            /\ wpc \in {"none", "wait", "closed"} /\ signals = <<>>
            /\ checkpoint = IF wpc = "wait" THEN pending ELSE {}
       /\ \A r \in Runs : AtWork(r) =>
            /\ checkpoint = found[r]
            /\ signals # <<>> => pc[r] = "poll" /\ wpc = "wait" /\ Len(signals) = 1
            /\ pc[r] \in {"resume", "paused"} => wpc = "wait"
            /\ pc[r] = "returned" => wpc = "closed"

DurableInv == DurableTypes /\ StatusInv /\ SignalsInv /\ SegmentInv /\ PauseInv /\ DurableToolPart!RunsOnAnswersOnly

\* The actions, one by one.
LEMMA DurableSteps ==
  ASSUME [DurableToolPart!Next]_(DurableToolPart!vars)
  PROVE  \/ \E r \in Runs :
              \/ DurableToolPart!Start(r) \/ DurableToolPart!BeginResume(r)
              \/ DurableToolPart!SignalResume(r) \/ DurableToolPart!ResumeFails(r)
              \/ DurableToolPart!Poll(r) \/ DurableToolPart!Paused(r)
              \/ DurableToolPart!Returned(r) \/ DurableToolPart!Abort(r)
         \/ DurableToolPart!Segment \/ DurableToolPart!BodyEnds \/ DurableToolPart!BodyPauses
         \/ DurableToolPart!AttemptFails \/ DurableToolPart!TakeSignal
         \/ DurableToolPart!TakeCancel \/ DurableToolPart!Cancel \/ DurableToolPart!Resume
         \/ UNCHANGED DurableToolPart!vars
BY DEF DurableToolPart!Next, DurableToolPart!Execution, DurableToolPart!Worker

\* The signals are signals, and so are the first and the others.
LEMMA SignalsAreSent ==
  ASSUME DurableTypes
  PROVE  /\ \A k \in 1..Len(signals) : signals[k] \in Sent /\ signals[k].no \in Nat
         /\ signals # <<>> =>
              signals[1] \in Sent /\ 1 \in 1..Len(signals) /\ Tail(signals) \in Seq(Sent)
<1>1. signals \in Seq(Sent)
  BY DEF DurableTypes
<1>2. \A k \in 1..Len(signals) : signals[k] \in Sent
  BY <1>1, ElementOfSeq
<1>3. \A x \in Sent : x.no \in Nat
  BY DEF Sent
<1>4. signals # <<>> => 1 \in 1..Len(signals) /\ Tail(signals) \in Seq(Sent)
  BY <1>1
<1> QED
  BY <1>2, <1>3, <1>4

\* The types.
LEMMA DurableTypesStep ==
  ASSUME DurableTypes, [DurableToolPart!Next]_(DurableToolPart!vars)
  PROVE  DurableTypes'
<1> USE DEF DurableTypes, DurablePcs, Sent, DurableToolPart!Go, DurableToolPart!Leave,
  DurableToolPart!Send, DurableToolPart!Ran, DurableToolPart!ForCall, DurableToolPart!workflow,
  DurableToolPart!session, DurableToolPart!history
<1>1. ASSUME NEW r \in Runs, DurableToolPart!Start(r) PROVE DurableTypes'
  BY <1>1 DEF DurableToolPart!Start
<1>2. ASSUME NEW r \in Runs, DurableToolPart!BeginResume(r) PROVE DurableTypes'
  BY <1>2 DEF DurableToolPart!BeginResume
<1>3. ASSUME NEW r \in Runs, DurableToolPart!SignalResume(r) PROVE DurableTypes'
  BY <1>3 DEF DurableToolPart!SignalResume
<1>4. ASSUME NEW r \in Runs, DurableToolPart!ResumeFails(r) PROVE DurableTypes'
  BY <1>4 DEF DurableToolPart!ResumeFails
<1>5. ASSUME NEW r \in Runs, DurableToolPart!Poll(r) PROVE DurableTypes'
  BY <1>5 DEF DurableToolPart!Poll
<1>6. ASSUME NEW r \in Runs, DurableToolPart!Paused(r) PROVE DurableTypes'
  BY <1>6 DEF DurableToolPart!Paused
<1>7. ASSUME NEW r \in Runs, DurableToolPart!Returned(r) PROVE DurableTypes'
  BY <1>7 DEF DurableToolPart!Returned
<1>8. ASSUME NEW r \in Runs, DurableToolPart!Abort(r) PROVE DurableTypes'
  BY <1>8 DEF DurableToolPart!Abort
<1>9. CASE DurableToolPart!Segment
  BY <1>9 DEF DurableToolPart!Segment
<1>10. CASE DurableToolPart!BodyEnds
  BY <1>10 DEF DurableToolPart!BodyEnds
<1>11. CASE DurableToolPart!BodyPauses
  BY <1>11 DEF DurableToolPart!BodyPauses
<1>12. CASE DurableToolPart!AttemptFails
  BY <1>12 DEF DurableToolPart!AttemptFails
<1>13. CASE DurableToolPart!TakeSignal
  <2>1. signals[1] \in Sent /\ Tail(signals) \in Seq(Sent)
    BY <1>13, SignalsAreSent DEF DurableToolPart!TakeSignal
  <2> QED
    BY <1>13, <2>1 DEF DurableToolPart!TakeSignal
<1>14. CASE DurableToolPart!TakeCancel
  BY <1>14 DEF DurableToolPart!TakeCancel
<1>15. CASE DurableToolPart!Cancel
  BY <1>15 DEF DurableToolPart!Cancel
<1>16. CASE DurableToolPart!Resume
  BY <1>16 DEF DurableToolPart!Resume
<1>17. CASE UNCHANGED DurableToolPart!vars
  BY <1>17 DEF DurableToolPart!vars, DurableToolPart!history
<1> QED
  BY <1>1, <1>2, <1>3, <1>4, <1>5, <1>6, <1>7, <1>8, <1>9, <1>10, <1>11, <1>12, <1>13,
    <1>14, <1>15, <1>16, <1>17, DurableSteps

\* The status of the workflow.
LEMMA StatusStep ==
  ASSUME StatusInv, [DurableToolPart!Next]_(DurableToolPart!vars)
  PROVE  StatusInv'
<1> USE DEF StatusInv, DurableToolPart!workflow, DurableToolPart!session,
  DurableToolPart!history
<1>1. ASSUME NEW r \in Runs, DurableToolPart!Start(r) PROVE StatusInv'
  BY <1>1 DEF DurableToolPart!Start
<1>2. ASSUME NEW r \in Runs, DurableToolPart!BeginResume(r) PROVE StatusInv'
  BY <1>2 DEF DurableToolPart!BeginResume
<1>3. ASSUME NEW r \in Runs, DurableToolPart!SignalResume(r) PROVE StatusInv'
  BY <1>3 DEF DurableToolPart!SignalResume
<1>4. ASSUME NEW r \in Runs, DurableToolPart!ResumeFails(r) PROVE StatusInv'
  BY <1>4 DEF DurableToolPart!ResumeFails
<1>5. ASSUME NEW r \in Runs, DurableToolPart!Poll(r) PROVE StatusInv'
  BY <1>5 DEF DurableToolPart!Poll
<1>6. ASSUME NEW r \in Runs, DurableToolPart!Paused(r) PROVE StatusInv'
  BY <1>6 DEF DurableToolPart!Paused
<1>7. ASSUME NEW r \in Runs, DurableToolPart!Returned(r) PROVE StatusInv'
  BY <1>7 DEF DurableToolPart!Returned
<1>8. ASSUME NEW r \in Runs, DurableToolPart!Abort(r) PROVE StatusInv'
  BY <1>8 DEF DurableToolPart!Abort
<1>9. CASE DurableToolPart!Segment
  BY <1>9 DEF DurableToolPart!Segment
<1>10. CASE DurableToolPart!BodyEnds
  BY <1>10 DEF DurableToolPart!BodyEnds
<1>11. CASE DurableToolPart!BodyPauses
  BY <1>11 DEF DurableToolPart!BodyPauses
<1>12. CASE DurableToolPart!AttemptFails
  BY <1>12 DEF DurableToolPart!AttemptFails
<1>13. CASE DurableToolPart!TakeSignal
  BY <1>13 DEF DurableToolPart!TakeSignal
<1>14. CASE DurableToolPart!TakeCancel
  BY <1>14 DEF DurableToolPart!TakeCancel
<1>15. CASE DurableToolPart!Cancel
  BY <1>15 DEF DurableToolPart!Cancel
<1>16. CASE DurableToolPart!Resume
  BY <1>16 DEF DurableToolPart!Resume
<1>17. CASE UNCHANGED DurableToolPart!vars
  BY <1>17 DEF DurableToolPart!vars, DurableToolPart!history
<1> QED
  BY <1>1, <1>2, <1>3, <1>4, <1>5, <1>6, <1>7, <1>8, <1>9, <1>10, <1>11, <1>12, <1>13,
    <1>14, <1>15, <1>16, <1>17, DurableSteps

\* A signal that is sent is the last.
LEMMA SentIsLast ==
  ASSUME DurableTypes, SignalsInv, NEW keys, DurableToolPart!Send(keys), data' = data
  PROVE  SignalsInv'
<1> DEFINE newest == [no |-> signaled', keys |-> keys]
<1>1. signaled' = signaled + 1 /\ signals' = Append(signals, newest) /\ signaled \in Nat
  BY DEF DurableToolPart!Send, DurableTypes
<1>2. /\ Len(signals') = Len(signals) + 1 /\ Len(signals) \in Nat
      /\ \A k \in 1..Len(signals) : signals'[k] = signals[k]
      /\ signals'[Len(signals) + 1] = newest
  BY <1>1 DEF DurableTypes
<1>3. \A k \in 1..Len(signals) : signals[k].no \in Nat /\ signals[k].no <= signaled
  BY SignalsAreSent DEF SignalsInv
<1>4. data.no \in Nat /\ newest.no = signaled + 1
  BY <1>1 DEF DurableTypes, Sent
<1> QED
  BY <1>1, <1>2, <1>3, <1>4 DEF SignalsInv

\* The signals.
LEMMA SignalsStep ==
  ASSUME DurableTypes, SignalsInv, [DurableToolPart!Next]_(DurableToolPart!vars)
  PROVE  SignalsInv'
<1> USE DEF SignalsInv, DurableToolPart!workflow, DurableToolPart!session,
  DurableToolPart!history
<1>1. ASSUME NEW r \in Runs, DurableToolPart!Start(r) PROVE SignalsInv'
  BY <1>1 DEF DurableToolPart!Start
<1>2. ASSUME NEW r \in Runs, DurableToolPart!BeginResume(r) PROVE SignalsInv'
  BY <1>2 DEF DurableToolPart!BeginResume
<1>3. ASSUME NEW r \in Runs, DurableToolPart!SignalResume(r) PROVE SignalsInv'
  BY <1>3, SentIsLast DEF DurableToolPart!SignalResume
<1>4. ASSUME NEW r \in Runs, DurableToolPart!ResumeFails(r) PROVE SignalsInv'
  BY <1>4 DEF DurableToolPart!ResumeFails
<1>5. ASSUME NEW r \in Runs, DurableToolPart!Poll(r) PROVE SignalsInv'
  BY <1>5 DEF DurableToolPart!Poll
<1>6. ASSUME NEW r \in Runs, DurableToolPart!Paused(r) PROVE SignalsInv'
  BY <1>6 DEF DurableToolPart!Paused
<1>7. ASSUME NEW r \in Runs, DurableToolPart!Returned(r) PROVE SignalsInv'
  BY <1>7 DEF DurableToolPart!Returned
<1>8. ASSUME NEW r \in Runs, DurableToolPart!Abort(r) PROVE SignalsInv'
  BY <1>8 DEF DurableToolPart!Abort
<1>9. CASE DurableToolPart!Segment
  BY <1>9 DEF DurableToolPart!Segment
<1>10. CASE DurableToolPart!BodyEnds
  BY <1>10 DEF DurableToolPart!BodyEnds
<1>11. CASE DurableToolPart!BodyPauses
  BY <1>11 DEF DurableToolPart!BodyPauses
<1>12. CASE DurableToolPart!AttemptFails
  BY <1>12 DEF DurableToolPart!AttemptFails
<1>13. CASE DurableToolPart!TakeSignal
  BY <1>13 DEF DurableToolPart!TakeSignal
<1>14. CASE DurableToolPart!TakeCancel
  BY <1>14 DEF DurableToolPart!TakeCancel
<1>15. CASE DurableToolPart!Cancel
  BY <1>15 DEF DurableToolPart!Cancel
<1>16. CASE DurableToolPart!Resume
  BY <1>16, SentIsLast DEF DurableToolPart!Resume
<1>17. CASE UNCHANGED DurableToolPart!vars
  BY <1>17 DEF DurableToolPart!vars, DurableToolPart!history
<1> QED
  BY <1>1, <1>2, <1>3, <1>4, <1>5, <1>6, <1>7, <1>8, <1>9, <1>10, <1>11, <1>12, <1>13,
    <1>14, <1>15, <1>16, <1>17, DurableSteps

\* The segments.
LEMMA SegmentStep ==
  ASSUME DurableTypes, SignalsInv, SegmentInv, [DurableToolPart!Next]_(DurableToolPart!vars)
  PROVE  SegmentInv'
<1> USE DEF DurableTypes, SegmentInv, Sent, DurableToolPart!Ran, DurableToolPart!workflow,
  DurableToolPart!session, DurableToolPart!history
<1>1. ASSUME NEW r \in Runs, DurableToolPart!Start(r) PROVE SegmentInv'
  BY <1>1 DEF DurableToolPart!Start
<1>2. ASSUME NEW r \in Runs, DurableToolPart!BeginResume(r) PROVE SegmentInv'
  BY <1>2 DEF DurableToolPart!BeginResume
<1>3. ASSUME NEW r \in Runs, DurableToolPart!SignalResume(r) PROVE SegmentInv'
  BY <1>3 DEF DurableToolPart!SignalResume
<1>4. ASSUME NEW r \in Runs, DurableToolPart!ResumeFails(r) PROVE SegmentInv'
  BY <1>4 DEF DurableToolPart!ResumeFails
<1>5. ASSUME NEW r \in Runs, DurableToolPart!Poll(r) PROVE SegmentInv'
  BY <1>5 DEF DurableToolPart!Poll
<1>6. ASSUME NEW r \in Runs, DurableToolPart!Paused(r) PROVE SegmentInv'
  BY <1>6 DEF DurableToolPart!Paused
<1>7. ASSUME NEW r \in Runs, DurableToolPart!Returned(r) PROVE SegmentInv'
  BY <1>7 DEF DurableToolPart!Returned
<1>8. ASSUME NEW r \in Runs, DurableToolPart!Abort(r) PROVE SegmentInv'
  BY <1>8 DEF DurableToolPart!Abort
<1>9. CASE DurableToolPart!Segment
  BY <1>9 DEF DurableToolPart!Segment
<1>10. CASE DurableToolPart!BodyEnds
  BY <1>10 DEF DurableToolPart!BodyEnds
<1>11. CASE DurableToolPart!BodyPauses
  BY <1>11 DEF DurableToolPart!BodyPauses
<1>12. CASE DurableToolPart!AttemptFails
  BY <1>12 DEF DurableToolPart!AttemptFails
<1>13. CASE DurableToolPart!TakeSignal
  <2>1. signals[1] \in Sent /\ data.no < signals[1].no
    BY <1>13, SignalsAreSent DEF DurableToolPart!TakeSignal, SignalsInv
  <2> QED
    BY <1>13, <2>1 DEF DurableToolPart!TakeSignal
<1>14. CASE DurableToolPart!TakeCancel
  BY <1>14 DEF DurableToolPart!TakeCancel
<1>15. CASE DurableToolPart!Cancel
  BY <1>15 DEF DurableToolPart!Cancel
<1>16. CASE DurableToolPart!Resume
  BY <1>16 DEF DurableToolPart!Resume
<1>17. CASE UNCHANGED DurableToolPart!vars
  BY <1>17 DEF DurableToolPart!vars, DurableToolPart!history
<1> QED
  BY <1>1, <1>2, <1>3, <1>4, <1>5, <1>6, <1>7, <1>8, <1>9, <1>10, <1>11, <1>12, <1>13,
    <1>14, <1>15, <1>16, <1>17, DurableSteps

\* A segment that has an answer to run on.
LEMMA SegmentIsAnswered ==
  ASSUME DurableTypes, SegmentInv, DurableToolPart!RunsOnAnswersOnly,
         wpc = "activity", DurableToolPart!Answered,
         segments' \in {segments, DurableToolPart!Ran}
  PROVE  DurableToolPart!RunsOnAnswersOnly'
<1> DEFINE first == [after |-> ids, on |-> data]
           Own(s, all) ==
             /\ \A t \in all : t.after < s.after => t.on.no < s.on.no
             /\ \/ DurableToolPart!ForCall \in s.on.keys
                \/ \E i \in s.on.keys :
                     i <= s.after /\ \A t \in all : t.after < s.after => t.after < i
<1> SUFFICES ASSUME NEW s \in segments', s.after # 0 PROVE Own(s, segments')
  BY DEF DurableToolPart!RunsOnAnswersOnly
<1>1. segments' \subseteq segments \cup {first}
  BY DEF DurableToolPart!Ran
<1>2. CASE s \in segments
  <2>1. Own(s, segments)
    BY <1>2 DEF DurableToolPart!RunsOnAnswersOnly
  <2>2. s.after <= ids /\ s.after \in Nat /\ ids \in Nat
    BY <1>2 DEF SegmentInv, DurableTypes
  <2>3. ~(first.after < s.after)
    BY <2>2
  <2> HIDE DEF first
  <2> QED
    BY <1>1, <2>1, <2>3
<1>3. CASE s = first
  <2>1. ids # 0 /\ pending # {} /\ ids \in Nat
    BY <1>3 DEF SegmentInv, DurableTypes
  <2>2. PICK i \in data.keys : i \in pending \/ i = DurableToolPart!ForCall
    BY <2>1 DEF DurableToolPart!Answered
  <2>3. \A t \in segments : t.after < ids => t.on.no < data.no
    BY DEF SegmentInv
  <2>4. i \in pending => i <= ids /\ \A t \in segments : t.after < ids => t.after < i
    BY DEF SegmentInv
  <2>5. \A t \in segments' : t.after < ids => t \in segments
    BY <1>1, <2>1
  <2> QED
    BY <1>3, <2>2, <2>3, <2>4, <2>5
<1> QED
  BY <1>1, <1>2, <1>3

\* The segments and the answers.
LEMMA AnswersOnlyStep ==
  ASSUME DurableTypes, SegmentInv, DurableToolPart!RunsOnAnswersOnly,
         [DurableToolPart!Next]_(DurableToolPart!vars)
  PROVE  DurableToolPart!RunsOnAnswersOnly'
<1> USE DEF DurableToolPart!RunsOnAnswersOnly, DurableToolPart!workflow,
  DurableToolPart!session, DurableToolPart!history
<1>1. ASSUME NEW r \in Runs,
             DurableToolPart!Start(r) PROVE DurableToolPart!RunsOnAnswersOnly'
  BY <1>1 DEF DurableToolPart!Start
<1>2. ASSUME NEW r \in Runs,
             DurableToolPart!BeginResume(r) PROVE DurableToolPart!RunsOnAnswersOnly'
  BY <1>2 DEF DurableToolPart!BeginResume
<1>3. ASSUME NEW r \in Runs,
             DurableToolPart!SignalResume(r) PROVE DurableToolPart!RunsOnAnswersOnly'
  BY <1>3 DEF DurableToolPart!SignalResume
<1>4. ASSUME NEW r \in Runs,
             DurableToolPart!ResumeFails(r) PROVE DurableToolPart!RunsOnAnswersOnly'
  BY <1>4 DEF DurableToolPart!ResumeFails
<1>5. ASSUME NEW r \in Runs,
             DurableToolPart!Poll(r) PROVE DurableToolPart!RunsOnAnswersOnly'
  BY <1>5 DEF DurableToolPart!Poll
<1>6. ASSUME NEW r \in Runs,
             DurableToolPart!Paused(r) PROVE DurableToolPart!RunsOnAnswersOnly'
  BY <1>6 DEF DurableToolPart!Paused
<1>7. ASSUME NEW r \in Runs,
             DurableToolPart!Returned(r) PROVE DurableToolPart!RunsOnAnswersOnly'
  BY <1>7 DEF DurableToolPart!Returned
<1>8. ASSUME NEW r \in Runs,
             DurableToolPart!Abort(r) PROVE DurableToolPart!RunsOnAnswersOnly'
  BY <1>8 DEF DurableToolPart!Abort
<1>9. CASE DurableToolPart!Segment
  BY <1>9 DEF DurableToolPart!Segment
<1>10. CASE DurableToolPart!BodyEnds
  BY <1>10, SegmentIsAnswered DEF DurableToolPart!BodyEnds
<1>11. CASE DurableToolPart!BodyPauses
  BY <1>11, SegmentIsAnswered DEF DurableToolPart!BodyPauses
<1>12. CASE DurableToolPart!AttemptFails
  BY <1>12, SegmentIsAnswered DEF DurableToolPart!AttemptFails
<1>13. CASE DurableToolPart!TakeSignal
  BY <1>13 DEF DurableToolPart!TakeSignal
<1>14. CASE DurableToolPart!TakeCancel
  BY <1>14 DEF DurableToolPart!TakeCancel
<1>15. CASE DurableToolPart!Cancel
  BY <1>15 DEF DurableToolPart!Cancel
<1>16. CASE DurableToolPart!Resume
  BY <1>16 DEF DurableToolPart!Resume
<1>17. CASE UNCHANGED DurableToolPart!vars
  BY <1>17 DEF DurableToolPart!vars, DurableToolPart!history
<1> QED
  BY <1>1, <1>2, <1>3, <1>4, <1>5, <1>6, <1>7, <1>8, <1>9, <1>10, <1>11, <1>12, <1>13,
    <1>14, <1>15, <1>16, <1>17, DurableSteps

\* The pauses.
LEMMA PauseStep ==
  ASSUME DurableTypes, StatusInv, PauseInv, [DurableToolPart!Next]_(DurableToolPart!vars)
  PROVE  PauseInv'
<1> USE DEF DurableTypes, DurablePcs, StatusInv, PauseInv, AtWork, DurableToolPart!Over,
  DurableToolPart!Alone, DurableToolPart!Go, DurableToolPart!Leave, DurableToolPart!Send,
  DurableToolPart!workflow,
  DurableToolPart!session, DurableToolPart!history
<1>1. ASSUME NEW r \in Runs, DurableToolPart!Start(r) PROVE PauseInv'
  BY <1>1 DEF DurableToolPart!Start
<1>2. ASSUME NEW r \in Runs, DurableToolPart!BeginResume(r) PROVE PauseInv'
  <2>1. ~apart' => ~apart /\ \A q \in Runs : ~AtWork(q)
    BY <1>2 DEF DurableToolPart!BeginResume
  <2>2. wpc # "none"
    BY <1>2 DEF DurableToolPart!BeginResume
  <2> QED
    BY <1>2, <2>1, <2>2 DEF DurableToolPart!BeginResume
<1>3. ASSUME NEW r \in Runs, DurableToolPart!SignalResume(r) PROVE PauseInv'
  BY <1>3 DEF DurableToolPart!SignalResume
<1>4. ASSUME NEW r \in Runs, DurableToolPart!ResumeFails(r) PROVE PauseInv'
  BY <1>4 DEF DurableToolPart!ResumeFails
<1>5. ASSUME NEW r \in Runs, DurableToolPart!Poll(r) PROVE PauseInv'
  BY <1>5 DEF DurableToolPart!Poll
<1>6. ASSUME NEW r \in Runs, DurableToolPart!Paused(r) PROVE PauseInv'
  BY <1>6 DEF DurableToolPart!Paused
<1>7. ASSUME NEW r \in Runs, DurableToolPart!Returned(r) PROVE PauseInv'
  BY <1>7 DEF DurableToolPart!Returned
<1>8. ASSUME NEW r \in Runs, DurableToolPart!Abort(r) PROVE PauseInv'
  BY <1>8 DEF DurableToolPart!Abort
<1>9. CASE DurableToolPart!Segment
  BY <1>9 DEF DurableToolPart!Segment
<1>10. CASE DurableToolPart!BodyEnds
  BY <1>10 DEF DurableToolPart!BodyEnds
<1>11. CASE DurableToolPart!BodyPauses
  BY <1>11 DEF DurableToolPart!BodyPauses
<1>12. CASE DurableToolPart!AttemptFails
  BY <1>12 DEF DurableToolPart!AttemptFails
<1>13. CASE DurableToolPart!TakeSignal
  BY <1>13 DEF DurableToolPart!TakeSignal
<1>14. CASE DurableToolPart!TakeCancel
  BY <1>14 DEF DurableToolPart!TakeCancel
<1>15. CASE DurableToolPart!Cancel
  BY <1>15 DEF DurableToolPart!Cancel
<1>16. CASE DurableToolPart!Resume
  BY <1>16 DEF DurableToolPart!Resume
<1>17. CASE UNCHANGED DurableToolPart!vars
  BY <1>17 DEF DurableToolPart!vars, DurableToolPart!history
<1> QED
  BY <1>1, <1>2, <1>3, <1>4, <1>5, <1>6, <1>7, <1>8, <1>9, <1>10, <1>11, <1>12, <1>13,
    <1>14, <1>15, <1>16, <1>17, DurableSteps

\* No execution, and no workflow.
LEMMA DurableFirst == DurableToolPart!Init => DurableInv
<1> SUFFICES ASSUME DurableToolPart!Init PROVE DurableInv
  OBVIOUS
<1>1. DurableTypes /\ StatusInv /\ SignalsInv /\ SegmentInv /\ DurableToolPart!RunsOnAnswersOnly
  BY DEF DurableToolPart!Init, DurableTypes, DurablePcs, Sent, StatusInv, SignalsInv,
    SegmentInv, DurableToolPart!NoSignal, DurableToolPart!RunsOnAnswersOnly
<1>2. PauseInv
  BY DEF DurableToolPart!Init, PauseInv, AtWork, DurableToolPart!Over
<1> QED
  BY <1>1, <1>2 DEF DurableInv

\* The parts of Inv together are inductive.
LEMMA DurableStep == DurableInv /\ [DurableToolPart!Next]_(DurableToolPart!vars) => DurableInv'
BY DurableTypesStep, StatusStep, SignalsStep, SegmentStep, AnswersOnlyStep,
  PauseStep DEF DurableInv

\* What Inv is for.
LEMMA DurableMeans == DurableInv => DurableToolPart!RunsOnAnswersOnly /\ DurableToolPart!CheckpointIsThePause
BY DEF DurableInv, PauseInv, AtWork, DurableToolPart!CheckpointIsThePause

-----------------------------------------------------------------------------
(* Turns: the messages that are queued are yielded, once each and in order, and a run
   that ends by itself has sent those of its own roles to the model. *)

\* No message is unheard but the user's.
UsersOnly == \A m \in unheard : m.role = "user"

\* What was yielded can be heard, but for the user's messages, and a model call has
\* heard it.  A message that was yielded since is noted in injected, and the run
\* makes another turn.
Noted ==
  /\ \A m \in unheard : m.role = "user" \/ m \in persisted
  /\ pc = "after" /\ ~TurnsPart!ResumesTools => UsersOnly
  /\ pc = "yield" /\ ~TurnsPart!ResumesTools /\ ~UsersOnly => injected
  /\ verdict = "ok" => pc = "over" /\ (TurnsPart!ResumesTools \/ UsersOnly)
  /\ pc \in {"over", "turn", "before", "step", "after", "yield"}

(* llmAgent.run begins with nothing yielded. *)
LEMMA NotedFirst == TurnsPart!Init => Noted
BY DEF TurnsPart!Init, Noted, UsersOnly

(* Each of its steps, and each call of the extension, keeps the note. *)
LEMMA NotedStep == Noted /\ [TurnsPart!Next]_(TurnsPart!vars) => Noted'
<1> SUFFICES ASSUME Noted, [TurnsPart!Next]_(TurnsPart!vars) PROVE Noted'
  OBVIOUS
<1> USE DEF Noted, UsersOnly, TurnsPart!ResumesTools
<1>1. CASE TurnsPart!Steer
  BY <1>1 DEF TurnsPart!Steer, TurnsPart!locals
<1>2. CASE TurnsPart!FollowUp
  BY <1>2 DEF TurnsPart!FollowUp, TurnsPart!locals
<1>3. CASE TurnsPart!Start
  BY <1>3 DEF TurnsPart!Start
<1>4. CASE TurnsPart!BeginTurn
  BY <1>4 DEF TurnsPart!BeginTurn, TurnsPart!End
<1>5. CASE TurnsPart!BeginStep
  BY <1>5 DEF TurnsPart!BeginStep, TurnsPart!End
<1>6. CASE TurnsPart!Step
  BY <1>6 DEF TurnsPart!Step
<1>7. CASE TurnsPart!StepLeaves
  BY <1>7 DEF TurnsPart!StepLeaves, TurnsPart!End
<1>8. CASE TurnsPart!AfterTurn
  BY <1>8 DEF TurnsPart!AfterTurn, TurnsPart!End
<1>9. CASE TurnsPart!Yield
  BY <1>9 DEF TurnsPart!Yield
<1>10. CASE TurnsPart!YieldStops
  BY <1>10 DEF TurnsPart!YieldStops, TurnsPart!End
<1>11. CASE TurnsPart!NextTurn
  BY <1>11 DEF TurnsPart!NextTurn, TurnsPart!End, TurnsPart!GoesOn
<1>12. CASE UNCHANGED TurnsPart!vars
  BY <1>12 DEF TurnsPart!vars, TurnsPart!locals, TurnsPart!history
<1> QED
  BY <1>1, <1>2, <1>3, <1>4, <1>5, <1>6, <1>7, <1>8, <1>9, <1>10, <1>11, <1>12
  DEF TurnsPart!Next

(* What Noted is for. *)
LEMMA NotedMeans == Noted => TurnsPart!ShownAreAnswered
BY DEF Noted, UsersOnly, TurnsPart!ShownAreAnswered

-----------------------------------------------------------------------------
\* Of the messages of H, those in s, in M and in q are, in that order, the ones of
\* a that are not in L; and so are those of any part of H.
InOrder(s, M, q, a, L, H) ==
  \A T \in SUBSET H : Keep(s, T) \o (Keep(M, T) \o Keep(q, T)) = Keep(a, T \ L)

\* A message that is queued is the last one sent.
LEMMA OrderQueues ==
  ASSUME NEW S, NEW s \in Seq(S), NEW M \in Seq(S), NEW q \in Seq(S), NEW a \in Seq(S),
         NEW L, NEW H, NEW m \in S \ L, InOrder(s, M, q, a, L, H)
  PROVE  InOrder(s, M, IF m \in H THEN Append(q, m) ELSE q, Append(a, m), L, H)
<1> DEFINE r == IF m \in H THEN Append(q, m) ELSE q
<1> SUFFICES ASSUME NEW T \in SUBSET H
             PROVE  Keep(s, T) \o (Keep(M, T) \o Keep(r, T)) = Keep(Append(a, m), T \ L)
  BY DEF InOrder
<1>1. Keep(s, T) \in Seq(S) /\ Keep(M, T) \in Seq(S) /\ Keep(q, T) \in Seq(S)
  BY KeepType
<1>2. Keep(r, T) = IF m \in T THEN Append(Keep(q, T), m) ELSE Keep(q, T)
  <2>1. Keep(Append(q, m), T) = IF m \in T THEN Append(Keep(q, T), m) ELSE Keep(q, T)
    BY KeepAppend
  <2> QED BY <2>1
<1>3. Keep(Append(a, m), T \ L)
        = IF m \in T THEN Append(Keep(a, T \ L), m) ELSE Keep(a, T \ L)
  <2>1. Keep(Append(a, m), T \ L)
          = IF m \in T \ L THEN Append(Keep(a, T \ L), m) ELSE Keep(a, T \ L)
    BY KeepAppend
  <2> QED BY <2>1
<1>4. Keep(s, T) \o (Keep(M, T) \o Keep(q, T)) = Keep(a, T \ L)
  BY DEF InOrder
<1>5. Keep(s, T) \o (Keep(M, T) \o Append(Keep(q, T), m))
        = Append(Keep(s, T) \o (Keep(M, T) \o Keep(q, T)), m)
  <2>1. /\ Keep(M, T) \o Append(Keep(q, T), m) = Append(Keep(M, T) \o Keep(q, T), m)
        /\ Keep(M, T) \o Keep(q, T) \in Seq(S)
    BY <1>1, AppendLater
  <2>2. Keep(s, T) \o Append(Keep(M, T) \o Keep(q, T), m)
          = Append(Keep(s, T) \o (Keep(M, T) \o Keep(q, T)), m)
    BY <1>1, <2>1, AppendLater
  <2> QED BY <2>1, <2>2
<1> HIDE DEF r
<1> QED BY <1>2, <1>3, <1>4, <1>5

\* A queue that is taken is what is to be yielded.
LEMMA OrderTakes ==
  ASSUME NEW S, NEW s \in Seq(S), NEW q \in Seq(S), NEW a, NEW L, NEW H,
         InOrder(s, <<>>, q, a, L, H)
  PROVE  InOrder(s, q, <<>>, a, L, H)
<1> SUFFICES ASSUME NEW T \in SUBSET H
             PROVE  Keep(s, T) \o (Keep(q, T) \o Keep(<<>>, T)) = Keep(a, T \ L)
  BY DEF InOrder
<1>1. Keep(<<>>, T) = <<>> /\ Keep(q, T) \in Seq(S)
  BY KeepEmpty, KeepType
<1>2. Keep(q, T) \o <<>> = Keep(q, T) /\ <<>> \o Keep(q, T) = Keep(q, T)
  BY <1>1
<1>3. Keep(s, T) \o (Keep(<<>>, T) \o Keep(q, T)) = Keep(a, T \ L)
  BY DEF InOrder
<1> QED BY <1>1, <1>2, <1>3

\* The order of one kind of messages is not that of another.
LEMMA OrderOfOthers ==
  ASSUME NEW S, NEW s \in Seq(S), NEW M \in Seq(S), NEW q \in Seq(S), NEW a, NEW L, NEW H,
         InOrder(s, <<>>, q, a, L, H), H \cap ElementsOf(M) = {}
  PROVE  InOrder(s, M, q, a, L, H)
<1> SUFFICES ASSUME NEW T \in SUBSET H
             PROVE  Keep(s, T) \o (Keep(M, T) \o Keep(q, T)) = Keep(a, T \ L)
  BY DEF InOrder
<1>1. T \cap ElementsOf(M) = {}
  OBVIOUS
<1>2. Keep(M, T) = <<>> /\ Keep(<<>>, T) = <<>>
  BY <1>1, KeepNone, KeepEmpty
<1>3. Keep(s, T) \o (Keep(<<>>, T) \o Keep(q, T)) = Keep(a, T \ L)
  BY DEF InOrder
<1> QED BY <1>2, <1>3

\* The first message that is to be yielded is the next one to be shown.
LEMMA OrderYields ==
  ASSUME NEW S, NEW s \in Seq(S), NEW M \in Seq(S), NEW q \in Seq(S), NEW a, NEW L, NEW H,
         M # <<>>, InOrder(s, M, q, a, L, H)
  PROVE  InOrder(Append(s, Head(M)), Tail(M), q, a, L, H)
<1> SUFFICES ASSUME NEW T \in SUBSET H
             PROVE  Keep(Append(s, Head(M)), T) \o (Keep(Tail(M), T) \o Keep(q, T))
                      = Keep(a, T \ L)
  BY DEF InOrder
<1> DEFINE h == Head(M)
<1>1. h \in S /\ Tail(M) \in Seq(S)
  OBVIOUS
<1> HIDE DEF h
<1>2. Keep(Append(s, h), T) = IF h \in T THEN Append(Keep(s, T), h) ELSE Keep(s, T)
  BY <1>1, KeepAppend
<1>3. Keep(M, T) = (IF h \in T THEN <<h>> ELSE <<>>) \o Keep(Tail(M), T)
  BY KeepFirst DEF h
<1>4. Keep(s, T) \in Seq(S) /\ Keep(Tail(M), T) \in Seq(S) /\ Keep(q, T) \in Seq(S)
  BY <1>1, KeepType
<1>5. Keep(s, T) \o (Keep(M, T) \o Keep(q, T)) = Keep(a, T \ L)
  BY DEF InOrder
<1>6. ASSUME NEW x \in Seq(S), NEW y \in Seq(S), NEW z \in Seq(S)
      PROVE  Append(x, h) \o (y \o z) = x \o ((<<h>> \o y) \o z)
  <2> DEFINE w == y \o z
  <2>1. w \in Seq(S) /\ Len(w) = Len(y) + Len(z) /\ <<h>> \o w \in Seq(S)
    BY <1>1
  <2>2. (<<h>> \o y) \o z = <<h>> \o w
    <3>1. (<<h>> \o y) \o z \in Seq(S) /\ Len((<<h>> \o y) \o z) = Len(<<h>> \o w)
      BY <1>1
    <3>2. \A i \in 1..Len(<<h>> \o w) : ((<<h>> \o y) \o z)[i] = (<<h>> \o w)[i]
      BY <1>1
    <3> QED BY <2>1, <3>1, <3>2, SeqEqual
  <2> HIDE DEF w
  <2>3. Append(x, h) \o w = x \o (<<h>> \o w)
    <3>1. /\ Append(x, h) \o w \in Seq(S) /\ x \o (<<h>> \o w) \in Seq(S)
          /\ Len(Append(x, h) \o w) = Len(x \o (<<h>> \o w))
      BY <1>1, <2>1
    <3>2. \A i \in 1..Len(Append(x, h) \o w) : (Append(x, h) \o w)[i] = (x \o (<<h>> \o w))[i]
      BY <1>1, <2>1
    <3> QED BY <3>1, <3>2, SeqEqual
  <2>4. Append(x, h) \o w = x \o ((<<h>> \o y) \o z)
    BY <2>2, <2>3
  <2> QED BY <2>4 DEF w
<1>7. ASSUME NEW y \in Seq(S)
      PROVE  <<>> \o y = y
  OBVIOUS
<1>8. CASE h \in T
  <2>1. Append(Keep(s, T), h) \o (Keep(Tail(M), T) \o Keep(q, T))
          = Keep(s, T) \o ((<<h>> \o Keep(Tail(M), T)) \o Keep(q, T))
    BY <1>4, <1>6, ZenonT(40)
  <2> QED BY <1>2, <1>3, <1>5, <1>8, <2>1 DEF h
<1>9. CASE h \notin T
  <2>1. Keep(M, T) = Keep(Tail(M), T)
    BY <1>3, <1>4, <1>7, <1>9
  <2> QED BY <1>2, <1>5, <1>9, <2>1 DEF h
<1> QED BY <1>8, <1>9

\* Messages that are taken, and not to be yielded any more, are lost.
LEMMA OrderLoses ==
  ASSUME NEW S, NEW s \in Seq(S), NEW M \in Seq(S), NEW q \in Seq(S), NEW a, NEW L, NEW H,
         InOrder(s, M, q, a, L, H),
         ElementsOf(M) \cap ElementsOf(s) = {}, ElementsOf(M) \cap ElementsOf(q) = {}
  PROVE  InOrder(s, <<>>, q, a, L \cup ElementsOf(M), H)
<1> SUFFICES ASSUME NEW T \in SUBSET H
             PROVE  Keep(s, T) \o (Keep(<<>>, T) \o Keep(q, T))
                      = Keep(a, T \ (L \cup ElementsOf(M)))
  BY DEF InOrder
<1> DEFINE U == T \ ElementsOf(M)
<1>1. /\ U \in SUBSET H /\ U \ L = T \ (L \cup ElementsOf(M))
      /\ U \cap ElementsOf(s) = T \cap ElementsOf(s)
      /\ U \cap ElementsOf(q) = T \cap ElementsOf(q)
      /\ U \cap ElementsOf(M) = {}
  OBVIOUS
<1> HIDE DEF U
<1>2. Keep(s, U) = Keep(s, T)
  BY <1>1, KeepSame
<1>3. Keep(q, U) = Keep(q, T)
  BY <1>1, KeepSame
<1>4. Keep(M, U) = <<>> /\ Keep(<<>>, T) = <<>>
  BY <1>1, KeepNone, KeepEmpty
<1>5. Keep(s, U) \o (Keep(M, U) \o Keep(q, U)) = Keep(a, U \ L)
  BY <1>1 DEF InOrder
<1> QED BY <1>1, <1>2, <1>3, <1>4, <1>5

-----------------------------------------------------------------------------
\* The queue that a kind of messages waits in.
QueueOf(how, p, f) == IF how = "steer" THEN p ELSE f
Hows == {"steer", "followUp"}

InPlace ==
  /\ shown \in Seq(TurnsPart!Message) /\ sent \in Seq(TurnsPart!Message)
  /\ lost \subseteq TurnsPart!Message
  /\ pending \in Seq(TurnsPart!Message) /\ followUp \in Seq(TurnsPart!Message)
  /\ ctrl \in [Messages : Seq(TurnsPart!Message), Continue : BOOLEAN, EndInvocation : BOOLEAN]
  /\ ctrl.Messages # <<>> => pc \in {"before", "yield"}

\* No message of p and f is twice there, or among those of s and M; nor is one of
\* M, or among those of s.
TurnsApart(s, M, p, f) ==
  /\ Distinct(M) /\ Distinct(p) /\ Distinct(f)
  /\ ElementsOf(p) \subseteq TurnsPart!Sent("steer")
  /\ ElementsOf(f) \subseteq TurnsPart!Sent("followUp")
  /\ ElementsOf(M) \cap ElementsOf(s) = {}
  /\ (ElementsOf(p) \cup ElementsOf(f)) \cap (ElementsOf(s) \cup ElementsOf(M)) = {}

\* The messages that were queued so far, and are not dropped from sight.
Known == ElementsOf(shown) \cup ElementsOf(ctrl.Messages) \cup ElementsOf(pending)
           \cup ElementsOf(followUp) \cup lost

\* Every message is in one place, and the places are in the order of the queue.
Placed ==
  /\ InPlace
  /\ TurnsApart(shown, ctrl.Messages, pending, followUp)
  /\ \A m \in Known : m.n <= Len(sent)
  /\ \A how \in Hows :
       InOrder(shown, ctrl.Messages, QueueOf(how, pending, followUp), sent, lost, TurnsPart!Sent(how))

(* llmAgent.run begins with nothing queued. *)
LEMMA PlacedFirst == TurnsPart!Init => Placed
<1> SUFFICES ASSUME TurnsPart!Init PROVE Placed
  OBVIOUS
<1>1. /\ shown = <<>> /\ sent = <<>> /\ pending = <<>> /\ followUp = <<>> /\ lost = {}
      /\ ctrl = [Messages |-> <<>>, Continue |-> FALSE, EndInvocation |-> FALSE]
  BY DEF TurnsPart!Init, TurnsPart!NoControl
<1>2. ctrl.Messages = <<>> /\ InPlace
  BY <1>1 DEF InPlace
<1>3. ElementsOf(<<>>) = {} /\ Distinct(<<>>)
  BY EmptyIsDistinct
<1>4. TurnsApart(shown, ctrl.Messages, pending, followUp) /\ Known = {}
  BY <1>1, <1>2, <1>3 DEF TurnsApart, Known
<1>5. ASSUME NEW how \in Hows
      PROVE  InOrder(shown, ctrl.Messages, QueueOf(how, pending, followUp), sent, lost, TurnsPart!Sent(how))
  <2>1. \A T : Keep(<<>>, T) = <<>>
    BY KeepEmpty
  <2>2. <<>> \o (<<>> \o <<>>) = <<>>
    OBVIOUS
  <2>3. QueueOf(how, pending, followUp) = <<>>
    BY <1>1 DEF QueueOf
  <2> QED BY <1>1, <1>2, <2>1, <2>2, <2>3 DEF InOrder
<1> QED BY <1>2, <1>4, <1>5 DEF Placed

\* A step that moves no message leaves them in their places.
LEMMA SamePlaces ==
  ASSUME Placed, UNCHANGED <<pending, followUp, sent, shown, lost>>,
         ctrl' \in [Messages : Seq(TurnsPart!Message), Continue : BOOLEAN, EndInvocation : BOOLEAN],
         ctrl'.Messages = ctrl.Messages,
         ctrl.Messages # <<>> => pc' \in {"before", "yield"}
  PROVE  Placed'
<1>1. InPlace' /\ Known' = Known
  BY DEF Placed, InPlace, Known
<1> QED BY <1>1 DEF Placed

\* A message that is queued is not one that is known.
LEMMA NewMessageIsNew ==
  ASSUME TurnsPart!TurnsAssumption, Placed, Len(sent) < MaxMessages,
         NEW how \in Hows \cup {"hook"}, NEW m \in TurnsPart!NewMessage(how)
  PROVE  m \in TurnsPart!Message \ Known /\ m.how = how /\ m.n = Len(sent) + 1
<1>1. Len(sent) \in Nat /\ MaxMessages \in Nat
  BY DEF Placed, InPlace, TurnsPart!TurnsAssumption
<1>2. m \in TurnsPart!Message /\ m.how = how /\ m.n = Len(sent) + 1
  BY <1>1 DEF TurnsPart!NewMessage, TurnsPart!Message, Hows
<1>3. ~(m.n <= Len(sent))
  BY <1>1, <1>2
<1> QED BY <1>2, <1>3 DEF Placed

\* Queuing a message, on the steering messages or the follow-ups.
LEMMA QueuedIsPlaced ==
  ASSUME TurnsPart!TurnsAssumption, Placed, Len(sent) < MaxMessages, NEW to \in Hows,
         NEW m \in TurnsPart!NewMessage(to), sent' = Append(sent, m),
         pending' = IF to = "steer" THEN Append(pending, m) ELSE pending,
         followUp' = IF to = "followUp" THEN Append(followUp, m) ELSE followUp,
         UNCHANGED <<shown, lost, ctrl, pc>>
  PROVE  Placed'
<1>1. /\ m \in TurnsPart!Message /\ m \notin Known /\ m.how = to /\ m.n = Len(sent) + 1
      /\ m \in TurnsPart!Sent(to)
  BY NewMessageIsNew DEF TurnsPart!Sent
<1>2. /\ shown \in Seq(TurnsPart!Message) /\ sent \in Seq(TurnsPart!Message)
      /\ pending \in Seq(TurnsPart!Message)
      /\ followUp \in Seq(TurnsPart!Message) /\ ctrl.Messages \in Seq(TurnsPart!Message)
  BY DEF Placed, InPlace
<1>3. InPlace'
  BY <1>1, <1>2 DEF Placed, InPlace, Hows
<1>4. /\ ElementsOf(Append(pending, m)) = ElementsOf(pending) \cup {m}
      /\ ElementsOf(Append(followUp, m)) = ElementsOf(followUp) \cup {m}
  BY <1>1, <1>2, ElementsOfAppend
<1>5. /\ ElementsOf(pending') = ElementsOf(pending) \cup (IF to = "steer" THEN {m} ELSE {})
      /\ ElementsOf(followUp') = ElementsOf(followUp) \cup (IF to = "followUp" THEN {m} ELSE {})
  BY <1>4
<1>6. Known' = Known \cup {m}
  BY <1>5 DEF Known, Hows
<1>7. \A x \in Known' : x.n <= Len(sent')
  <2>1. Len(sent') = Len(sent) + 1 /\ Len(sent) \in Nat
    BY <1>1, <1>2
  <2>2. \A x \in Known : x \in TurnsPart!Message
    BY <1>2 DEF Known, Placed, InPlace, ElementsOf
  <2> QED BY <1>1, <1>6, <2>1, <2>2 DEF Placed, TurnsPart!Message
<1>8. TurnsApart(shown', ctrl'.Messages, pending', followUp')
  <2>1. Distinct(pending')
    BY <1>1, <1>2, DistinctAppend DEF Placed, TurnsApart, Known
  <2>2. Distinct(followUp')
    BY <1>1, <1>2, DistinctAppend DEF Placed, TurnsApart, Known
  <2> QED BY <1>1, <1>5, <2>1, <2>2 DEF Placed, TurnsApart, Known
<1>9. ASSUME NEW how \in Hows
      PROVE  InOrder(shown', ctrl'.Messages, QueueOf(how, pending', followUp'), sent', lost',
                     TurnsPart!Sent(how))
  <2> DEFINE q == QueueOf(how, pending, followUp)
  <2>1. q \in Seq(TurnsPart!Message) /\ InOrder(shown, ctrl.Messages, q, sent, lost, TurnsPart!Sent(how))
    BY <1>2 DEF QueueOf, Placed
  <2>2. QueueOf(how, pending', followUp') = IF m \in TurnsPart!Sent(how) THEN Append(q, m) ELSE q
    BY <1>1 DEF QueueOf, Hows, TurnsPart!Sent
  <2> HIDE DEF q
  <2>3. m \in TurnsPart!Message \ lost
    BY <1>1 DEF Known
  <2>4. InOrder(shown, ctrl.Messages, IF m \in TurnsPart!Sent(how) THEN Append(q, m) ELSE q,
                Append(sent, m), lost, TurnsPart!Sent(how))
    BY <1>2, <2>1, <2>3, OrderQueues
  <2> QED BY <2>2, <2>4
<1> QED BY <1>3, <1>7, <1>8, <1>9 DEF Placed

\* What AfterTurn of the steering extension takes is in order, and apart from the
\* rest.
LEMMA TakenIsPlaced ==
  ASSUME Placed, ctrl.Messages = <<>>
  PROVE  /\ TurnsPart!Take.pending \in Seq(TurnsPart!Message)
         /\ TurnsPart!Take.followUp \in Seq(TurnsPart!Message)
         /\ TurnsPart!Take.Messages \in Seq(TurnsPart!Message)
         /\ TurnsPart!Take.Continue \in BOOLEAN
         /\ TurnsApart(shown, TurnsPart!Take.Messages, TurnsPart!Take.pending, TurnsPart!Take.followUp)
         /\ \A how \in Hows :
              InOrder(shown, TurnsPart!Take.Messages, QueueOf(how, TurnsPart!Take.pending, TurnsPart!Take.followUp), sent,
                      lost, TurnsPart!Sent(how))
         /\ ElementsOf(TurnsPart!Take.Messages) \cup ElementsOf(TurnsPart!Take.pending) \cup ElementsOf(TurnsPart!Take.followUp)
              = ElementsOf(pending) \cup ElementsOf(followUp)
<1>1. /\ shown \in Seq(TurnsPart!Message) /\ pending \in Seq(TurnsPart!Message)
      /\ followUp \in Seq(TurnsPart!Message)
      /\ <<>> \in Seq(TurnsPart!Message)
  BY DEF Placed, InPlace
<1>2. ElementsOf(<<>>) = {} /\ Distinct(<<>>)
  BY EmptyIsDistinct
<1>3. /\ Distinct(pending) /\ Distinct(followUp)
      /\ ElementsOf(pending) \subseteq TurnsPart!Sent("steer")
      /\ ElementsOf(followUp) \subseteq TurnsPart!Sent("followUp")
      /\ (ElementsOf(pending) \cup ElementsOf(followUp)) \cap ElementsOf(shown) = {}
      /\ TurnsPart!Sent("steer") \cap TurnsPart!Sent("followUp") = {}
  BY <1>2 DEF Placed, TurnsApart, TurnsPart!Sent
<1>4. /\ InOrder(shown, <<>>, pending, sent, lost, TurnsPart!Sent("steer"))
      /\ InOrder(shown, <<>>, followUp, sent, lost, TurnsPart!Sent("followUp"))
  BY DEF Placed, Hows, QueueOf
<1>5. CASE pending # <<>>
  <2>1. TurnsPart!Take = [pending |-> <<>>, followUp |-> followUp, Messages |-> pending, Continue |-> FALSE]
    BY <1>5 DEF TurnsPart!Take
  <2>2. TurnsApart(shown, pending, <<>>, followUp)
    BY <1>2, <1>3 DEF TurnsApart
  <2>3. InOrder(shown, pending, <<>>, sent, lost, TurnsPart!Sent("steer"))
    BY <1>1, <1>4, OrderTakes
  <2>4. InOrder(shown, pending, followUp, sent, lost, TurnsPart!Sent("followUp"))
    <3>1. TurnsPart!Sent("followUp") \cap ElementsOf(pending) = {}
      BY <1>3
    <3> QED BY <1>1, <1>4, <3>1, OrderOfOthers
  <2>5. \A how \in Hows :
          InOrder(shown, TurnsPart!Take.Messages, QueueOf(how, TurnsPart!Take.pending, TurnsPart!Take.followUp), sent, lost,
                  TurnsPart!Sent(how))
    BY <2>1, <2>3, <2>4 DEF Hows, QueueOf
  <2> QED BY <1>1, <1>2, <2>1, <2>2, <2>5
<1>6. CASE pending = <<>>
  <2>1. TurnsPart!Take = [pending |-> <<>>, followUp |-> <<>>, Messages |-> followUp,
                Continue |-> followUp # <<>>]
    BY <1>6 DEF TurnsPart!Take
  <2>2. TurnsApart(shown, followUp, <<>>, <<>>)
    BY <1>2, <1>3 DEF TurnsApart
  <2>3. InOrder(shown, followUp, <<>>, sent, lost, TurnsPart!Sent("followUp"))
    BY <1>1, <1>4, OrderTakes
  <2>4. InOrder(shown, followUp, <<>>, sent, lost, TurnsPart!Sent("steer"))
    <3>1. TurnsPart!Sent("steer") \cap ElementsOf(followUp) = {}
      BY <1>3
    <3> QED BY <1>1, <1>4, <1>6, <3>1, OrderOfOthers
  <2>5. \A how \in Hows :
          InOrder(shown, TurnsPart!Take.Messages, QueueOf(how, TurnsPart!Take.pending, TurnsPart!Take.followUp), sent, lost,
                  TurnsPart!Sent(how))
    BY <2>1, <2>3, <2>4 DEF Hows, QueueOf
  <2> QED BY <1>1, <1>2, <1>6, <2>1, <2>2, <2>5
<1> QED BY <1>5, <1>6

\* Messages that were to be yielded, and are not, are lost, and in no place.
LEMMA LostIsPlaced ==
  ASSUME Placed, NEW p \in Seq(TurnsPart!Message), NEW f \in Seq(TurnsPart!Message),
         NEW M \in Seq(TurnsPart!Message),
         TurnsApart(shown, M, p, f),
         \A how \in Hows : InOrder(shown, M, QueueOf(how, p, f), sent, lost, TurnsPart!Sent(how)),
         ElementsOf(M) \cup ElementsOf(p) \cup ElementsOf(f) \subseteq Known,
         pending' = p, followUp' = f, ctrl' = TurnsPart!NoControl, lost' = lost \cup TurnsPart!Members(M),
         UNCHANGED <<shown, sent>>
  PROVE  Placed'
<1>1. /\ shown \in Seq(TurnsPart!Message) /\ sent \in Seq(TurnsPart!Message)
      /\ lost \subseteq TurnsPart!Message
      /\ TurnsPart!Members(M) = ElementsOf(M) /\ ElementsOf(M) \subseteq TurnsPart!Message
  BY DEF Placed, InPlace, TurnsPart!Members, ElementsOf
<1>2. ctrl' \in [Messages : Seq(TurnsPart!Message), Continue : BOOLEAN, EndInvocation : BOOLEAN]
      /\ ctrl'.Messages = <<>>
  BY DEF TurnsPart!NoControl
<1>3. InPlace'
  BY <1>1, <1>2 DEF InPlace
<1>4. ElementsOf(<<>>) = {} /\ Distinct(<<>>)
  BY EmptyIsDistinct
<1>5. TurnsApart(shown', ctrl'.Messages, pending', followUp')
  BY <1>2, <1>4 DEF TurnsApart
<1>6. Known' \subseteq Known
  BY <1>1, <1>2, <1>4 DEF Known
<1>7. \A m \in Known' : m.n <= Len(sent')
  BY <1>6 DEF Placed
<1>8. ASSUME NEW how \in Hows
      PROVE  InOrder(shown, <<>>, QueueOf(how, p, f), sent, lost \cup ElementsOf(M), TurnsPart!Sent(how))
  <2> DEFINE q == QueueOf(how, p, f)
  <2>1. q \in Seq(TurnsPart!Message) /\ InOrder(shown, M, q, sent, lost, TurnsPart!Sent(how))
    BY DEF QueueOf
  <2>2. ElementsOf(M) \cap ElementsOf(shown) = {} /\ ElementsOf(M) \cap ElementsOf(q) = {}
    BY DEF TurnsApart, QueueOf
  <2> HIDE DEF q
  <2>3. InOrder(shown, <<>>, q, sent, lost \cup ElementsOf(M), TurnsPart!Sent(how))
    BY <1>1, <2>1, <2>2, OrderLoses
  <2> QED BY <2>3 DEF q
<1> QED BY <1>1, <1>2, <1>3, <1>5, <1>7, <1>8 DEF Placed

\* A message that is put first.
LEMMA PutFirst ==
  ASSUME NEW S, NEW s \in Seq(S), NEW e \in S, Distinct(s), e \notin ElementsOf(s)
  PROVE  /\ <<e>> \o s \in Seq(S) /\ Distinct(<<e>> \o s)
         /\ ElementsOf(<<e>> \o s) = ElementsOf(s) \cup {e}
<1> DEFINE t == <<e>> \o s
<1>1. /\ Len(s) \in Nat /\ DOMAIN s = 1..Len(s) /\ t \in Seq(S)
      /\ DOMAIN t = 1..(Len(s) + 1) /\ t[1] = e
      /\ \A i \in 1..Len(s) : t[i + 1] = s[i]
  OBVIOUS
<1> HIDE DEF t
<1>2. \A i \in DOMAIN t : i = 1 \/ (i - 1 \in DOMAIN s /\ t[i] = s[i - 1])
  BY <1>1
<1>3. Distinct(t)
  BY <1>1, <1>2 DEF Distinct, ElementsOf
<1>4. ElementsOf(t) = ElementsOf(s) \cup {e}
  <2>1. ElementsOf(t) \subseteq ElementsOf(s) \cup {e}
    BY <1>1, <1>2 DEF ElementsOf
  <2>2. e \in ElementsOf(t)
    BY <1>1 DEF ElementsOf
  <2>3. ASSUME NEW i \in DOMAIN s PROVE s[i] \in ElementsOf(t)
    <3>1. i + 1 \in DOMAIN t /\ t[i + 1] = s[i]
      BY <1>1
    <3> QED BY <3>1 DEF ElementsOf
  <2>4. ElementsOf(s) \subseteq ElementsOf(t)
    BY <2>3 DEF ElementsOf
  <2> QED BY <2>1, <2>2, <2>4
<1> QED BY <1>1, <1>3, <1>4 DEF t

\* The order of one kind of messages is not that of others, which are injected.
LEMMA OrderOfInjected ==
  ASSUME NEW S, NEW s \in Seq(S), NEW M \in Seq(S), NEW q \in Seq(S), NEW a \in Seq(S),
         NEW L, NEW H, InOrder(s, M, q, a, L, H), NEW o \in Seq(S), H \cap ElementsOf(o) = {}
  PROVE  InOrder(s, o \o M, q, a \o o, L, H) /\ InOrder(s, M \o o, q, a \o o, L, H)
<1> SUFFICES ASSUME NEW T \in SUBSET H
             PROVE  /\ Keep(s, T) \o (Keep(o \o M, T) \o Keep(q, T)) = Keep(a \o o, T \ L)
                    /\ Keep(s, T) \o (Keep(M \o o, T) \o Keep(q, T)) = Keep(a \o o, T \ L)
  BY DEF InOrder
<1>1. Keep(o, T) = <<>> /\ Keep(o, T \ L) = <<>>
  <2>1. T \cap ElementsOf(o) = {} /\ (T \ L) \cap ElementsOf(o) = {}
    OBVIOUS
  <2> QED BY <2>1, KeepNone
<1>2. Keep(M, T) \in Seq(S) /\ Keep(a, T \ L) \in Seq(S)
  BY KeepType
<1>3. Keep(o \o M, T) = Keep(o, T) \o Keep(M, T) /\ Keep(M \o o, T) = Keep(M, T) \o Keep(o, T)
  BY KeepConcat
<1>4. Keep(a \o o, T \ L) = Keep(a, T \ L) \o Keep(o, T \ L)
  <2>1. \A U : Keep(a \o o, U) = Keep(a, U) \o Keep(o, U)
    BY KeepConcat
  <2> QED BY <2>1
<1>5. /\ <<>> \o Keep(M, T) = Keep(M, T) /\ Keep(M, T) \o <<>> = Keep(M, T)
      /\ Keep(a, T \ L) \o <<>> = Keep(a, T \ L)
  BY <1>2
<1>6. Keep(s, T) \o (Keep(M, T) \o Keep(q, T)) = Keep(a, T \ L)
  BY DEF InOrder
<1>7. Keep(o \o M, T) = Keep(M, T) /\ Keep(M \o o, T) = Keep(M, T)
      /\ Keep(a \o o, T \ L) = Keep(a, T \ L)
  BY <1>1, <1>3, <1>4, <1>5
<1> QED BY <1>6, <1>7

\* A message that a hook injects, before or after those that are to be yielded.
LEMMA InjectedIsPlaced ==
  ASSUME TurnsPart!TurnsAssumption, Placed, NEW p \in Seq(TurnsPart!Message),
         NEW f \in Seq(TurnsPart!Message), NEW M \in Seq(TurnsPart!Message),
         TurnsApart(shown, M, p, f),
         \A how \in Hows : InOrder(shown, M, QueueOf(how, p, f), sent, lost, TurnsPart!Sent(how)),
         ElementsOf(M) \cup ElementsOf(p) \cup ElementsOf(f) \subseteq Known,
         NEW messages \in TurnsPart!Injections, NEW first \in BOOLEAN,
         pending' = p, followUp' = f, sent' = sent \o messages, pc' \in {"before", "yield"},
         NEW c \in BOOLEAN, NEW e \in BOOLEAN,
         ctrl' = [Messages |-> IF first THEN messages \o M ELSE M \o messages,
                  Continue |-> c, EndInvocation |-> e],
         UNCHANGED <<shown, lost>>
  PROVE  Placed'
<1>1. /\ shown \in Seq(TurnsPart!Message) /\ sent \in Seq(TurnsPart!Message)
      /\ lost \subseteq TurnsPart!Message
  BY DEF Placed, InPlace
<1>2. CASE messages = <<>>
  <2>1. ctrl'.Messages = M /\ sent' = sent
    BY <1>1, <1>2
  <2>2. InPlace'
    BY <1>1, <2>1 DEF InPlace
  <2>3. Known' \subseteq Known
    BY <2>1 DEF Known
  <2> QED BY <2>1, <2>2, <2>3 DEF Placed
<1>3. CASE messages # <<>>
  <2>1. PICK m \in TurnsPart!NewMessage("hook") : Len(sent) < MaxMessages /\ messages = <<m>>
    BY <1>3 DEF TurnsPart!Injections
  <2>2. /\ m \in TurnsPart!Message \ Known /\ m.how = "hook" /\ m.n = Len(sent) + 1
        /\ Len(sent) \in Nat
    BY <1>1, <2>1, NewMessageIsNew
  <2> DEFINE N == IF first THEN <<m>> \o M ELSE M \o <<m>>
  <2>3. N \in Seq(TurnsPart!Message) /\ Distinct(N) /\ ElementsOf(N) = ElementsOf(M) \cup {m}
    <3>1. m \notin ElementsOf(M) /\ Distinct(M)
      BY <2>2 DEF TurnsApart
    <3>2. M \o <<m>> = Append(M, m)
      OBVIOUS
    <3>3. /\ <<m>> \o M \in Seq(TurnsPart!Message) /\ Distinct(<<m>> \o M)
          /\ ElementsOf(<<m>> \o M) = ElementsOf(M) \cup {m}
      BY <2>2, <3>1, PutFirst
    <3>4. /\ M \o <<m>> \in Seq(TurnsPart!Message) /\ Distinct(M \o <<m>>)
          /\ ElementsOf(M \o <<m>>) = ElementsOf(M) \cup {m}
      <4>1. /\ Append(M, m) \in Seq(TurnsPart!Message) /\ Distinct(Append(M, m))
            /\ ElementsOf(Append(M, m)) = ElementsOf(M) \cup {m}
        BY <2>2, <3>1, DistinctAppend, ElementsOfAppend
      <4> QED BY <3>2, <4>1
    <3> QED BY <3>3, <3>4
  <2> HIDE DEF N
  <2>4. ctrl'.Messages = N
    BY <2>1 DEF N
  <2>5. sent' \in Seq(TurnsPart!Message) /\ Len(sent') = Len(sent) + 1
    BY <1>1, <2>1, <2>2
  <2>6. InPlace'
    BY <1>1, <2>3, <2>4, <2>5 DEF InPlace
  <2>7. TurnsApart(shown', ctrl'.Messages, pending', followUp')
    <3>1. m \notin ElementsOf(shown) /\ m \notin ElementsOf(p) \cup ElementsOf(f)
      BY <2>2 DEF Known
    <3>2. TurnsApart(shown, N, p, f)
      BY <2>3, <3>1 DEF TurnsApart
    <3> QED BY <2>4, <3>2
  <2>8. Known' \subseteq Known \cup {m}
    BY <2>3, <2>4 DEF Known
  <2>9. \A x \in Known' : x.n <= Len(sent')
    <3>1. \A x \in Known : x \in TurnsPart!Message /\ x.n <= Len(sent)
      BY DEF Known, Placed, InPlace, ElementsOf
    <3>2. \A x \in TurnsPart!Message : x.n \in Nat
      BY DEF TurnsPart!Message
    <3>3. ASSUME NEW x \in Known \cup {m} PROVE x.n <= Len(sent) + 1
      <4>1. CASE x \in Known
        <5>1. x.n \in Nat /\ x.n <= Len(sent) /\ Len(sent) \in Nat
          BY <2>2, <3>1, <3>2, <4>1
        <5> QED BY <5>1
      <4>2. CASE x = m
        BY <2>2, <4>2
      <4> QED BY <4>1, <4>2
    <3> QED BY <2>5, <2>8, <3>3
  <2>10. ASSUME NEW how \in Hows
         PROVE  InOrder(shown, N, QueueOf(how, p, f), sent \o <<m>>, lost, TurnsPart!Sent(how))
    <3> DEFINE q == QueueOf(how, p, f)
    <3>1. q \in Seq(TurnsPart!Message) /\ InOrder(shown, M, q, sent, lost, TurnsPart!Sent(how))
      BY DEF QueueOf
    <3>2. m \in TurnsPart!Message \ TurnsPart!Sent(how)
      BY <2>2 DEF TurnsPart!Sent, Hows
    <3> HIDE DEF q
    <3> DEFINE o == <<m>>
    <3>4. o \in Seq(TurnsPart!Message) /\ TurnsPart!Sent(how) \cap ElementsOf(o) = {}
      BY <3>2 DEF ElementsOf
    <3> HIDE DEF o
    <3>3. /\ InOrder(shown, o \o M, q, sent \o o, lost, TurnsPart!Sent(how))
          /\ InOrder(shown, M \o o, q, sent \o o, lost, TurnsPart!Sent(how))
      BY <1>1, <3>1, <3>4, OrderOfInjected
    <3> QED BY <3>3 DEF q, o, N
  <2> QED BY <2>1, <2>4, <2>6, <2>7, <2>9, <2>10 DEF Placed
<1> QED BY <1>2, <1>3

\* The AfterTurn hooks take what is queued; an error after that loses it.
LEMMA AfterTurnPlaces ==
  ASSUME TurnsPart!TurnsAssumption, Placed, TurnsPart!AfterTurn
  PROVE  Placed'
<1>1. pc = "after" /\ UNCHANGED shown
  BY DEF TurnsPart!AfterTurn
<1>2. ctrl.Messages = <<>> /\ TurnsPart!NoControl.Messages = <<>>
      /\ TurnsPart!NoControl \in [Messages : Seq(TurnsPart!Message), Continue : BOOLEAN, EndInvocation : BOOLEAN]
  BY <1>1 DEF Placed, InPlace, TurnsPart!NoControl
<1> DEFINE M == TurnsPart!Take.Messages
           p == TurnsPart!Take.pending
           f == TurnsPart!Take.followUp
<1>3. /\ p \in Seq(TurnsPart!Message) /\ f \in Seq(TurnsPart!Message)
      /\ M \in Seq(TurnsPart!Message) /\ TurnsPart!Take.Continue \in BOOLEAN
      /\ TurnsApart(shown, M, p, f)
      /\ \A how \in Hows : InOrder(shown, M, QueueOf(how, p, f), sent, lost, TurnsPart!Sent(how))
      /\ ElementsOf(M) \cup ElementsOf(p) \cup ElementsOf(f)
           = ElementsOf(pending) \cup ElementsOf(followUp)
  BY <1>2, TakenIsPlaced
<1>4. ElementsOf(M) \cup ElementsOf(p) \cup ElementsOf(f) \subseteq Known
  BY <1>3 DEF Known
<1>5. CASE TurnsPart!End("failed") /\ UNCHANGED <<pending, followUp, sent, lost>>
  BY <1>1, <1>2, <1>5, SamePlaces DEF TurnsPart!End
<1>6. CASE /\ pending' = p /\ followUp' = f
           /\ TurnsPart!End("failed") /\ lost' = lost \cup TurnsPart!Members(M)
           /\ UNCHANGED sent
  <2> HIDE DEF M, p, f
  <2> QED BY <1>1, <1>3, <1>4, <1>6, LostIsPlaced DEF TurnsPart!End
<1>7. CASE /\ pending' = p /\ followUp' = f /\ pc' = "yield" /\ lost' = lost
           /\ \E messages \in TurnsPart!Injections, first, c, e \in BOOLEAN :
                /\ sent' = sent \o messages
                /\ ctrl' = [Messages |-> IF first THEN messages \o M ELSE M \o messages,
                            Continue |-> c, EndInvocation |-> e]
  <2> HIDE DEF M, p, f
  <2>1. PICK messages \in TurnsPart!Injections, first \in BOOLEAN, c \in BOOLEAN, e \in BOOLEAN :
          /\ sent' = sent \o messages
          /\ ctrl' = [Messages |-> IF first THEN messages \o M ELSE M \o messages,
                      Continue |-> c, EndInvocation |-> e]
    BY <1>7
  <2>2. /\ pending' = p /\ followUp' = f /\ pc' \in {"before", "yield"}
        /\ UNCHANGED <<shown, lost>>
    BY <1>1, <1>7
  <2> QED BY <1>3, <1>4, <2>1, <2>2, InjectedIsPlaced
<1>8. PICK before, after \in {"nil", "continue", "end", "error"} :
        IF before = "error"
        THEN TurnsPart!End("failed") /\ UNCHANGED <<TurnsPart!extension, injected, sent, lost>>
        ELSE /\ pending' = TurnsPart!Take.pending /\ followUp' = TurnsPart!Take.followUp
             /\ IF after = "error"
                THEN /\ TurnsPart!End("failed") /\ lost' = lost \cup TurnsPart!Members(TurnsPart!Take.Messages)
                     /\ UNCHANGED <<injected, sent>>
                ELSE /\ turn < MaxTurns \/ "continue" \notin {before, after}
                     /\ pc' = "yield" /\ injected' = FALSE
                     /\ \E messages \in TurnsPart!Injections, first \in BOOLEAN :
                          /\ sent' = sent \o messages
                          /\ ctrl' = [Messages |-> IF first THEN messages \o TurnsPart!Take.Messages
                                                   ELSE TurnsPart!Take.Messages \o messages,
                                      Continue |-> TurnsPart!Take.Continue \/ "continue" \in {before, after},
                                      EndInvocation |-> "end" \in {before, after}]
                     /\ UNCHANGED <<verdict, lost>>
  BY DEF TurnsPart!AfterTurn
<1>9. CASE before = "error"
  BY <1>5, <1>8, <1>9 DEF TurnsPart!extension
<1>10. CASE before # "error" /\ after = "error"
  BY <1>6, <1>8, <1>10
<1>11. CASE before # "error" /\ after # "error"
  <2>1. (TurnsPart!Take.Continue \/ "continue" \in {before, after}) \in BOOLEAN
        /\ ("end" \in {before, after}) \in BOOLEAN
    OBVIOUS
  <2> QED BY <1>7, <1>8, <1>11, <2>1
<1> QED BY <1>9, <1>10, <1>11

\* A message that is yielded was the first to be so.
LEMMA YieldPlaces == Placed /\ TurnsPart!Yield => Placed'
<1> SUFFICES ASSUME Placed, TurnsPart!Yield PROVE Placed'
  OBVIOUS
<1> DEFINE M == ctrl.Messages
           h == Head(M)
<1>1. /\ M # <<>> /\ pc' \in {"before", "yield"} /\ shown' = Append(shown, M[1])
      /\ ctrl' = [ctrl EXCEPT !.Messages = Tail(M)]
      /\ UNCHANGED <<pending, followUp, sent, lost>>
  BY DEF TurnsPart!Yield, TurnsPart!extension
<1>2. /\ shown \in Seq(TurnsPart!Message) /\ M \in Seq(TurnsPart!Message)
      /\ Distinct(M) /\ h = M[1]
      /\ pending \in Seq(TurnsPart!Message) /\ followUp \in Seq(TurnsPart!Message)
  BY DEF Placed, InPlace, TurnsApart
<1> HIDE DEF M, h
<1>3. /\ h \in TurnsPart!Message /\ h \in ElementsOf(M)
      /\ Tail(M) \in Seq(TurnsPart!Message) /\ Distinct(Tail(M))
      /\ ElementsOf(Tail(M)) = ElementsOf(M) \ {h}
  BY <1>1, <1>2, HeadAndRest DEF h
<1>4. /\ ctrl' \in [Messages : Seq(TurnsPart!Message), Continue : BOOLEAN, EndInvocation : BOOLEAN]
      /\ ctrl'.Messages = Tail(M)
  BY <1>1, <1>3 DEF Placed, InPlace
<1>5. InPlace'
  BY <1>1, <1>2, <1>3, <1>4 DEF Placed, InPlace
<1>6. ElementsOf(shown') = ElementsOf(shown) \cup {h}
  BY <1>1, <1>2, <1>3, ElementsOfAppend
<1>7. TurnsApart(shown', ctrl'.Messages, pending', followUp')
  BY <1>1, <1>3, <1>4, <1>6 DEF Placed, TurnsApart, M
<1>8. Known' \subseteq Known
  BY <1>1, <1>3, <1>4, <1>6 DEF Known, M
<1>9. \A m \in Known' : m.n <= Len(sent')
  BY <1>1, <1>8 DEF Placed
<1>10. ASSUME NEW how \in Hows
       PROVE  InOrder(shown', ctrl'.Messages, QueueOf(how, pending', followUp'), sent', lost',
                      TurnsPart!Sent(how))
  <2> DEFINE q == QueueOf(how, pending, followUp)
  <2>1. q \in Seq(TurnsPart!Message) /\ InOrder(shown, M, q, sent, lost, TurnsPart!Sent(how))
    BY <1>2 DEF QueueOf, Placed, M
  <2> HIDE DEF q
  <2>2. InOrder(Append(shown, Head(M)), Tail(M), q, sent, lost, TurnsPart!Sent(how))
    BY <1>1, <1>2, <2>1, OrderYields
  <2> QED BY <1>1, <1>2, <1>4, <2>2 DEF q, h
<1> QED BY <1>5, <1>7, <1>9, <1>10 DEF Placed

(* Each step of llmAgent.run, and each call of the extension, keeps the messages in
   their places. *)
LEMMA PlacedStep == TurnsPart!TurnsAssumption /\ Placed /\ [TurnsPart!Next]_(TurnsPart!vars) => Placed'
<1> SUFFICES ASSUME TurnsPart!TurnsAssumption, Placed, [TurnsPart!Next]_(TurnsPart!vars) PROVE Placed'
  OBVIOUS
<1>a. /\ ctrl \in [Messages : Seq(TurnsPart!Message), Continue : BOOLEAN, EndInvocation : BOOLEAN]
      /\ TurnsPart!NoControl \in [Messages : Seq(TurnsPart!Message), Continue : BOOLEAN, EndInvocation : BOOLEAN]
      /\ TurnsPart!NoControl.Messages = <<>>
      /\ ctrl.Messages # <<>> => pc \in {"before", "yield"}
  BY DEF Placed, InPlace, TurnsPart!NoControl
<1>1. CASE TurnsPart!Steer
  <2>1. PICK m \in TurnsPart!NewMessage("steer") :
          /\ pending' = Append(pending, m) /\ sent' = Append(sent, m)
    BY <1>1 DEF TurnsPart!Steer
  <2>2. "steer" \in Hows /\ Len(sent) < MaxMessages
        /\ UNCHANGED <<followUp, shown, lost, ctrl, pc>>
    BY <1>1 DEF TurnsPart!Steer, TurnsPart!locals, Hows
  <2> QED BY <2>1, <2>2, QueuedIsPlaced
<1>2. CASE TurnsPart!FollowUp
  <2>1. PICK m \in TurnsPart!NewMessage("followUp") :
          /\ followUp' = Append(followUp, m) /\ sent' = Append(sent, m)
    BY <1>2 DEF TurnsPart!FollowUp
  <2>2. "followUp" \in Hows /\ Len(sent) < MaxMessages
        /\ UNCHANGED <<pending, shown, lost, ctrl, pc>>
    BY <1>2 DEF TurnsPart!FollowUp, TurnsPart!locals, Hows
  <2> QED BY <2>1, <2>2, QueuedIsPlaced
<1>3. CASE TurnsPart!Start
  BY <1>a, <1>3, SamePlaces DEF TurnsPart!Start, TurnsPart!extension
<1>4. CASE TurnsPart!BeginTurn
  <2>1. UNCHANGED <<pending, followUp, shown, lost>> /\ pc = "turn" /\ ctrl.Messages = <<>>
    BY <1>a, <1>4 DEF TurnsPart!BeginTurn, TurnsPart!extension
  <2>2. CASE (\E how \in {"failed", "gone"} : TurnsPart!End(how)) /\ UNCHANGED sent
    BY <1>a, <2>1, <2>2, SamePlaces DEF TurnsPart!End
  <2>3. ASSUME NEW messages \in TurnsPart!Injections, NEW end \in BOOLEAN,
               pc' = "before", sent' = sent \o messages,
               ctrl' = [Messages |-> messages, Continue |-> FALSE, EndInvocation |-> end]
        PROVE  Placed'
    <3> DEFINE M == ctrl.Messages
    <3>1. /\ M \in Seq(TurnsPart!Message) /\ pending \in Seq(TurnsPart!Message)
          /\ followUp \in Seq(TurnsPart!Message)
          /\ ElementsOf(M) \cup ElementsOf(pending) \cup ElementsOf(followUp) \subseteq Known
          /\ TurnsApart(shown, M, pending, followUp)
          /\ \A how \in Hows : InOrder(shown, M, QueueOf(how, pending, followUp), sent, lost, TurnsPart!Sent(how))
      BY DEF Placed, InPlace, Known
    <3>2. ctrl' = [Messages |-> IF FALSE THEN messages \o M ELSE M \o messages,
                   Continue |-> FALSE, EndInvocation |-> end]
      <4>1. messages \in Seq(TurnsPart!Message)
        <5>1. messages # <<>> =>
                \E m \in TurnsPart!NewMessage("hook") : messages = <<m>> /\ Len(sent) < MaxMessages
          BY DEF TurnsPart!Injections
        <5>2. \A m \in TurnsPart!NewMessage("hook") :
                Len(sent) < MaxMessages => m \in TurnsPart!Message
          BY NewMessageIsNew
        <5>3. CASE messages = <<>>
          BY <5>3
        <5>4. CASE messages # <<>>
          <6>1. PICK m \in TurnsPart!Message : messages = <<m>>
            BY <5>1, <5>2, <5>4
          <6> QED BY <6>1
        <5> QED BY <5>3, <5>4
      <4>2. <<>> \o messages = messages
        BY <4>1
      <4> QED BY <2>1, <2>3, <4>2
    <3>3. UNCHANGED <<pending, followUp, shown, lost>> /\ sent' = sent \o messages
          /\ pc' \in {"before", "yield"}
      BY <2>1, <2>3
    <3> HIDE DEF M
    <3> QED BY <3>1, <3>2, <3>3, InjectedIsPlaced
  <2> QED BY <1>4, <2>2, <2>3 DEF TurnsPart!BeginTurn
<1>5. CASE TurnsPart!BeginStep
  BY <1>a, <1>5, SamePlaces DEF TurnsPart!BeginStep, TurnsPart!End, TurnsPart!extension
<1>6. CASE TurnsPart!Step
  BY <1>a, <1>6, SamePlaces DEF TurnsPart!Step, TurnsPart!extension
<1>7. CASE TurnsPart!StepLeaves
  BY <1>a, <1>7, SamePlaces DEF TurnsPart!StepLeaves, TurnsPart!End, TurnsPart!extension
<1>8. CASE TurnsPart!AfterTurn
  BY <1>8, AfterTurnPlaces
<1>9. CASE TurnsPart!Yield
  BY <1>9, YieldPlaces
<1>10. CASE TurnsPart!YieldStops
  <2> DEFINE M == ctrl.Messages
  <2>1. /\ M \in Seq(TurnsPart!Message) /\ pending \in Seq(TurnsPart!Message)
        /\ followUp \in Seq(TurnsPart!Message)
        /\ ElementsOf(M) \cup ElementsOf(pending) \cup ElementsOf(followUp) \subseteq Known
        /\ TurnsApart(shown, M, pending, followUp)
        /\ \A how \in Hows : InOrder(shown, M, QueueOf(how, pending, followUp), sent, lost, TurnsPart!Sent(how))
    BY DEF Placed, InPlace, Known
  <2>2. /\ ctrl' = TurnsPart!NoControl /\ lost' = lost \cup TurnsPart!Members(M)
        /\ UNCHANGED <<pending, followUp, shown, sent>>
    BY <1>10 DEF TurnsPart!YieldStops, TurnsPart!End, TurnsPart!extension
  <2> HIDE DEF M
  <2> QED BY <2>1, <2>2, LostIsPlaced
<1>11. CASE TurnsPart!NextTurn
  BY <1>a, <1>11, SamePlaces DEF TurnsPart!NextTurn, TurnsPart!End, TurnsPart!extension
<1>12. CASE UNCHANGED TurnsPart!vars
  BY <1>a, <1>12, SamePlaces DEF TurnsPart!vars, TurnsPart!extension, TurnsPart!locals,
    TurnsPart!history
<1> QED
  BY <1>1, <1>2, <1>3, <1>4, <1>5, <1>6, <1>7, <1>8, <1>9, <1>10, <1>11, <1>12
  DEF TurnsPart!Next

\* Messages in order, put together.
LEMMA OrderMeans ==
  ASSUME NEW S, NEW s \in Seq(S), NEW M \in Seq(S), NEW q \in Seq(S), NEW a, NEW L, NEW H,
         InOrder(s, M, q, a, L, H)
  PROVE  Keep(s \o M \o q, H) = Keep(a, H \ L)
<1>1. Keep(s, H) \o (Keep(M, H) \o Keep(q, H)) = Keep(a, H \ L)
  BY DEF InOrder
<1>2. s \o M \in Seq(S)
  OBVIOUS
<1>3. Keep(s \o M, H) = Keep(s, H) \o Keep(M, H)
  BY KeepConcat
<1>4. Keep((s \o M) \o q, H) = Keep(s \o M, H) \o Keep(q, H)
  BY <1>2, KeepConcat, Zenon
<1>5. Keep(s, H) \in Seq(S) /\ Keep(M, H) \in Seq(S) /\ Keep(q, H) \in Seq(S)
  BY KeepType
<1>6. (Keep(s, H) \o Keep(M, H)) \o Keep(q, H) = Keep(s, H) \o (Keep(M, H) \o Keep(q, H))
  BY <1>5, SMTT(30)
<1> QED BY <1>1, <1>3, <1>4, <1>6

\* Keep is the same one.
LEMMA SameKeep == \A s, T : TurnsPart!Keep(s, T) = Keep(s, T)
BY DEF TurnsPart!Keep, Keep

(* What Placed is for. *)
LEMMA PlacedMeans == Placed => TurnsPart!QueuedAreShown
<1> SUFFICES ASSUME Placed, NEW how \in Hows
             PROVE  Keep(shown \o ctrl.Messages \o QueueOf(how, pending, followUp), TurnsPart!Sent(how))
                      = Keep(sent, TurnsPart!Sent(how) \ lost)
  BY SameKeep DEF TurnsPart!QueuedAreShown, Hows, QueueOf
<1> DEFINE q == QueueOf(how, pending, followUp)
           M == ctrl.Messages
<1>1. /\ shown \in Seq(TurnsPart!Message) /\ M \in Seq(TurnsPart!Message)
      /\ q \in Seq(TurnsPart!Message)
      /\ InOrder(shown, M, q, sent, lost, TurnsPart!Sent(how))
  BY DEF Placed, InPlace, QueueOf
<1> HIDE DEF q, M
<1>2. Keep(shown \o M \o q, TurnsPart!Sent(how)) = Keep(sent, TurnsPart!Sent(how) \ lost)
  BY <1>1, OrderMeans
<1> QED BY <1>2 DEF q, M

-----------------------------------------------------------------------------
(* McpClient: the callers of a connection. *)

\* What of the types the rest needs.  A session that was made is dead once it is
\* not open; a caller's requests have found dead ones only.
McpTypes ==
  /\ made \in Nat /\ alive \subseteq 1..made /\ session \in {None} \cup 1..made
  /\ canceled \subseteq Callers
  /\ op \in [Callers -> {None, "CallTool", "ListTools"}]
  /\ pc \in [Callers -> {"idle", "getSession", "fn", "refresh", "again"} \cup McpClientPart!Ends]
  /\ held \in [Callers -> {None} \cup Nat]
  /\ cursor \in [Callers -> [pages : Nat, of : {None} \cup Nat]]
  /\ tools \in [Callers -> Seq([of : Nat, page : Nat])]
  /\ hasReconnected \in [Callers -> BOOLEAN] /\ overtaken \in [Callers -> BOOLEAN]
  /\ foundClosed \in [Callers -> SUBSET (1..made \ alive)]
  /\ \A p \in Callers : held[p] \in {None} \cup 1..made
  /\ \A p \in Callers : pc[p] \in {"fn", "again"} => held[p] \in 1..made

\* The list of the first n pages of s.
PagesOf(s, n) == [i \in 1..n |-> [of |-> s, page |-> i]]

\* The pages that a caller has are the first ones of a session, and unless it was
\* overtaken, the next one will be of that session too.
ListOf(p) ==
  /\ pc[p] = "idle" => op[p] = None /\ tools[p] = <<>> /\ cursor[p] = McpClientPart!NoCursor
  /\ cursor[p].of = None => cursor[p].pages = 0
  /\ cursor[p].pages < Pages
  /\ op[p] = "ListTools" /\ ~overtaken[p] =>
       /\ pc[p] # "done" => tools[p] = PagesOf(cursor[p].of, cursor[p].pages)
       /\ pc[p] = "fn" => cursor[p].of \in {None, held[p]}
       /\ pc[p] = "done" => McpClientPart!WholeList(p)
ListInv == \A p \in Callers : ListOf(p)

\* There are two.
Two(S) == \E a, b \in S : a # b

\* A caller that has reconnected has a session that it has not found closed; so
\* the second time it reconnects, it has found two.
LostOf(p) ==
  /\ pc[p] = "idle" => ~hasReconnected[p]
  /\ pc[p] \in {"refresh", "again"} \/ hasReconnected[p] => foundClosed[p] # {}
  /\ pc[p] = "again" \/ (hasReconnected[p] /\ pc[p] \in {"getSession", "fn"}) =>
       session \notin foundClosed[p]
  /\ pc[p] = "again" \/ (hasReconnected[p] /\ pc[p] = "fn") => held[p] \notin foundClosed[p]
  /\ pc[p] = "lost" \/ (hasReconnected[p] /\ pc[p] \in {"refresh", "again"}) =>
       Two(foundClosed[p])
LostInv ==
  /\ canceled = {} => 1..made \subseteq alive \cup ended
  /\ \A p \in Callers : LostOf(p)

McpInv == McpTypes /\ ListInv /\ LostInv

\* What getSession and refreshConnection come to: the caller has the session that
\* there is, or a new one, or none can be made; `open' are the other open ones.
Given(p, then) ==
  /\ session # None /\ held' = [held EXCEPT ![p] = session]
  /\ pc' = [pc EXCEPT ![p] = then]
  /\ UNCHANGED <<session, alive, made>>
Connected(p, then, open) ==
  /\ p \notin canceled /\ made' = made + 1 /\ session' = made + 1
  /\ held' = [held EXCEPT ![p] = made + 1] /\ pc' = [pc EXCEPT ![p] = then]
  /\ alive' = open \cup {made + 1}
Unconnected(p, open) ==
  /\ session' = None /\ pc' = [pc EXCEPT ![p] = "unconnected"]
  /\ alive' = open /\ UNCHANGED <<made, held>>

LEMMA GetsSession ==
  ASSUME McpTypes, NEW p \in Callers, McpClientPart!GetSession(p)
  PROVE  Given(p, "fn") \/ Connected(p, "fn", alive) \/ Unconnected(p, alive)
BY DEF McpTypes, McpClientPart!GetSession, McpClientPart!Connect, McpClientPart!Opened,
  McpClientPart!End, Given, Connected, Unconnected

LEMMA Refreshes ==
  ASSUME McpTypes, NEW p \in Callers, McpClientPart!RefreshConnection(p)
  PROVE  \/ Given(p, "again") /\ session \in alive
         \/ Connected(p, "again", alive \ {session}) /\ ~McpClientPart!Keeps(p)
         \/ Unconnected(p, alive \ {session}) /\ ~McpClientPart!Keeps(p)
<1>1. CASE McpClientPart!Keeps(p)
  BY <1>1 DEF McpClientPart!RefreshConnection, McpClientPart!Keeps, Given
<1>2. CASE ~McpClientPart!Keeps(p)
  BY <1>2 DEF McpTypes, McpClientPart!RefreshConnection, McpClientPart!Connect,
    McpClientPart!Opened, McpClientPart!End, Connected, Unconnected
<1> QED BY <1>1, <1>2

LEMMA ConnectedTypes ==
  ASSUME McpTypes, NEW p \in Callers, NEW then \in {"fn", "again"},
         NEW open \in SUBSET alive, Connected(p, then, open)
  PROVE  /\ made' \in Nat /\ alive' \subseteq 1..made' /\ session' \in {None} \cup 1..made'
         /\ pc' \in [Callers -> {"idle", "getSession", "fn", "refresh", "again"}
                                   \cup McpClientPart!Ends]
         /\ held' \in [Callers -> {None} \cup Nat]
         /\ \A q \in Callers : held'[q] \in {None} \cup 1..made'
         /\ \A q \in Callers : pc'[q] \in {"fn", "again"} => held'[q] \in 1..made'
         /\ 1..made \ alive \subseteq 1..made' \ alive'
<1>1. made \in Nat /\ made + 1 \in 1..made' /\ made + 1 \notin 1..made /\ 1..made \subseteq 1..made'
  BY DEF McpTypes, Connected
<1>2. alive' \subseteq 1..made' /\ 1..made \ alive \subseteq 1..made' \ alive'
  BY <1>1 DEF McpTypes, Connected
<1>3. /\ held' \in [Callers -> {None} \cup Nat]
      /\ \A q \in Callers : held'[q] = IF q = p THEN made + 1 ELSE held[q]
      /\ \A q \in Callers : pc'[q] = IF q = p THEN then ELSE pc[q]
  BY <1>1 DEF McpTypes, Connected
<1>4. pc' \in [Callers -> {"idle", "getSession", "fn", "refresh", "again"}
                            \cup McpClientPart!Ends]
  BY DEF McpTypes, Connected
<1> QED BY <1>1, <1>2, <1>3, <1>4 DEF McpTypes, Connected

LEMMA UnconnectedTypes ==
  ASSUME McpTypes, NEW p \in Callers, NEW open \in SUBSET alive, Unconnected(p, open)
  PROVE  /\ made' \in Nat /\ alive' \subseteq 1..made' /\ session' \in {None} \cup 1..made'
         /\ pc' \in [Callers -> {"idle", "getSession", "fn", "refresh", "again"}
                                   \cup McpClientPart!Ends]
         /\ held' \in [Callers -> {None} \cup Nat]
         /\ \A q \in Callers : held'[q] \in {None} \cup 1..made'
         /\ \A q \in Callers : pc'[q] \in {"fn", "again"} => held'[q] \in 1..made'
         /\ 1..made \ alive \subseteq 1..made' \ alive'
<1>1. \A q \in Callers : pc'[q] = IF q = p THEN "unconnected" ELSE pc[q]
  BY DEF McpTypes, Unconnected
<1>2. pc' \in [Callers -> {"idle", "getSession", "fn", "refresh", "again"}
                            \cup McpClientPart!Ends]
  BY DEF McpTypes, Unconnected, McpClientPart!Ends
<1> QED BY <1>1, <1>2 DEF McpTypes, Unconnected

LEMMA McpTypesStep ==
  ASSUME McpTypes, [McpClientPart!Next]_(McpClientPart!vars)
  PROVE  McpTypes'
<1> USE DEF McpTypes, McpClientPart!listVars, McpClientPart!End, McpClientPart!Ends
<1>1. ASSUME NEW p \in Callers, McpClientPart!Start(p) PROVE McpTypes'
  BY <1>1 DEF McpClientPart!Start
<1>2. ASSUME NEW p \in Callers, McpClientPart!GetSession(p) PROVE McpTypes'
  <2>1. UNCHANGED <<canceled, op, cursor, tools, hasReconnected, foundClosed>>
        /\ overtaken' \in [Callers -> BOOLEAN]
    BY <1>2 DEF McpClientPart!GetSession
  <2>2. CASE Given(p, "fn")
    BY <2>1, <2>2 DEF Given
  <2>3. CASE Connected(p, "fn", alive)
    BY <2>1, <2>3, ConnectedTypes
  <2>4. CASE Unconnected(p, alive)
    BY <2>1, <2>4, UnconnectedTypes
  <2> QED BY <1>2, <2>2, <2>3, <2>4, GetsSession
<1>3. ASSUME NEW p \in Callers, McpClientPart!RefreshConnection(p) PROVE McpTypes'
  <2>1. UNCHANGED <<canceled, op, cursor, tools, hasReconnected, foundClosed, overtaken>>
    BY <1>3 DEF McpClientPart!RefreshConnection
  <2>2. CASE Given(p, "again")
    BY <2>1, <2>2 DEF Given
  <2>3. CASE Connected(p, "again", alive \ {session})
    BY <2>1, <2>3, ConnectedTypes
  <2>4. CASE Unconnected(p, alive \ {session})
    BY <2>1, <2>4, UnconnectedTypes
  <2> QED BY <1>3, <2>2, <2>3, <2>4, Refreshes
<1>4. ASSUME NEW p \in Callers, McpClientPart!Closed(p) PROVE McpTypes'
  BY <1>4 DEF McpClientPart!Closed
<1>5. ASSUME NEW p \in Callers, McpClientPart!Refused(p) PROVE McpTypes'
  BY <1>5 DEF McpClientPart!Refused
<1>6. ASSUME NEW p \in Callers, McpClientPart!Called(p) PROVE McpTypes'
  BY <1>6 DEF McpClientPart!Called
<1>7. ASSUME NEW p \in Callers, McpClientPart!Listed(p) PROVE McpTypes'
  <2> DEFINE page == [of |-> held[p], page |-> cursor[p].pages + 1]
  <2>1. /\ UNCHANGED <<session, alive, made, canceled, op, held, hasReconnected, overtaken,
                       foundClosed>>
        /\ tools' = [tools EXCEPT ![p] = Append(@, page)]
        /\ \/ pc' = [pc EXCEPT ![p] = "done"] /\ UNCHANGED cursor
           \/ /\ pc' = [pc EXCEPT ![p] = "getSession"]
              /\ cursor' = [cursor EXCEPT ![p] = [pages |-> page.page, of |-> page.of]]
    BY <1>7 DEF McpClientPart!Listed, McpClientPart!Page
  <2>2. page \in [of : Nat, page : Nat]
    BY <1>7 DEF McpClientPart!Listed, McpClientPart!Answered
  <2> DEFINE next == [pages |-> page.page, of |-> page.of]
  <2>3. next \in [pages : Nat, of : {None} \cup Nat]
    BY <2>2
  <2>4. /\ tools \in [Callers -> Seq([of : Nat, page : Nat])]
        /\ cursor \in [Callers -> [pages : Nat, of : {None} \cup Nat]]
    OBVIOUS
  <2> HIDE DEF page, next, McpTypes
  <2>5. tools' \in [Callers -> Seq([of : Nat, page : Nat])]
    BY <2>1, <2>2, <2>4
  <2>6. cursor' \in [Callers -> [pages : Nat, of : {None} \cup Nat]]
    <3>1. CASE UNCHANGED cursor
      BY <2>4, <3>1
    <3>2. CASE cursor' = [cursor EXCEPT ![p] = next]
      BY <2>3, <2>4, <3>2
    <3> QED BY <2>1, <3>1, <3>2 DEF next
  <2> USE DEF McpTypes
  <2>7. pc' \in [Callers -> {"idle", "getSession", "fn", "refresh", "again"}
                              \cup McpClientPart!Ends]
        /\ \A q \in Callers : pc'[q] \in {"fn", "again"} => pc[q] \in {"fn", "again"}
    BY <2>1
  <2> QED BY <2>1, <2>5, <2>6, <2>7
<1>8. ASSUME NEW p \in Callers, McpClientPart!Relisted(p) PROVE McpTypes'
  <2>1. /\ UNCHANGED <<session, alive, made, canceled, op, held, foundClosed>>
        /\ hasReconnected' \in [Callers -> BOOLEAN] /\ overtaken' \in [Callers -> BOOLEAN]
        /\ \/ pc' = [pc EXCEPT ![p] = "lost"] \/ pc' = [pc EXCEPT ![p] = "getSession"]
        /\ \/ UNCHANGED <<cursor, tools>>
           \/ /\ cursor' = [cursor EXCEPT ![p] = McpClientPart!NoCursor]
              /\ tools' = [tools EXCEPT ![p] = <<>>]
    BY <1>8 DEF McpClientPart!Relisted, McpClientPart!StartAgain
  <2>2. /\ tools \in [Callers -> Seq([of : Nat, page : Nat])] /\ <<>> \in Seq([of : Nat, page : Nat])
        /\ cursor \in [Callers -> [pages : Nat, of : {None} \cup Nat]]
        /\ McpClientPart!NoCursor \in [pages : Nat, of : {None} \cup Nat]
    BY DEF McpClientPart!NoCursor
  <2> HIDE DEF McpTypes
  <2>3. /\ tools' \in [Callers -> Seq([of : Nat, page : Nat])]
        /\ cursor' \in [Callers -> [pages : Nat, of : {None} \cup Nat]]
    BY <2>1, <2>2
  <2> USE DEF McpTypes
  <2>4. pc' \in [Callers -> {"idle", "getSession", "fn", "refresh", "again"}
                              \cup McpClientPart!Ends]
        /\ \A q \in Callers : pc'[q] \in {"fn", "again"} => pc[q] \in {"fn", "again"}
    BY <2>1
  <2> QED BY <2>1, <2>3, <2>4
<1>9. ASSUME NEW p \in Callers, McpClientPart!Cancel(p) PROVE McpTypes'
  BY <1>9 DEF McpClientPart!Cancel
<1>10. ASSUME NEW s \in alive, McpClientPart!Dies(s) PROVE McpTypes'
  BY <1>10 DEF McpClientPart!Dies
<1>11. CASE UNCHANGED McpClientPart!vars
  BY <1>11 DEF McpClientPart!vars
<1> QED
  BY <1>1, <1>2, <1>3, <1>4, <1>5, <1>6, <1>7, <1>8, <1>9, <1>10,
    <1>11 DEF McpClientPart!Next

\* Others can only give a caller's connection another session.
LEMMA SameLost ==
  ASSUME McpTypes, NEW q \in Callers, LostOf(q),
         pc'[q] = pc[q], hasReconnected'[q] = hasReconnected[q], held'[q] = held[q],
         foundClosed'[q] = foundClosed[q],
         session' = session \/ session' \notin 1..made
  PROVE  LostOf(q)'
<1>1. foundClosed[q] \subseteq 1..made
  BY DEF McpTypes
<1> QED BY <1>1 DEF LostOf

LEMMA LostStep ==
  ASSUME McpTypes, LostInv, [McpClientPart!Next]_(McpClientPart!vars)
  PROVE  LostInv'
<1> USE DEF McpClientPart!listVars
<1> DEFINE Rest == canceled = {} => 1..made \subseteq alive \cup ended
           Same(q) == /\ pc'[q] = pc[q] /\ hasReconnected'[q] = hasReconnected[q]
                      /\ held'[q] = held[q] /\ foundClosed'[q] = foundClosed[q]
           Session == session' = session \/ session' \notin 1..made
<1>a. ASSUME Session, Rest', NEW p \in Callers, \A q \in Callers \ {p} : Same(q), LostOf(p)'
      PROVE  LostInv'
  <2>1. \A q \in Callers \ {p} : LostOf(q)'
    BY <1>a, SameLost DEF LostInv
  <2> QED BY <1>a, <2>1 DEF LostInv
<1>b. ASSUME Session, Rest', \A q \in Callers : Same(q) PROVE LostInv'
  BY <1>b, SameLost DEF LostInv
<1>c. /\ Rest /\ \A p \in Callers : LostOf(p) /\ foundClosed[p] \subseteq 1..made \ alive
      /\ None \notin 1..made /\ made + 1 \notin 1..made /\ alive \subseteq 1..made
  BY PartsAssumption DEF LostInv, McpTypes, McpClientPart!McpClientAssumption
<1>d. /\ pc \in [Callers -> {"idle", "getSession", "fn", "refresh", "again"}
                              \cup McpClientPart!Ends]
      /\ hasReconnected \in [Callers -> BOOLEAN]
      /\ foundClosed \in [Callers -> SUBSET (1..made \ alive)]
      /\ held \in [Callers -> {None} \cup Nat]
  BY DEF McpTypes
<1>e. ASSUME NEW open, open = alive \/ open = alive \ {session},
             NEW p \in Callers, NEW then, Connected(p, then, open) \/ Unconnected(p, open),
             UNCHANGED <<canceled, ended>>, canceled = {} => open = alive
      PROVE  Session /\ Rest'
  <2>1. CASE Connected(p, then, open)
    <3>1. 1..made' \subseteq 1..made \cup {made + 1} /\ session' \notin 1..made
      BY <1>c, <2>1 DEF Connected, McpTypes
    <3> QED BY <1>c, <1>e, <2>1, <3>1 DEF Connected
  <2>2. CASE Unconnected(p, open)
    BY <1>c, <1>e, <2>2 DEF Unconnected
  <2> QED BY <1>e, <2>1, <2>2
<1>1. ASSUME NEW p \in Callers, McpClientPart!Start(p) PROVE LostInv'
  <2>1. Session /\ Rest' /\ \A q \in Callers \ {p} : Same(q)
    BY <1>1, <1>c, <1>d DEF McpClientPart!Start
  <2>2. LostOf(p)'
    BY <1>1, <1>c, <1>d DEF McpClientPart!Start, LostOf
  <2> QED BY <1>a, <2>1, <2>2
<1>2. ASSUME NEW p \in Callers, McpClientPart!GetSession(p) PROVE LostInv'
  <2>1. UNCHANGED <<canceled, hasReconnected, foundClosed, ended>> /\ pc[p] = "getSession"
    BY <1>2 DEF McpClientPart!GetSession
  <2>2. CASE Given(p, "fn")
    <3>1. Session /\ Rest' /\ \A q \in Callers \ {p} : Same(q)
      BY <1>c, <1>d, <2>1, <2>2 DEF Given
    <3>2. LostOf(p)'
      BY <1>c, <1>d, <2>1, <2>2 DEF Given, LostOf
    <3> QED BY <1>a, <3>1, <3>2
  <2>3. CASE Connected(p, "fn", alive)
    <3>1. Session /\ Rest'
      BY <1>e, <2>1, <2>3
    <3>2. \A q \in Callers \ {p} : Same(q)
      BY <1>d, <2>1, <2>3 DEF Connected
    <3>3. LostOf(p)'
      BY <1>c, <1>d, <2>1, <2>3 DEF Connected, LostOf
    <3> QED BY <1>a, <3>1, <3>2, <3>3
  <2>4. CASE Unconnected(p, alive)
    <3>1. Session /\ Rest'
      BY <1>e, <2>1, <2>4
    <3>2. \A q \in Callers \ {p} : Same(q)
      BY <1>d, <2>1, <2>4 DEF Unconnected
    <3>3. LostOf(p)'
      BY <1>c, <1>d, <2>1, <2>4 DEF Unconnected, LostOf
    <3> QED BY <1>a, <3>1, <3>2, <3>3
  <2> QED BY <1>2, <2>2, <2>3, <2>4, GetsSession
<1>3. ASSUME NEW p \in Callers, McpClientPart!RefreshConnection(p) PROVE LostInv'
  <2>1. UNCHANGED <<canceled, hasReconnected, foundClosed, ended>> /\ pc[p] = "refresh"
    BY <1>3 DEF McpClientPart!RefreshConnection
  <2>2. CASE Given(p, "again") /\ session \in alive
    <3>1. Session /\ Rest' /\ \A q \in Callers \ {p} : Same(q)
      BY <1>c, <1>d, <2>1, <2>2 DEF Given
    <3>2. LostOf(p)'
      BY <1>c, <1>d, <2>1, <2>2 DEF Given, LostOf
    <3> QED BY <1>a, <3>1, <3>2
  <2>3. ASSUME ~McpClientPart!Keeps(p) PROVE canceled = {} => alive \ {session} = alive
    BY <1>c, <2>3 DEF McpClientPart!Keeps
  <2>4. CASE Connected(p, "again", alive \ {session}) /\ ~McpClientPart!Keeps(p)
    <3>1. Session /\ Rest'
      BY <1>e, <2>1, <2>3, <2>4
    <3>2. \A q \in Callers \ {p} : Same(q)
      BY <1>d, <2>1, <2>4 DEF Connected
    <3>3. LostOf(p)'
      BY <1>c, <1>d, <2>1, <2>4 DEF Connected, LostOf
    <3> QED BY <1>a, <3>1, <3>2, <3>3
  <2>5. CASE Unconnected(p, alive \ {session}) /\ ~McpClientPart!Keeps(p)
    <3>1. Session /\ Rest'
      BY <1>e, <2>1, <2>3, <2>5
    <3>2. \A q \in Callers \ {p} : Same(q)
      BY <1>d, <2>1, <2>5 DEF Unconnected
    <3>3. LostOf(p)'
      BY <1>c, <1>d, <2>1, <2>5 DEF Unconnected, LostOf
    <3> QED BY <1>a, <3>1, <3>2, <3>3
  <2> QED BY <1>3, <2>2, <2>4, <2>5, Refreshes
<1>4. ASSUME NEW p \in Callers, McpClientPart!Closed(p) PROVE LostInv'
  <2>1. Session /\ Rest' /\ \A q \in Callers \ {p} : Same(q)
    BY <1>4, <1>c, <1>d DEF McpClientPart!Closed
  <2>2. /\ pc[p] \in {"fn", "again"}
        /\ pc'[p] = (IF pc[p] = "fn" THEN "refresh" ELSE "lost")
        /\ foundClosed'[p] = foundClosed[p] \cup {held[p]}
        /\ hasReconnected'[p] = hasReconnected[p]
    BY <1>4, <1>d DEF McpClientPart!Closed
  <2>3. ASSUME foundClosed[p] # {}, held[p] \notin foundClosed[p] PROVE Two(foundClosed[p])'
    BY <2>2, <2>3 DEF Two
  <2>4. LostOf(p)'
    BY <2>2, <2>3, <1>c DEF LostOf
  <2> QED BY <1>a, <2>1, <2>4
<1>5. ASSUME NEW p \in Callers,
             McpClientPart!Refused(p) \/ McpClientPart!Called(p) PROVE LostInv'
  <2>1. Session /\ Rest' /\ \A q \in Callers \ {p} : Same(q)
    BY <1>5, <1>c, <1>d DEF McpClientPart!Refused, McpClientPart!Called, McpClientPart!End
  <2>2. LostOf(p)'
    BY <1>5, <1>c, <1>d DEF McpClientPart!Refused, McpClientPart!Called,
      McpClientPart!End, LostOf
  <2> QED BY <1>a, <2>1, <2>2
<1>6. ASSUME NEW p \in Callers, McpClientPart!Listed(p) PROVE LostInv'
  <2>1. /\ UNCHANGED <<session, alive, made, canceled, held, hasReconnected, foundClosed, ended>>
        /\ pc[p] = "fn"
        /\ pc' = [pc EXCEPT ![p] = "done"] \/ pc' = [pc EXCEPT ![p] = "getSession"]
    BY <1>6 DEF McpClientPart!Listed, McpClientPart!Page, McpClientPart!End
  <2>2. Session /\ Rest' /\ \A q \in Callers \ {p} : Same(q)
    BY <2>1, <1>c, <1>d
  <2>3. LostOf(p)'
    BY <2>1, <1>c, <1>d DEF LostOf
  <2> QED BY <1>a, <2>2, <2>3
<1>7. ASSUME NEW p \in Callers, McpClientPart!Relisted(p) PROVE LostInv'
  <2>1. /\ UNCHANGED <<session, alive, made, canceled, held, foundClosed, ended>>
        /\ pc[p] = "again"
        /\ \/ pc' = [pc EXCEPT ![p] = "lost"] /\ hasReconnected[p] /\ UNCHANGED hasReconnected
           \/ /\ pc' = [pc EXCEPT ![p] = "getSession"]
              /\ hasReconnected' = [hasReconnected EXCEPT ![p] = TRUE]
    BY <1>7 DEF McpClientPart!Relisted, McpClientPart!End
  <2>2. Session /\ Rest' /\ \A q \in Callers \ {p} : Same(q)
    BY <2>1, <1>c, <1>d
  <2>3. LostOf(p)'
    BY <2>1, <1>c, <1>d DEF LostOf
  <2> QED BY <1>a, <2>2, <2>3
<1>8. ASSUME NEW p \in Callers, McpClientPart!Cancel(p) PROVE LostInv'
  BY <1>8, <1>b, <1>c DEF McpClientPart!Cancel
<1>9. ASSUME NEW s \in alive, McpClientPart!Dies(s) PROVE LostInv'
  BY <1>9, <1>b, <1>c DEF McpClientPart!Dies
<1>10. CASE UNCHANGED McpClientPart!vars
  BY <1>10, <1>b, <1>c DEF McpClientPart!vars
<1> QED
  BY <1>1, <1>2, <1>3, <1>4, <1>5, <1>6, <1>7, <1>8, <1>9, <1>10 DEF McpClientPart!Next


\* What others do leaves the list of a caller as it is.
LEMMA SameList ==
  ASSUME McpTypes, NEW q \in Callers, ListOf(q), 1..made \subseteq 1..made',
         op'[q] = op[q], pc'[q] = pc[q], held'[q] = held[q], cursor'[q] = cursor[q],
         tools'[q] = tools[q], overtaken'[q] = overtaken[q]
  PROVE  ListOf(q)'
<1>1. McpClientPart!WholeList(q) => McpClientPart!WholeList(q)'
  BY DEF McpClientPart!WholeList
<1> QED BY <1>1 DEF ListOf

\* A list and its next page.
LEMMA NextPage ==
  ASSUME NEW s \in Nat, NEW n \in Nat
  PROVE  /\ PagesOf(s, 0) = <<>>
         /\ Append(PagesOf(s, n), [of |-> s, page |-> n + 1]) = PagesOf(s, n + 1)
<1> DEFINE page == [of |-> s, page |-> n + 1]
<1>1. PagesOf(s, 0) = <<>>
  BY DEF PagesOf
<1>2. /\ PagesOf(s, n) \in Seq([of : Nat, page : Nat]) /\ Len(PagesOf(s, n)) = n
      /\ \A i \in 1..n : PagesOf(s, n)[i] = [of |-> s, page |-> i]
  BY DEF PagesOf
<1>3. /\ Append(PagesOf(s, n), page) \in Seq([of : Nat, page : Nat])
      /\ Len(Append(PagesOf(s, n), page)) = n + 1
      /\ \A i \in 1..(n + 1) : Append(PagesOf(s, n), page)[i] = [of |-> s, page |-> i]
  BY <1>2
<1>4. Append(PagesOf(s, n), page) = [i \in 1..(n + 1) |-> Append(PagesOf(s, n), page)[i]]
  BY <1>3
<1> QED BY <1>1, <1>3, <1>4 DEF PagesOf

\* The caller goes on without a change to its list, and its request is not next.
LEMMA GoesOn ==
  ASSUME McpTypes, NEW p \in Callers, ListOf(p), 1..made \subseteq 1..made',
         pc[p] \notin {"idle", "done"}, pc'[p] \notin {"idle", "fn", "done"},
         op'[p] = op[p], cursor'[p] = cursor[p], tools'[p] = tools[p],
         overtaken'[p] = overtaken[p]
  PROVE  ListOf(p)'
BY DEF ListOf

LEMMA ListStep ==
  ASSUME McpTypes, McpTypes', ListInv, [McpClientPart!Next]_(McpClientPart!vars)
  PROVE  ListInv'
<1> USE DEF McpClientPart!listVars
<1> DEFINE Same(q) == /\ op'[q] = op[q] /\ pc'[q] = pc[q] /\ held'[q] = held[q]
                      /\ cursor'[q] = cursor[q] /\ tools'[q] = tools[q]
                      /\ overtaken'[q] = overtaken[q]
           Made == 1..made \subseteq 1..made'
<1>a. ASSUME Made, NEW p \in Callers, \A q \in Callers \ {p} : Same(q), ListOf(p)'
      PROVE  ListInv'
  <2>1. \A q \in Callers \ {p} : ListOf(q)'
    BY <1>a, SameList DEF ListInv
  <2> QED BY <1>a, <2>1 DEF ListInv
<1>b. ASSUME Made, \A q \in Callers : Same(q) PROVE ListInv'
  BY <1>b, SameList DEF ListInv
<1>c. /\ op \in [Callers -> {None, "CallTool", "ListTools"}]
      /\ pc \in [Callers -> {"idle", "getSession", "fn", "refresh", "again"}
                              \cup McpClientPart!Ends]
      /\ held \in [Callers -> {None} \cup Nat]
      /\ cursor \in [Callers -> [pages : Nat, of : {None} \cup Nat]]
      /\ tools \in [Callers -> Seq([of : Nat, page : Nat])]
      /\ overtaken \in [Callers -> BOOLEAN] /\ made \in Nat
      /\ \A p \in Callers : pc[p] \in {"fn", "again"} => held[p] \in 1..made
  BY DEF McpTypes
<1>d. \A p \in Callers : ListOf(p)
  BY DEF ListInv
<1>1. ASSUME NEW p \in Callers, McpClientPart!Start(p) PROVE ListInv'
  <2>1. Made /\ (\A q \in Callers \ {p} : Same(q)) /\ pc[p] = "idle"
        /\ pc'[p] = "getSession" /\ tools'[p] = tools[p] /\ cursor'[p] = cursor[p]
        /\ overtaken'[p] = overtaken[p]
    BY <1>1, <1>c DEF McpClientPart!Start
  <2>2. tools[p] = <<>> /\ cursor[p] = McpClientPart!NoCursor /\ cursor[p].pages = 0
    BY <2>1, <1>d DEF ListOf, McpClientPart!NoCursor
  <2>3. tools[p] = PagesOf(cursor[p].of, cursor[p].pages)
    BY <2>2 DEF PagesOf
  <2>4. ListOf(p)'
    BY <2>1, <2>2, <2>3, <1>d DEF ListOf
  <2> QED BY <1>a, <2>1, <2>4
<1>2. ASSUME NEW p \in Callers, McpClientPart!GetSession(p) PROVE ListInv'
  <2>1. /\ UNCHANGED <<op, cursor, tools>> /\ pc[p] = "getSession"
        /\ overtaken' = [overtaken EXCEPT ![p] = @ \/ cursor[p].of \notin {None, held'[p]}]
    BY <1>2 DEF McpClientPart!GetSession
  <2>2. Made /\ (\A q \in Callers \ {p} : pc'[q] = pc[q] /\ held'[q] = held[q])
        /\ pc'[p] \in {"fn", "unconnected"}
    BY <1>2, <1>c, GetsSession DEF Given, Connected, Unconnected
  <2>3. overtaken'[p] = (overtaken[p] \/ cursor[p].of \notin {None, held'[p]})
        /\ \A q \in Callers \ {p} : overtaken'[q] = overtaken[q]
    BY <2>1, <1>c
  <2>4. ListOf(p)'
    BY <2>1, <2>2, <2>3, <1>d DEF ListOf
  <2> QED BY <1>a, <2>1, <2>2, <2>3, <2>4
<1>3. ASSUME NEW p \in Callers, McpClientPart!RefreshConnection(p) PROVE ListInv'
  <2>1. UNCHANGED <<op, cursor, tools, overtaken>> /\ pc[p] = "refresh"
    BY <1>3 DEF McpClientPart!RefreshConnection
  <2>2. Made /\ (\A q \in Callers \ {p} : pc'[q] = pc[q] /\ held'[q] = held[q])
        /\ pc'[p] \in {"again", "unconnected"}
    BY <1>3, <1>c, Refreshes DEF Given, Connected, Unconnected
  <2>3. ListOf(p)'
    BY <2>1, <2>2, <1>d, GoesOn
  <2> QED BY <1>a, <2>1, <2>2, <2>3
<1>4. ASSUME NEW p \in Callers, McpClientPart!Closed(p) \/ McpClientPart!Refused(p)
      PROVE  ListInv'
  <2>1. /\ UNCHANGED <<made, op, held, cursor, tools, overtaken>>
        /\ pc[p] \in {"fn", "again"}
        /\ pc'[p] \in {"refresh", "lost", "refused"}
        /\ \A q \in Callers \ {p} : pc'[q] = pc[q]
    BY <1>4, <1>c DEF McpClientPart!Closed, McpClientPart!Refused, McpClientPart!End
  <2>2. ListOf(p)'
    BY <2>1, <1>d, GoesOn
  <2> QED BY <1>a, <2>1, <2>2
<1>5. ASSUME NEW p \in Callers, McpClientPart!Called(p) PROVE ListInv'
  <2>1. /\ UNCHANGED <<made, op, held, cursor, tools, overtaken>> /\ op[p] = "CallTool"
        /\ pc'[p] \in {"done", "refused"} /\ \A q \in Callers \ {p} : pc'[q] = pc[q]
    BY <1>5, <1>c DEF McpClientPart!Called, McpClientPart!End
  <2>2. ListOf(p)'
    BY <2>1, <1>d DEF ListOf
  <2> QED BY <1>a, <2>1, <2>2
<1>6. ASSUME NEW p \in Callers, McpClientPart!Listed(p) PROVE ListInv'
  <2> DEFINE page == [of |-> held[p], page |-> cursor[p].pages + 1]
  <2>1. /\ UNCHANGED <<made, op, held, overtaken>> /\ pc[p] = "fn"
        /\ tools' = [tools EXCEPT ![p] = Append(@, page)]
        /\ \/ cursor[p].pages + 1 = Pages /\ pc' = [pc EXCEPT ![p] = "done"] /\ UNCHANGED cursor
           \/ /\ cursor[p].pages + 1 # Pages /\ pc' = [pc EXCEPT ![p] = "getSession"]
              /\ cursor' = [cursor EXCEPT ![p] = [pages |-> page.page, of |-> held[p]]]
    BY <1>6 DEF McpClientPart!Listed, McpClientPart!Page, McpClientPart!End
  <2>2. Made /\ \A q \in Callers \ {p} : Same(q)
    BY <2>1, <1>c
  <2>3. /\ held[p] \in 1..made /\ held[p] \in Nat /\ held[p] # None
        /\ cursor[p].pages \in Nat /\ tools'[p] = Append(tools[p], page)
        /\ cursor[p].pages < Pages /\ Pages \in Nat
    BY <2>1, <1>c, <1>d, PartsAssumption DEF ListOf, McpClientPart!McpClientAssumption
  <2>4. ASSUME op[p] = "ListTools", ~overtaken[p]
        PROVE  tools'[p] = PagesOf(held[p], cursor[p].pages + 1)
    <3>1. /\ tools[p] = PagesOf(cursor[p].of, cursor[p].pages)
          /\ cursor[p].of = held[p] \/ (cursor[p].of = None /\ cursor[p].pages = 0)
      BY <2>1, <2>4, <1>d DEF ListOf
    <3>2. tools[p] = PagesOf(held[p], cursor[p].pages)
      BY <3>1 DEF PagesOf
    <3> QED BY <2>3, <3>2, NextPage
  <2>5. CASE cursor[p].pages + 1 = Pages
    <3>1. pc'[p] = "done" /\ UNCHANGED <<cursor, op, overtaken, made>>
      BY <2>1, <2>5, <1>c
    <3>2. op[p] = "ListTools" /\ ~overtaken[p] => McpClientPart!WholeList(p)'
      BY <2>3, <2>4, <2>5, <3>1 DEF PagesOf, McpClientPart!WholeList
    <3>3. ListOf(p)'
      BY <2>1, <3>1, <3>2, <1>d DEF ListOf
    <3> QED BY <1>a, <2>2, <3>3
  <2>6. CASE cursor[p].pages + 1 # Pages
    <3>1. /\ pc'[p] = "getSession" /\ UNCHANGED <<op, overtaken, made>>
          /\ cursor'[p].pages = cursor[p].pages + 1 /\ cursor'[p].of = held[p]
      BY <2>1, <2>6, <1>c
    <3>2. cursor'[p].pages < Pages
      BY <2>3, <2>6, <3>1
    <3>3. ListOf(p)'
      BY <2>3, <2>4, <3>1, <3>2 DEF ListOf
    <3> QED BY <1>a, <2>2, <3>3
  <2> QED BY <2>5, <2>6
<1>7. ASSUME NEW p \in Callers, McpClientPart!Relisted(p) PROVE ListInv'
  <2>1. /\ UNCHANGED <<made, op, held>> /\ pc[p] = "again"
        /\ \/ pc' = [pc EXCEPT ![p] = "lost"] /\ UNCHANGED <<cursor, tools, overtaken>>
           \/ /\ pc' = [pc EXCEPT ![p] = "getSession"]
              /\ cursor' = [cursor EXCEPT ![p] = McpClientPart!NoCursor]
              /\ tools' = [tools EXCEPT ![p] = <<>>]
              /\ overtaken' = [overtaken EXCEPT ![p] = FALSE]
    BY <1>7 DEF McpClientPart!Relisted, McpClientPart!StartAgain, McpClientPart!End
  <2>2. Made /\ \A q \in Callers \ {p} : Same(q)
    BY <2>1, <1>c
  <2>3. CASE pc' = [pc EXCEPT ![p] = "lost"] /\ UNCHANGED <<cursor, tools, overtaken>>
    <3>1. ListOf(p)'
      BY <2>1, <2>3, <1>c, <1>d, GoesOn
    <3> QED BY <1>a, <2>2, <3>1
  <2>4. CASE /\ pc' = [pc EXCEPT ![p] = "getSession"]
             /\ cursor' = [cursor EXCEPT ![p] = McpClientPart!NoCursor]
             /\ tools' = [tools EXCEPT ![p] = <<>>]
    <3>1. /\ pc'[p] = "getSession" /\ tools'[p] = <<>> /\ cursor'[p].pages = 0
          /\ cursor'[p].of = None
      BY <2>4, <1>c DEF McpClientPart!NoCursor
    <3>2. tools'[p] = PagesOf(cursor'[p].of, cursor'[p].pages)
      BY <3>1 DEF PagesOf
    <3>3. ListOf(p)'
      BY <3>1, <3>2, PartsAssumption DEF ListOf, McpClientPart!McpClientAssumption
    <3> QED BY <1>a, <2>2, <3>3
  <2> QED BY <2>1, <2>3, <2>4
<1>8. ASSUME NEW p \in Callers, McpClientPart!Cancel(p) PROVE ListInv'
  BY <1>8, <1>b DEF McpClientPart!Cancel
<1>9. ASSUME NEW s \in alive, McpClientPart!Dies(s) PROVE ListInv'
  BY <1>9, <1>b DEF McpClientPart!Dies
<1>10. CASE UNCHANGED McpClientPart!vars
  BY <1>10, <1>b DEF McpClientPart!vars
<1> QED
  BY <1>1, <1>2, <1>3, <1>4, <1>5, <1>6, <1>7, <1>8, <1>9, <1>10 DEF McpClientPart!Next

LEMMA McpFirst ==
  ASSUME McpClientPart!Init
  PROVE  McpInv
<1> USE DEF McpClientPart!Init
<1>1. McpTypes
  BY DEF McpTypes, McpClientPart!NoCursor
<1>2. ListInv
  <2>1. \A p \in Callers : /\ pc[p] = "idle" /\ op[p] = None /\ tools[p] = <<>>
                           /\ cursor[p] = McpClientPart!NoCursor
                           /\ cursor[p].pages = 0 /\ cursor[p].of = None
    BY DEF McpClientPart!NoCursor
  <2>2. \A p \in Callers : tools[p] = PagesOf(cursor[p].of, cursor[p].pages)
    BY <2>1 DEF PagesOf
  <2>3. 0 < Pages
    BY PartsAssumption DEF McpClientPart!McpClientAssumption
  <2> QED BY <2>1, <2>2, <2>3 DEF ListInv, ListOf
<1>3. LostInv
  BY DEF LostInv, LostOf
<1> QED BY <1>1, <1>2, <1>3 DEF McpInv

\* Two members are at least two in number.
LEMMA TwoAreTwo ==
  ASSUME NEW S, IsFiniteSet(S), Two(S)
  PROVE  Cardinality(S) >= 2
<1>1. PICK a \in S, b \in S : a # b
  BY DEF Two
<1>2. IsFiniteSet({a, b}) /\ Cardinality({a, b}) = 2
  <2>1. IsFiniteSet({a}) /\ Cardinality({a}) = 1
    BY FS_Singleton
  <2>2. {a, b} = {a} \cup {b}
    OBVIOUS
  <2> QED BY <1>1, <2>1, <2>2, FS_AddElement
<1>3. Cardinality({a, b}) <= Cardinality(S)
  BY FS_Subset
<1>4. Cardinality(S) \in Nat
  BY FS_CardinalityType
<1> QED BY <1>2, <1>3, <1>4

LEMMA McpMeans ==
  ASSUME McpInv
  PROVE  McpClientPart!ListIsOfOneSession /\ McpClientPart!LostTwice
<1>1. McpClientPart!ListIsOfOneSession
  BY DEF McpInv, ListInv, ListOf, McpClientPart!ListIsOfOneSession
<1>2. ASSUME NEW p \in Callers, pc[p] = "lost", canceled = {}
      PROVE  Cardinality(foundClosed[p] \cap ended) >= 2
  <2>1. /\ foundClosed[p] \subseteq (1..made) \ alive
        /\ 1..made \subseteq alive \cup ended
        /\ Two(foundClosed[p]) /\ made \in Nat
    BY <1>2 DEF McpInv, McpTypes, LostInv, LostOf
  <2>2. foundClosed[p] \cap ended = foundClosed[p]
    BY <2>1
  <2>3. IsFiniteSet(foundClosed[p])
    <3>1. IsFiniteSet(1..made)
      BY <2>1, FS_Interval
    <3> QED BY <2>1, <3>1, FS_Subset
  <2> QED BY <2>1, <2>2, <2>3, TwoAreTwo
<1>3. \A S : McpClientPart!Cardinality(S) = Cardinality(S)
  BY DEF McpClientPart!Cardinality, Cardinality
<1> QED BY <1>1, <1>2, <1>3 DEF McpClientPart!LostTwice

-----------------------------------------------------------------------------
(* Hooks: the extensions around a run. *)

\* What of the types the rest needs.
HooksTypes ==
  /\ stage \in {"idle", "BeforeRun", "OnEvent", "BeforeModelCall", "model", "BeforeToolCall",
               "tool", "resume", "AfterRun"}
  /\ spoken \in Nat /\ call \in 0..spoken
  /\ written \in Seq([kind : {"message", "result"}, call : Nat \ {0}])
  /\ checkpoint \in {None} \cup [call : 1..spoken, found : BOOLEAN]
  /\ resumeRun \in BOOLEAN /\ wroteInterruptCheckpoint \in BOOLEAN
  /\ executed \subseteq 1..spoken /\ refused \subseteq 1..spoken

\* The messages that make and those that answer a call.
MessageOf(c) == \E i \in DOMAIN written : written[i] = [kind |-> "message", call |-> c]
ResultOf(c) == \E i \in DOMAIN written : written[i] = [kind |-> "result", call |-> c]

\* The call that is pending, and whether the run is still to settle the one it began with.
IsPending(c) == checkpoint # None /\ checkpoint.call = c
Resuming == resumeRun /\ ~wroteInterruptCheckpoint
Past == stage \notin {"idle", "BeforeRun", "resume"}

\* A call that no tool and no extension has decided on, and that can be answered.
IsNew(c) == c \in (1..spoken) \ (executed \cup refused) /\ c = spoken /\ ~IsPending(c)
IsSaid(c) == c \in meddled \/ MessageOf(c)

EventInv ==
  /\ event.kind \in {"message", "result", "interrupt"} /\ event.call = call
  /\ event.kind = "message" =>
       /\ event.next = (IF call = 0 THEN "AfterRun" ELSE "BeforeToolCall")
       /\ call # 0 => IsNew(call)
  /\ event.kind = "result" => call # 0 /\ IsSaid(call) /\ event.next = "BeforeModelCall"
  /\ event.kind = "interrupt" => IsNew(call) /\ IsSaid(call) /\ event.next = "AfterRun"

\* What is in hand at each stage.
StageInv ==
  /\ stage \notin {"OnEvent", "BeforeToolCall", "tool"} => call = 0
  /\ stage \in {"BeforeToolCall", "tool"} => IsNew(call) /\ IsSaid(call)
  /\ stage = "OnEvent" => EventInv
  /\ stage = "resume" => resumeRun
  /\ wroteInterruptCheckpoint => stage \in {"AfterRun", "idle"} /\ checkpoint # None
  /\ stage # "idle" /\ ~wroteInterruptCheckpoint => resumeRun = (checkpoint # None)

\* The pending call can be resumed, no extension has refused it, and it was
\* executed only by a run that is to settle it or has failed to.
PendingInv ==
  checkpoint # None =>
    /\ checkpoint.found \/ checkpoint.call \in meddled
    /\ checkpoint.found => MessageOf(checkpoint.call)
    /\ checkpoint.call \notin refused
    /\ checkpoint.call \in executed =>
         checkpoint.call \in broken \/ (Past /\ ~wroteInterruptCheckpoint)

\* A call that was made is answered, pending or in hand.
CallsInv ==
  /\ \A c \in Nat \ {0} : MessageOf(c) =>
       c \in meddled \cup broken \/ ResultOf(c) \/ IsPending(c) \/ c = call
  /\ Past /\ Resuming =>
       \/ checkpoint.call \in meddled \cup broken \/ ResultOf(checkpoint.call)
       \/ stage = "OnEvent" /\ event.kind = "result" /\ call = checkpoint.call
  /\ \A i \in DOMAIN written :
       \/ written[i].kind = "message" \/ written[i].call \in meddled
       \/ \E j \in 1..(i - 1) : written[j] = [kind |-> "message", call |-> written[i].call]

HooksInv ==
  /\ HooksTypes /\ StageInv /\ PendingInv /\ CallsInv
  /\ executed \cap refused = {} /\ twice \subseteq broken

\* A call that goes to its tool has not been paused by an extension.
HaltedInv ==
  /\ halted \subseteq 1..spoken
  /\ stage \in {"BeforeToolCall", "tool"} => call \notin halted
  /\ stage = "OnEvent" /\ event.kind = "message" /\ event.next = "BeforeToolCall"
       => call \notin halted

\* A run that fails or is stopped settles nothing: what it had in hand is broken.
LEMMA FailsKeeps ==
  ASSUME HooksInv, stage # "idle", HooksPart!Fails
  PROVE  HooksInv'
<1> USE DEF HooksInv
<1> DEFINE inHand == ({call} \cup IF Resuming THEN {checkpoint.call} ELSE {}) \ {0}
<1>1. /\ stage' = "idle" /\ call' = 0 /\ broken' = broken \cup inHand
      /\ UNCHANGED <<spoken, written, checkpoint, wroteInterruptCheckpoint, resumeRun, refused,
                     executed, twice, meddled>>
  BY DEF HooksPart!Fails, HooksPart!Over, HooksPart!rest, HooksPart!storeVars,
    HooksPart!historyVars, Resuming
<1>2. checkpoint # None => checkpoint.call \in 1..spoken /\ checkpoint.call # 0
  BY DEF HooksTypes
<1>3. HooksTypes'
  BY <1>1 DEF HooksTypes
<1>4. StageInv'
  BY <1>1 DEF StageInv
<1>5. PendingInv'
  <2>1. checkpoint # None /\ ~wroteInterruptCheckpoint => checkpoint.call \in inHand
    BY <1>2 DEF StageInv, Resuming
  <2> HIDE DEF inHand
  <2> QED BY <1>1, <2>1 DEF PendingInv, MessageOf
<1>6. CallsInv'
  <2>1. \A c \in Nat \ {0} : c = call => c \in inHand
    OBVIOUS
  <2> HIDE DEF inHand
  <2> QED BY <1>1, <2>1 DEF CallsInv, MessageOf, ResultOf, IsPending, Past
<1> HIDE DEF inHand
<1> QED BY <1>1, <1>3, <1>4, <1>5, <1>6

\* A hook that passes.
LEMMA GoToKeeps ==
  ASSUME HooksInv, NEW next, HooksPart!GoTo(next),
         \/ stage = "BeforeRun" /\ next = (IF resumeRun THEN "resume" ELSE "BeforeModelCall")
         \/ stage = "BeforeModelCall" /\ next = "model"
  PROVE  HooksInv'
<1> USE DEF HooksInv
<1>1. /\ stage' = next
      /\ UNCHANGED <<spoken, written, checkpoint, wroteInterruptCheckpoint, resumeRun, refused,
                     executed, twice, meddled, call, event, broken>>
  BY DEF HooksPart!GoTo, HooksPart!rest, HooksPart!storeVars, HooksPart!historyVars
<1>2. HooksTypes'
  BY <1>1 DEF HooksTypes
<1>3. StageInv'
  BY <1>1 DEF StageInv
<1>4. PendingInv'
  BY <1>1 DEF PendingInv, MessageOf, Past, StageInv
<1>5. CallsInv'
  BY <1>1 DEF CallsInv, MessageOf, ResultOf, IsPending, Past, Resuming, StageInv
<1> QED BY <1>1, <1>2, <1>3, <1>4, <1>5

LEMMA StartKeeps ==
  ASSUME HooksInv, HooksPart!Start
  PROVE  HooksInv'
<1> USE DEF HooksInv
<1>1. /\ stage = "idle" /\ stage' = "BeforeRun" /\ resumeRun' = (checkpoint # None)
      /\ wroteInterruptCheckpoint' = FALSE
      /\ UNCHANGED <<spoken, written, checkpoint, refused, executed, twice, meddled, call,
                     event, broken>>
  BY DEF HooksPart!Start, HooksPart!historyVars
<1>2. HooksTypes'
  BY <1>1 DEF HooksTypes
<1>3. StageInv'
  BY <1>1 DEF StageInv
<1>4. PendingInv'
  BY <1>1 DEF PendingInv, MessageOf, Past, StageInv
<1>5. CallsInv'
  BY <1>1 DEF CallsInv, MessageOf, ResultOf, IsPending, Past, Resuming, StageInv
<1> QED BY <1>1, <1>2, <1>3, <1>4, <1>5

\* An extension gives the message of the run in its place: what is pending is dropped.
LEMMA BeforeRunKeeps ==
  ASSUME HooksInv, HooksPart!BeforeRun
  PROVE  HooksInv'
<1>1. CASE HooksPart!Fails
  BY <1>1, FailsKeeps DEF HooksPart!BeforeRun
<1>2. CASE HooksPart!GoTo(IF resumeRun THEN "resume" ELSE "BeforeModelCall")
  BY <1>2, GoToKeeps DEF HooksPart!BeforeRun
<1>3. ASSUME HooksPart!Emit("message", 0, "AfterRun"),
             meddled' = meddled \cup (IF resumeRun THEN {checkpoint.call} ELSE {}),
             UNCHANGED <<HooksPart!storeVars, spoken, resumeRun, call, refused, executed, twice,
                         broken>>
      PROVE  HooksInv'
  <2> USE DEF HooksInv
  <2>1. /\ stage = "BeforeRun" /\ stage' = "OnEvent" /\ event'.kind = "message"
        /\ event'.call = 0 /\ event'.next = "AfterRun"
        /\ UNCHANGED <<spoken, written, checkpoint, wroteInterruptCheckpoint, resumeRun, refused,
                       executed, twice, call, broken>>
    BY <1>3 DEF HooksPart!Emit, HooksPart!storeVars, HooksPart!BeforeRun
  <2>2. HooksTypes'
    BY <2>1 DEF HooksTypes
  <2>3. StageInv'
    BY <2>1 DEF StageInv, EventInv
  <2>4. PendingInv'
    BY <1>3, <2>1 DEF PendingInv, MessageOf, Past, StageInv
  <2>5. CallsInv'
    BY <1>3, <2>1 DEF CallsInv, MessageOf, ResultOf, IsPending, Past, Resuming, StageInv
  <2> QED BY <2>1, <2>2, <2>3, <2>4, <2>5
<1> QED BY <1>1, <1>2, <1>3 DEF HooksPart!BeforeRun

\* A message of the model, or of an extension in its place.
LEMMA SpeaksKeeps ==
  ASSUME HooksInv, stage \in {"BeforeModelCall", "model"}, NEW word, HooksPart!Speaks(word)
  PROVE  HooksInv'
<1> USE DEF HooksInv
<1> DEFINE c == IF word = "call" THEN spoken + 1 ELSE 0
<1>1. /\ stage' = "OnEvent" /\ event'.kind = "message" /\ event'.call = c
      /\ event'.next = (IF c = 0 THEN "AfterRun" ELSE "BeforeToolCall")
      /\ spoken' = spoken + 1 /\ call' = c /\ call = 0
      /\ UNCHANGED <<written, checkpoint, wroteInterruptCheckpoint, resumeRun, refused,
                     executed, twice, meddled, broken>>
  BY DEF HooksPart!Speaks, HooksPart!Emit, HooksPart!storeVars, HooksPart!historyVars,
    StageInv
<1>2. spoken \in Nat /\ 1..spoken \subseteq 1..(spoken + 1) /\ spoken + 1 \notin 1..spoken
      /\ spoken + 1 \in 1..(spoken + 1)
  BY DEF HooksTypes
<1>3. HooksTypes'
  BY <1>1, <1>2 DEF HooksTypes
<1>4. StageInv'
  <2>1. call' # 0 => call' = spoken + 1
    BY <1>1
  <2>2. call' # 0 => IsNew(call)'
    BY <1>1, <1>2, <2>1 DEF IsNew, IsPending, HooksTypes
  <2> HIDE DEF c
  <2> QED BY <1>1, <2>2 DEF StageInv, EventInv
<1>5. PendingInv'
  BY <1>1 DEF PendingInv, MessageOf, Past, StageInv
<1>6. CallsInv'
  BY <1>1 DEF CallsInv, MessageOf, ResultOf, IsPending, Past, Resuming, StageInv
<1> HIDE DEF c
<1> QED BY <1>1, <1>3, <1>4, <1>5, <1>6

LEMMA ModelKeeps ==
  ASSUME HooksInv, HooksPart!BeforeModelCall \/ HooksPart!AfterModelCall
  PROVE  HooksInv'
<1>1. CASE HooksPart!Fails
  BY <1>1, FailsKeeps DEF HooksPart!BeforeModelCall, HooksPart!AfterModelCall
<1>2. CASE stage = "BeforeModelCall" /\ HooksPart!GoTo("model")
  BY <1>2, GoToKeeps
<1>3. ASSUME NEW word, HooksPart!Speaks(word) PROVE HooksInv'
  BY <1>3, SpeaksKeeps DEF HooksPart!BeforeModelCall, HooksPart!AfterModelCall
<1> QED BY <1>1, <1>2, <1>3 DEF HooksPart!BeforeModelCall, HooksPart!AfterModelCall

\* The extension that refuses is the first that has an answer.
LEMMA FirstWordCounts ==
  ASSUME NEW answers, NEW e \in 1..Extensions, answers[e] # "pass",
         \A d \in 1..(e - 1) : answers[d] = "pass"
  PROVE  HooksPart!FirstWord(answers) = answers[e]
<1> DEFINE heard == {d \in 1..Extensions : answers[d] # "pass"}
<1>1. Extensions \in Nat
  BY PartsAssumption DEF HooksPart!HooksAssumption
<1>2. e \in heard /\ \A d \in heard : e <= d
  BY <1>1
<1>3. HooksPart!Min(heard) = e
  <2>1. \A x \in heard : (\A y \in heard : x <= y) => x = e
    BY <1>1, <1>2
  <2> HIDE DEF heard
  <2> QED BY <1>2, <2>1 DEF HooksPart!Min
<1> QED BY <1>2, <1>3 DEF HooksPart!FirstWord

LEMMA BeforeToolCallKeeps ==
  ASSUME HooksInv, HooksPart!BeforeToolCall
  PROVE  HooksInv'
<1> USE DEF HooksInv
<1>1. /\ stage = "BeforeToolCall"
      /\ UNCHANGED <<spoken, written, checkpoint, wroteInterruptCheckpoint, resumeRun, call,
                     executed, twice, meddled, broken>>
      /\ \/ stage' = "tool" /\ UNCHANGED event /\ refused' = refused
         \/ /\ stage' = "OnEvent" /\ refused' \in {refused, refused \cup {call}}
            /\ event' = [kind |-> "result", call |-> call, next |-> "BeforeModelCall"]
         \/ /\ stage' = "OnEvent" /\ refused' = refused
            /\ event' = [kind |-> "interrupt", call |-> call, next |-> "AfterRun"]
  <2>1. PICK answers \in HooksPart!Answers({"pass", "result", "empty", "pause", "error"}) :
          LET word == HooksPart!FirstWord(answers)
              first(words) == \E e \in 1 .. Extensions :
                                answers[e] \in words /\ \A d \in 1 .. e - 1 : answers[d] = "pass"
          IN /\ refused' = refused \cup (IF first({"result", "error"}) THEN {call} ELSE {})
             /\ \/ word \in {"pass", "empty"} /\ stage' = "tool" /\ UNCHANGED event
                \/ /\ word \in {"result", "error"}
                   /\ HooksPart!Emit("result", call, "BeforeModelCall")
                \/ word = "pause" /\ HooksPart!Emit("interrupt", call, "AfterRun")
             /\ UNCHANGED <<starts, spoken, HooksPart!storeVars, resumeRun, call, executed,
                            twice, meddled, broken>>
    BY DEF HooksPart!BeforeToolCall
  <2> DEFINE word == HooksPart!FirstWord(answers)
             refuses(e) == /\ answers[e] \in {"result", "error"}
                           /\ \A d \in 1 .. e - 1 : answers[d] = "pass"
  <2>2. word \in {"pass", "empty", "pause"} => ~\E e \in 1 .. Extensions : refuses(e)
    BY FirstWordCounts
  <2>3. stage = "BeforeToolCall"
    BY DEF HooksPart!BeforeToolCall
  <2>4. refused' = refused \cup (IF \E e \in 1 .. Extensions : refuses(e) THEN {call} ELSE {})
    BY <2>1
  <2>5. UNCHANGED <<spoken, written, checkpoint, wroteInterruptCheckpoint, resumeRun, call,
                    executed, twice, meddled, broken>>
    BY <2>1 DEF HooksPart!storeVars
  <2> HIDE DEF HooksInv, refuses
  <2>6. CASE word \in {"pass", "empty"} /\ stage' = "tool" /\ UNCHANGED event
    BY <2>2, <2>3, <2>4, <2>5, <2>6
  <2>7. CASE HooksPart!Emit("result", call, "BeforeModelCall")
    BY <2>3, <2>4, <2>5, <2>7 DEF HooksPart!Emit
  <2>8. CASE word = "pause" /\ HooksPart!Emit("interrupt", call, "AfterRun")
    BY <2>2, <2>3, <2>4, <2>5, <2>8 DEF HooksPart!Emit
  <2> QED BY <2>1, <2>6, <2>7, <2>8
<1>2. IsNew(call) /\ IsSaid(call) /\ call # 0 /\ call \in 1..spoken
  BY <1>1 DEF StageInv, IsNew
<1>3. refused' \subseteq refused \cup {call}
  BY <1>1
<1>4. HooksTypes'
  BY <1>1, <1>2, <1>3 DEF HooksTypes
<1>5. StageInv'
  <2>1. CASE stage' = "tool" /\ refused' = refused
    BY <1>1, <2>1 DEF StageInv, IsNew, IsSaid, MessageOf, IsPending
  <2>2. CASE stage' = "OnEvent"
    <3>1. IsSaid(call)' /\ (refused' = refused => IsNew(call)')
      BY <1>1, <1>2 DEF IsSaid, MessageOf, IsNew, IsPending
    <3>2. EventInv'
      BY <1>1, <1>2, <2>2, <3>1 DEF EventInv
    <3> QED BY <1>1, <1>2, <2>2, <3>2 DEF StageInv
  <2> QED BY <1>1, <2>1, <2>2
<1>6. PendingInv'
  BY <1>1, <1>2, <1>3 DEF PendingInv, MessageOf, Past, StageInv, IsNew, IsPending
<1>7. CallsInv'
  BY <1>1 DEF CallsInv, MessageOf, ResultOf, IsPending, Past, Resuming, StageInv
<1>8. (executed \cap refused = {})'
  BY <1>1, <1>2, <1>3 DEF IsNew
<1> QED BY <1>1, <1>4, <1>5, <1>6, <1>7, <1>8

\* What is written is only ever added to.
LEMMA WrittenGrows ==
  ASSUME HooksTypes, NEW m \in [kind : {"message", "result"}, call : Nat \ {0}],
         written' = Append(written, m)
  PROVE  /\ written' \in Seq([kind : {"message", "result"}, call : Nat \ {0}])
         /\ \A c : MessageOf(c)' <=> MessageOf(c) \/ m = [kind |-> "message", call |-> c]
         /\ \A c : ResultOf(c)' <=> ResultOf(c) \/ m = [kind |-> "result", call |-> c]
         /\ Len(written) \in Nat /\ DOMAIN written' = 1..(Len(written) + 1)
         /\ DOMAIN written = 1..Len(written)
         /\ written'[Len(written) + 1] = m
         /\ \A i \in DOMAIN written : written'[i] = written[i]
<1>1. /\ written' \in Seq([kind : {"message", "result"}, call : Nat \ {0}])
      /\ Len(written) \in Nat /\ DOMAIN written = 1..Len(written)
      /\ DOMAIN written' = 1..(Len(written) + 1)
      /\ written'[Len(written) + 1] = m
      /\ \A i \in DOMAIN written : written'[i] = written[i]
  BY DEF HooksTypes
<1>2. \A x : (\E i \in DOMAIN written' : written'[i] = x)
               <=> (\E i \in DOMAIN written : written[i] = x) \/ m = x
  BY <1>1
<1> QED BY <1>1, <1>2 DEF MessageOf, ResultOf

\* The tool is executed: of a call that is new, or of the pending one.
LEMMA ExecutesKeeps ==
  ASSUME HooksInv, NEW c, HooksPart!Executes(c), call' = c,
         \/ stage = "tool" /\ c = call
         \/ stage = "resume" /\ checkpoint.found /\ c = checkpoint.call
  PROVE  HooksInv'
<1> USE DEF HooksInv
<1>1. /\ stage' = "OnEvent"
      /\ event' = [kind |-> "result", call |-> c, next |-> "BeforeModelCall"]
      /\ executed' = executed \cup {c} /\ twice' = twice \cup (executed \cap {c})
      /\ UNCHANGED <<spoken, written, checkpoint, wroteInterruptCheckpoint, resumeRun, refused,
                     meddled, broken>>
  BY DEF HooksPart!Executes, HooksPart!Emit, HooksPart!storeVars
<1>2. ~wroteInterruptCheckpoint /\ (stage = "resume" => checkpoint # None /\ resumeRun)
  BY DEF StageInv
<1>3. c \in 1..spoken /\ c # 0 /\ c \notin refused
  <2>1. CASE stage = "tool" /\ c = call
    BY <2>1 DEF StageInv, IsNew
  <2>2. CASE stage = "resume" /\ c = checkpoint.call
    BY <1>2, <2>2 DEF PendingInv, HooksTypes
  <2> QED BY <2>1, <2>2
<1>4. IsSaid(c) /\ (c \in executed => c \in broken)
  <2>1. CASE stage = "tool" /\ c = call
    BY <2>1 DEF StageInv, IsNew
  <2>2. CASE stage = "resume" /\ checkpoint.found /\ c = checkpoint.call
    BY <1>2, <2>2 DEF PendingInv, IsSaid, Past
  <2> QED BY <2>1, <2>2
<1>5. HooksTypes'
  BY <1>1, <1>3 DEF HooksTypes
<1>6. StageInv'
  BY <1>1, <1>2, <1>3, <1>4 DEF StageInv, EventInv, IsSaid, MessageOf
<1>7. PendingInv'
  BY <1>1, <1>2 DEF PendingInv, MessageOf, Past
<1>8. CallsInv'
  <2>1. \A d \in Nat \ {0} : MessageOf(d) =>
          (d \in meddled \cup broken \/ ResultOf(d) \/ IsPending(d) \/ d = c)
    BY DEF CallsInv, StageInv
  <2>2. Resuming =>
          (checkpoint.call \in meddled \cup broken \/ ResultOf(checkpoint.call)
             \/ c = checkpoint.call)
    BY DEF CallsInv, Past
  <2> QED BY <1>1, <2>1, <2>2 DEF CallsInv, MessageOf, ResultOf, IsPending, Past, Resuming
<1> QED BY <1>1, <1>3, <1>4, <1>5, <1>6, <1>7, <1>8

LEMMA ToolKeeps ==
  ASSUME HooksInv, HooksPart!Tool \/ HooksPart!Resume
  PROVE  HooksInv'
<1>1. CASE HooksPart!Tool
  <2>1. CASE HooksPart!Executes(call) /\ UNCHANGED call
    BY <1>1, <2>1, ExecutesKeeps DEF HooksPart!Tool
  <2>2. CASE HooksPart!Emit("interrupt", call, "AfterRun")
             /\ UNCHANGED <<call, broken, HooksPart!rest>>
    <3> USE DEF HooksInv
    <3>1. /\ stage = "tool" /\ stage' = "OnEvent"
          /\ event' = [kind |-> "interrupt", call |-> call, next |-> "AfterRun"]
          /\ UNCHANGED <<spoken, written, checkpoint, wroteInterruptCheckpoint, resumeRun, call,
                         refused, executed, twice, meddled, broken>>
      BY <1>1, <2>2 DEF HooksPart!Tool, HooksPart!Emit, HooksPart!rest, HooksPart!storeVars,
        HooksPart!historyVars
    <3>2. HooksTypes'
      BY <3>1 DEF HooksTypes
    <3>3. StageInv'
      BY <3>1 DEF StageInv, EventInv, IsNew, IsSaid, MessageOf, IsPending
    <3>4. PendingInv'
      BY <3>1 DEF PendingInv, MessageOf, Past, StageInv
    <3>5. CallsInv'
      BY <3>1 DEF CallsInv, MessageOf, ResultOf, IsPending, Past, Resuming, StageInv
    <3> QED BY <3>1, <3>2, <3>3, <3>4, <3>5
  <2> QED BY <1>1, <2>1, <2>2 DEF HooksPart!Tool
<1>2. CASE HooksPart!Resume
  BY <1>2, ExecutesKeeps, FailsKeeps DEF HooksPart!Resume
<1> QED BY <1>1, <1>2

LEMMA AfterRunKeeps ==
  ASSUME HooksInv, HooksPart!AfterRun
  PROVE  HooksInv'
<1>1. CASE HooksPart!Fails
  BY <1>1, FailsKeeps DEF HooksPart!AfterRun
<1>2. CASE HooksPart!Finalize /\ ~HooksPart!Fails
  <2> USE DEF HooksInv
  <2>1. /\ stage = "AfterRun" /\ stage' = "idle"
        /\ checkpoint' = (IF Resuming THEN None ELSE checkpoint)
        /\ UNCHANGED <<spoken, written, wroteInterruptCheckpoint, resumeRun, call, event,
                       refused, executed, twice, meddled, broken>>
    BY <1>2 DEF HooksPart!AfterRun, HooksPart!Finalize, HooksPart!historyVars, Resuming
  <2>2. HooksTypes'
    BY <2>1 DEF HooksTypes
  <2>3. StageInv'
    BY <2>1 DEF StageInv, Resuming
  <2>4. PendingInv'
    BY <2>1 DEF PendingInv, MessageOf, Past, StageInv, Resuming
  <2>5. CallsInv'
    <3>1. ~Past' /\ \A c : (MessageOf(c)' <=> MessageOf(c)) /\ (ResultOf(c)' <=> ResultOf(c))
      BY <2>1 DEF MessageOf, ResultOf, Past
    <3>2. \A c : IsPending(c) =>
            (c \in meddled \cup broken \/ ResultOf(c) \/ IsPending(c)')
      BY <2>1 DEF CallsInv, IsPending, Past
    <3> QED BY <2>1, <3>1, <3>2 DEF CallsInv
  <2> QED BY <2>1, <2>2, <2>3, <2>4, <2>5
<1> QED BY <1>1, <1>2 DEF HooksPart!AfterRun

\* An event is recorded or dropped, and then either what follows it is due, or the
\* run is stopped.
Goes == stage' = event.next /\ call' = HooksPart!After /\ broken' = broken
Stops ==
  /\ stage' = "idle" /\ call' = 0
  /\ broken' = broken \cup
       (({HooksPart!After} \cup IF resumeRun /\ ~wroteInterruptCheckpoint'
                                THEN {checkpoint.call} ELSE {}) \ {0})

\* What recording comes to.  What is left in hand is the call of a message.
Recorded ==
  LET after == HooksPart!After
  IN
  /\ UNCHANGED <<spoken, resumeRun, refused, executed, twice>>
  /\ written' \in Seq([kind : {"message", "result"}, call : Nat \ {0}])
  /\ checkpoint' \in {None} \cup [call : 1..spoken, found : BOOLEAN]
  /\ wroteInterruptCheckpoint' \in BOOLEAN
  /\ ~wroteInterruptCheckpoint' => checkpoint' = checkpoint /\ resumeRun = (checkpoint # None)
  /\ wroteInterruptCheckpoint' => checkpoint' # None /\ event.next = "AfterRun"
  /\ after # 0 =>
       event.kind = "message" /\ IsNew(after) /\ checkpoint' = checkpoint
  /\ \A c \in {after} \ {0} : c \in meddled' \/ MessageOf(c)'
  /\ checkpoint' # None =>
       /\ checkpoint'.found \/ checkpoint'.call \in meddled'
       /\ checkpoint'.found => MessageOf(checkpoint.call)'
       /\ checkpoint'.call \notin refused
       /\ checkpoint'.call \in executed =>
            checkpoint'.call \in broken \/ ~wroteInterruptCheckpoint'
  /\ \A c \in Nat \ {0} : MessageOf(c)' =>
       (c \in meddled' \cup broken \/ ResultOf(c)' \/ IsPending(c)' \/ c = after)
  /\ Resuming' =>
       (checkpoint'.call \in meddled' \cup broken \/ ResultOf(checkpoint.call)')
  /\ \A i \in DOMAIN written' :
       \/ written'[i].kind = "message" \/ written'[i].call \in meddled'
       \/ \E j \in 1..(i - 1) : written'[j] = [kind |-> "message", call |-> written'[i].call]

LEMMA RecordedKeeps ==
  ASSUME HooksInv, stage = "OnEvent", Recorded, Goes \/ Stops
  PROVE  HooksInv'
<1> USE DEF HooksInv
<1> DEFINE after == HooksPart!After
<1>1. EventInv
  BY DEF StageInv
<1>2. after = (IF event.kind = "message" THEN call ELSE 0) 
      /\ after \in 0..spoken /\ 0 \in 0..spoken
  BY DEF HooksPart!After, HooksTypes
<1>3. event.next \in {"BeforeModelCall", "BeforeToolCall", "AfterRun"}
      /\ (event.next = "BeforeToolCall" <=> after # 0)
  BY <1>1, <1>2 DEF EventInv
<1> HIDE DEF after
<1>4. UNCHANGED <<spoken, resumeRun, refused, executed, twice>>
  BY DEF Recorded
<1>5. HooksTypes'
  <2>1. call' \in 0..spoken
    BY <1>2, <1>3 DEF Goes, Stops, after
  <2>2. /\ written' \in Seq([kind : {"message", "result"}, call : Nat \ {0}])
        /\ checkpoint' \in {None} \cup [call : 1..spoken, found : BOOLEAN]
        /\ wroteInterruptCheckpoint' \in BOOLEAN
    BY DEF Recorded
  <2>3. stage' \in {"idle", "BeforeModelCall", "BeforeToolCall", "AfterRun"}
    BY <1>3 DEF Goes, Stops
  <2> QED BY <1>4, <2>1, <2>2, <2>3 DEF HooksTypes
<1>6. StageInv'
  <2>1. /\ ~wroteInterruptCheckpoint' => resumeRun' = (checkpoint' # None)
        /\ wroteInterruptCheckpoint' => checkpoint' # None /\ event.next = "AfterRun"
    BY <1>4 DEF Recorded
  <2>2. after # 0 => IsNew(after) /\ checkpoint' = checkpoint /\ after \in 1..spoken
                     /\ \A c \in {after} : c \in meddled' \/ MessageOf(c)'
    BY DEF Recorded, after, IsNew
  <2>3. CASE Stops
    BY <2>1, <2>3 DEF Stops, StageInv
  <2>4. CASE Goes /\ after = 0
    BY <1>3, <2>1, <2>4 DEF Goes, StageInv, after
  <2>5. CASE Goes /\ after # 0
    <3>1. call' = after /\ stage' = "BeforeToolCall"
      BY <1>3, <2>5 DEF Goes, after
    <3>2. IsNew(call)'
      BY <1>4, <2>2, <2>5, <3>1 DEF IsNew, IsPending
    <3>3. IsSaid(call)'
      BY <2>2, <2>5, <3>1 DEF IsSaid, MessageOf
    <3> QED BY <1>3, <2>1, <2>5, <3>1, <3>2, <3>3 DEF StageInv
  <2> QED BY <2>3, <2>4, <2>5
<1>7. PendingInv'
  <2>1. checkpoint' # None =>
          /\ checkpoint'.found \/ checkpoint'.call \in meddled'
          /\ checkpoint'.found => MessageOf(checkpoint.call)'
          /\ checkpoint'.call \notin refused
          /\ checkpoint'.call \in executed =>
               checkpoint'.call \in broken \/ ~wroteInterruptCheckpoint'
    BY DEF Recorded
  <2>2. checkpoint' # None /\ ~wroteInterruptCheckpoint' =>
          checkpoint' = checkpoint /\ resumeRun /\ checkpoint.call # 0
    <3>1. ~wroteInterruptCheckpoint' => checkpoint' = checkpoint /\ resumeRun = (checkpoint # None)
      BY DEF Recorded
    <3>2. checkpoint # None => checkpoint.call # 0
      BY DEF HooksTypes
    <3> QED BY <3>1, <3>2
  <2>3. CASE Goes
    BY <1>3, <1>4, <2>1, <2>3 DEF Goes, PendingInv, Past
  <2>4. CASE Stops
    BY <1>4, <2>1, <2>2, <2>4 DEF Stops, PendingInv
  <2> QED BY <2>3, <2>4
<1>8. CallsInv'
  <2>1. \A c \in Nat \ {0} : MessageOf(c)' =>
          (c \in meddled' \cup broken \/ ResultOf(c)' \/ IsPending(c)' \/ c = after)
    BY DEF Recorded, after
  <2>2. Resuming' => (checkpoint'.call \in meddled' \cup broken \/ ResultOf(checkpoint.call)')
    BY DEF Recorded
  <2>3. \A i \in DOMAIN written' :
          \/ written'[i].kind = "message" \/ written'[i].call \in meddled'
          \/ \E j \in 1..(i - 1) : written'[j] = [kind |-> "message", call |-> written'[i].call]
    BY DEF Recorded
  <2>4. CASE Goes
    BY <2>1, <2>2, <2>3, <2>4 DEF Goes, CallsInv, after
  <2>5. CASE Stops
    <3>1. \A c \in Nat \ {0} : c = after => c \in broken'
      BY <2>5 DEF Stops, after
    <3>2. broken \subseteq broken' /\ ~Past'
      BY <2>5 DEF Stops, Past
    <3> QED BY <2>1, <2>3, <3>1, <3>2 DEF CallsInv
  <2> QED BY <2>4, <2>5
<1>9. broken \subseteq broken'
  BY DEF Goes, Stops
<1> QED BY <1>4, <1>5, <1>6, <1>7, <1>8, <1>9

\* An event that an extension redacts or filters, and one without a call.
LEMMA DropIsRecorded ==
  ASSUME HooksInv, stage = "OnEvent", meddled' = meddled \cup ({event.call} \ {0}),
         UNCHANGED <<spoken, written, checkpoint, wroteInterruptCheckpoint, resumeRun, refused,
                     executed, twice>>
  PROVE  Recorded
<1> USE DEF HooksInv
<1>1. EventInv
  BY DEF StageInv
<1>2. call # 0 => call \in meddled'
  BY <1>1 DEF EventInv
<1>3. \A c : (MessageOf(c)' <=> MessageOf(c)) /\ (ResultOf(c)' <=> ResultOf(c))
             /\ (IsPending(c)' <=> IsPending(c))
  BY DEF MessageOf, ResultOf, IsPending
<1>4. ~wroteInterruptCheckpoint /\ resumeRun = (checkpoint # None)
  BY DEF StageInv
<1>5. HooksPart!After # 0 => event.kind = "message" /\ HooksPart!After = call /\ IsNew(call)
  BY <1>1 DEF HooksPart!After, EventInv
<1>6. \A c \in Nat \ {0} : MessageOf(c)' =>
        (c \in meddled' \cup broken \/ ResultOf(c)' \/ IsPending(c)' \/ c = HooksPart!After)
  BY <1>2, <1>3 DEF CallsInv
<1>7. Resuming' => (checkpoint'.call \in meddled' \cup broken \/ ResultOf(checkpoint.call)')
  <2>1. event.kind = "result" => call # 0
    BY <1>1 DEF EventInv
  <2>2. Resuming => (checkpoint.call \in meddled' \cup broken \/ ResultOf(checkpoint.call))
    BY <1>2, <2>1 DEF CallsInv, Past
  <2> QED BY <2>2 DEF Resuming, ResultOf
<1>8. checkpoint' # None =>
        /\ checkpoint'.found \/ checkpoint'.call \in meddled'
        /\ checkpoint'.found => MessageOf(checkpoint.call)'
        /\ checkpoint'.call \notin refused
        /\ checkpoint'.call \in executed =>
             checkpoint'.call \in broken \/ ~wroteInterruptCheckpoint'
  BY DEF PendingInv, MessageOf
<1>9. \A i \in DOMAIN written' :
        \/ written'[i].kind = "message" \/ written'[i].call \in meddled'
        \/ \E j \in 1..(i - 1) : written'[j] = [kind |-> "message", call |-> written'[i].call]
  BY DEF CallsInv
<1>10. \A c \in {HooksPart!After} \ {0} : c \in meddled' \/ MessageOf(c)'
  BY <1>2, <1>5
<1>11. /\ written' \in Seq([kind : {"message", "result"}, call : Nat \ {0}])
       /\ checkpoint' \in {None} \cup [call : 1..spoken, found : BOOLEAN]
       /\ wroteInterruptCheckpoint' \in BOOLEAN
  BY DEF HooksTypes
<1> QED BY <1>4, <1>5, <1>6, <1>7, <1>8, <1>9, <1>10, <1>11 DEF Recorded

\* A message with a call, or a result, is persisted.
LEMMA LoggedIsRecorded ==
  ASSUME HooksInv, stage = "OnEvent", event.kind \in {"message", "result"}, event.call # 0,
         written' = Append(written, [kind |-> event.kind, call |-> event.call]),
         UNCHANGED <<spoken, checkpoint, wroteInterruptCheckpoint, resumeRun, refused, executed,
                     twice, meddled>>
  PROVE  Recorded
<1> USE DEF HooksInv
<1> DEFINE m == [kind |-> event.kind, call |-> event.call]
<1>1. EventInv /\ event.call = call /\ call \in Nat \ {0}
  BY DEF StageInv, EventInv, HooksTypes
<1>2. m \in [kind : {"message", "result"}, call : Nat \ {0}]
      /\ m.kind = event.kind /\ m.call = call
  BY <1>1
<1>3. written' = Append(written, m)
  OBVIOUS
<1> HIDE DEF m
<1>4. /\ written' \in Seq([kind : {"message", "result"}, call : Nat \ {0}])
      /\ \A c : MessageOf(c)' <=> MessageOf(c) \/ m = [kind |-> "message", call |-> c]
      /\ \A c : ResultOf(c)' <=> ResultOf(c) \/ m = [kind |-> "result", call |-> c]
      /\ Len(written) \in Nat /\ DOMAIN written' = 1..(Len(written) + 1)
      /\ DOMAIN written = 1..Len(written)
      /\ written'[Len(written) + 1] = m
      /\ \A i \in DOMAIN written : written'[i] = written[i]
  BY <1>2, <1>3, WrittenGrows
<1>5. /\ \A c : MessageOf(c)' <=> MessageOf(c) \/ (event.kind = "message" /\ c = call)
      /\ \A c : ResultOf(c)' <=> ResultOf(c) \/ (event.kind = "result" /\ c = call)
      /\ \A c : IsPending(c)' <=> IsPending(c)
  BY <1>1, <1>4 DEF IsPending, m
<1>6. ~wroteInterruptCheckpoint /\ resumeRun = (checkpoint # None)
  BY DEF StageInv
<1>7. HooksPart!After = (IF event.kind = "message" THEN call ELSE 0)
      /\ (event.kind = "message" => IsNew(call)) /\ (event.kind = "result" => IsSaid(call))
  BY <1>1 DEF EventInv, HooksPart!After
<1>8. \A c \in Nat \ {0} : MessageOf(c)' =>
        (c \in meddled' \cup broken \/ ResultOf(c)' \/ IsPending(c)' \/ c = HooksPart!After)
  <2>1. \A c \in Nat \ {0} : MessageOf(c) =>
          (c \in meddled \cup broken \/ ResultOf(c) \/ IsPending(c) \/ c = call)
    BY DEF CallsInv
  <2> QED BY <1>5, <1>7, <2>1
<1>9. Resuming' => (checkpoint'.call \in meddled' \cup broken \/ ResultOf(checkpoint.call)')
  <2>1. Resuming => \/ checkpoint.call \in meddled \cup broken \/ ResultOf(checkpoint.call)
                    \/ event.kind = "result" /\ call = checkpoint.call
    BY DEF CallsInv, Past
  <2>2. \A c : c = checkpoint.call => (ResultOf(c)' <=> ResultOf(checkpoint.call)')
    BY DEF ResultOf
  <2> QED BY <1>5, <2>1, <2>2 DEF Resuming
<1>10. checkpoint' # None =>
         /\ checkpoint'.found \/ checkpoint'.call \in meddled'
         /\ checkpoint'.found => MessageOf(checkpoint.call)'
         /\ checkpoint'.call \notin refused
         /\ checkpoint'.call \in executed =>
              checkpoint'.call \in broken \/ ~wroteInterruptCheckpoint'
  <2>1. \A c : c = checkpoint.call => (MessageOf(c)' <=> MessageOf(checkpoint.call)')
    BY DEF MessageOf
  <2> QED BY <1>5, <2>1 DEF PendingInv
<1>11. \A i \in DOMAIN written' :
         \/ written'[i].kind = "message" \/ written'[i].call \in meddled'
         \/ \E j \in 1..(i - 1) : written'[j] = [kind |-> "message", call |-> written'[i].call]
  <2>1. ASSUME NEW i \in DOMAIN written
        PROVE  \/ written'[i].kind = "message" \/ written'[i].call \in meddled'
               \/ \E j \in 1..(i - 1) :
                    written'[j] = [kind |-> "message", call |-> written'[i].call]
    BY <1>4 DEF CallsInv
  <2>2. \/ m.kind = "message" \/ m.call \in meddled'
        \/ \E j \in 1..Len(written) : written'[j] = [kind |-> "message", call |-> m.call]
    BY <1>2, <1>4, <1>7 DEF IsSaid, MessageOf
  <2>3. (Len(written) + 1) - 1 = Len(written)
        /\ \A i \in DOMAIN written' : i \in DOMAIN written \/ i = Len(written) + 1
    BY <1>4
  <2> QED BY <1>4, <2>1, <2>2, <2>3
<1>12. /\ checkpoint' \in {None} \cup [call : 1..spoken, found : BOOLEAN]
       /\ wroteInterruptCheckpoint' \in BOOLEAN
  BY DEF HooksTypes
<1>13. \A c \in {HooksPart!After} \ {0} : c \in meddled' \/ MessageOf(c)'
  BY <1>5, <1>7
<1> QED BY <1>4, <1>6, <1>7, <1>8, <1>9, <1>10, <1>11, <1>12, <1>13 DEF Recorded

\* An interrupt makes its call the pending one: that of the checkpoint is settled.
LEMMA PauseIsRecorded ==
  ASSUME HooksInv, stage = "OnEvent", event.kind = "interrupt",
         checkpoint' = [call |-> event.call, found |-> MessageOf(event.call)],
         wroteInterruptCheckpoint' = TRUE,
         UNCHANGED <<spoken, written, resumeRun, refused, executed, twice, meddled>>
  PROVE  Recorded
<1> USE DEF HooksInv
<1>1. /\ event.call = call /\ event.next = "AfterRun" /\ HooksPart!After = 0
      /\ IsNew(call) /\ IsSaid(call) /\ call \in 1..spoken /\ call # 0 /\ call \in Nat
  BY DEF StageInv, EventInv, HooksPart!After, IsNew, HooksTypes
<1>2. /\ checkpoint' \in [call : 1..spoken, found : BOOLEAN]
      /\ checkpoint'.call = call /\ checkpoint'.found = MessageOf(call)
  BY <1>1 DEF MessageOf
<1>3. checkpoint' # None
  <2>1. None \notin [call : Nat, found : BOOLEAN]
    BY PartsAssumption DEF HooksPart!HooksAssumption
  <2> QED BY <1>1, <1>2, <2>1
<1>4. \A c : (MessageOf(c)' <=> MessageOf(c)) /\ (ResultOf(c)' <=> ResultOf(c))
             /\ (IsPending(c)' <=> c = call)
  BY <1>2, <1>3 DEF MessageOf, ResultOf, IsPending
<1>5. ~wroteInterruptCheckpoint /\ resumeRun = (checkpoint # None)
  BY DEF StageInv
<1>6. \A c \in Nat \ {0} : MessageOf(c)' =>
        (c \in meddled' \cup broken \/ ResultOf(c)' \/ IsPending(c)' \/ c = HooksPart!After)
  <2>1. \A c : IsPending(c) => (c \in meddled \cup broken \/ ResultOf(c))
    BY <1>5 DEF CallsInv, Past, Resuming, IsPending
  <2> QED BY <1>4, <2>1 DEF CallsInv
<1>7. /\ checkpoint'.found \/ checkpoint'.call \in meddled'
      /\ checkpoint'.found => MessageOf(checkpoint.call)'
      /\ checkpoint'.call \notin refused /\ checkpoint'.call \notin executed
  BY <1>1, <1>2 DEF IsSaid, IsNew, MessageOf
<1>8. \A i \in DOMAIN written' :
        \/ written'[i].kind = "message" \/ written'[i].call \in meddled'
        \/ \E j \in 1..(i - 1) : written'[j] = [kind |-> "message", call |-> written'[i].call]
  BY DEF CallsInv
<1>9. written' \in Seq([kind : {"message", "result"}, call : Nat \ {0}])
  BY DEF HooksTypes
<1>10. ~Resuming'
  BY DEF Resuming
<1> QED BY <1>1, <1>2, <1>3, <1>6, <1>7, <1>8, <1>9, <1>10 DEF Recorded

LEMMA OnEventKeeps ==
  ASSUME HooksInv, HooksPart!OnEvent
  PROVE  HooksInv'
<1>1. stage = "OnEvent" /\ EventInv /\ event.kind \in {"message", "result", "interrupt"}
  BY DEF HooksPart!OnEvent, HooksInv, StageInv, EventInv
<1>2. PICK dropped \in {{event.call} \ {0}, {}}, redacted \in BOOLEAN :
        \/ HooksPart!Fails
        \/ /\ dropped = {event.call} \ {0} /\ meddled' = meddled \cup dropped /\ Goes
           /\ UNCHANGED <<starts, spoken, HooksPart!storeVars, resumeRun, refused, executed,
                          twice, broken>>
        \/ /\ HooksPart!Record(redacted) /\ meddled' = meddled \cup dropped
           /\ dropped = (IF redacted THEN {event.call} \ {0} ELSE {})
           /\ Goes \/ Stops
           /\ UNCHANGED <<starts, spoken, resumeRun, refused, executed, twice>>
  BY DEF HooksPart!OnEvent, Goes, Stops
<1>3. CASE HooksPart!Fails
  BY <1>1, <1>3, FailsKeeps
<1>4. CASE meddled' = meddled \cup ({event.call} \ {0}) /\ Goes
           /\ UNCHANGED <<spoken, HooksPart!storeVars, resumeRun, refused, executed, twice>>
  BY <1>1, <1>4, DropIsRecorded, RecordedKeeps DEF HooksPart!storeVars
<1>5. ASSUME HooksPart!Record(redacted), meddled' = meddled \cup dropped,
             dropped = (IF redacted THEN {event.call} \ {0} ELSE {}), Goes \/ Stops,
             UNCHANGED <<spoken, resumeRun, refused, executed, twice>>
      PROVE  HooksInv'
  <2>1. wroteInterruptCheckpoint \in BOOLEAN
    BY DEF HooksInv, HooksTypes
  <2>2. CASE redacted \/ (event.kind # "interrupt" /\ event.call = 0)
    <3>1. UNCHANGED <<written, checkpoint, wroteInterruptCheckpoint>>
          /\ meddled' = meddled \cup ({event.call} \ {0})
      BY <1>5, <2>1, <2>2 DEF HooksPart!Record
    <3> QED BY <1>1, <1>5, <3>1, DropIsRecorded, RecordedKeeps
  <2>3. CASE ~redacted /\ event.kind # "interrupt" /\ event.call # 0
    <3>1. /\ UNCHANGED <<checkpoint, wroteInterruptCheckpoint, meddled>>
          /\ written' = Append(written, [kind |-> event.kind, call |-> event.call])
      BY <1>5, <2>1, <2>3 DEF HooksPart!Record
    <3> QED BY <1>1, <1>5, <2>3, <3>1, LoggedIsRecorded, RecordedKeeps
  <2>4. CASE ~redacted /\ event.kind = "interrupt"
    <3>1. /\ UNCHANGED <<written, meddled>> /\ wroteInterruptCheckpoint' = TRUE
          /\ checkpoint' = [call |-> event.call, found |-> MessageOf(event.call)]
      BY <1>5, <2>1, <2>4 DEF HooksPart!Record, MessageOf
    <3> QED BY <1>1, <1>5, <2>4, <3>1, PauseIsRecorded, RecordedKeeps
  <2> QED BY <2>2, <2>3, <2>4
<1> QED BY <1>2, <1>3, <1>4, <1>5

LEMMA HooksStep ==
  ASSUME HooksInv, [HooksPart!Next]_(HooksPart!vars)
  PROVE  HooksInv'
<1>1. CASE UNCHANGED HooksPart!vars
  <2> USE <1>1 DEF HooksInv, HooksPart!vars
  <2>1. HooksTypes'
    BY DEF HooksTypes
  <2>2. StageInv'
    BY DEF StageInv, EventInv, IsNew, IsSaid, IsPending, MessageOf
  <2>3. PendingInv'
    BY DEF PendingInv, MessageOf, Past
  <2>4. CallsInv'
    BY DEF CallsInv, MessageOf, ResultOf, IsPending, Past, Resuming
  <2> QED BY <2>1, <2>2, <2>3, <2>4
<1> QED
  BY <1>1, StartKeeps, BeforeRunKeeps, OnEventKeeps, ModelKeeps, BeforeToolCallKeeps,
    ToolKeeps,
    AfterRunKeeps DEF HooksPart!Next

LEMMA HooksFirst ==
  ASSUME HooksPart!Init
  PROVE  HooksInv
<1> USE DEF HooksPart!Init
<1>1. HooksTypes
  <2>1. written \in Seq([kind : {"message", "result"}, call : Nat \ {0}])
    OBVIOUS
  <2>2. spoken \in Nat /\ call \in 0..spoken
    OBVIOUS
  <2> QED BY <2>1, <2>2 DEF HooksTypes
<1>2. StageInv /\ PendingInv
  BY DEF StageInv, PendingInv
<1>3. CallsInv
  <2>1. DOMAIN written = {}
    OBVIOUS
  <2> QED BY <2>1 DEF CallsInv, MessageOf, Past
<1> QED BY <1>1, <1>2, <1>3 DEF HooksInv

LEMMA HaltedFirst == HooksPart!Init => HaltedInv
BY DEF HooksPart!Init, HaltedInv

LEMMA HaltedStep ==
  ASSUME HooksInv, HaltedInv, [HooksPart!Next]_(HooksPart!vars)
  PROVE  HaltedInv'
<1>1. spoken \in Nat /\ call \in 0..spoken
  BY DEF HooksInv, HooksTypes
<1>2. ASSUME NEW word, HooksPart!Speaks(word) PROVE HaltedInv'
  <2>1. call' \in {0, spoken + 1} /\ spoken' = spoken + 1 /\ halted' = halted /\ stage' = "OnEvent"
    BY <1>2 DEF HooksPart!Speaks, HooksPart!Emit, HooksPart!historyVars
  <2> QED BY <1>1, <2>1 DEF HaltedInv
<1>3. CASE HooksPart!Fails
  BY <1>3 DEF HooksPart!Fails, HooksPart!Over, HooksPart!rest, HooksPart!historyVars, HaltedInv
<1>11. ASSUME UNCHANGED <<spoken, halted>>,
              \/ stage' \in {"BeforeRun", "resume", "BeforeModelCall"}
              \/ stage' = "OnEvent" /\ (event'.kind # "message" \/ event'.next = "AfterRun")
       PROVE  HaltedInv'
  BY <1>11 DEF HaltedInv
<1>4. CASE HooksPart!Start \/ HooksPart!BeforeRun
  <2>1. CASE HooksPart!Start
    BY <1>11, <2>1 DEF HooksPart!Start, HooksPart!historyVars
  <2>2. CASE HooksPart!GoTo(IF resumeRun THEN "resume" ELSE "BeforeModelCall")
    BY <1>11, <2>2 DEF HooksPart!GoTo, HooksPart!rest, HooksPart!historyVars
  <2>3. CASE HooksPart!Emit("message", 0, "AfterRun") /\ UNCHANGED <<spoken, halted>>
    BY <1>11, <2>3 DEF HooksPart!Emit
  <2> QED BY <1>3, <1>4, <2>1, <2>2, <2>3 DEF HooksPart!BeforeRun
<1>5. CASE HooksPart!OnEvent
  <2>1. StageInv /\ stage = "OnEvent"
    BY <1>5 DEF HooksInv, HooksPart!OnEvent
  <2>2. CASE HooksPart!Fails
    BY <1>3, <2>2
  <2>3. CASE /\ UNCHANGED <<spoken, halted>>
             /\ \/ stage' = "idle"
                \/ stage' = event.next /\ call' = HooksPart!After
    <3>1. event.kind # "message" => event.next \in {"BeforeModelCall", "AfterRun"}
      BY <2>1 DEF StageInv, EventInv
    <3>2. event.next \in {"BeforeModelCall", "BeforeToolCall", "AfterRun"}
      BY <2>1 DEF StageInv, EventInv
    <3> QED BY <2>1, <2>3, <3>1, <3>2 DEF HooksPart!After, HaltedInv
  <2> QED BY <1>5, <2>2, <2>3 DEF HooksPart!OnEvent
<1>6. CASE HooksPart!BeforeModelCall \/ HooksPart!AfterModelCall
  BY <1>2, <1>3, <1>6 DEF HooksPart!BeforeModelCall, HooksPart!AfterModelCall, HooksPart!GoTo,
    HooksPart!rest, HooksPart!historyVars, HaltedInv
<1>7. CASE HooksPart!BeforeToolCall
  <2>1. /\ stage = "BeforeToolCall" /\ UNCHANGED <<spoken, call>>
        /\ \/ stage' = "tool" /\ halted' = halted
           \/ /\ stage' = "OnEvent" /\ event'.kind \in {"result", "interrupt"}
              /\ halted' \in {halted, halted \cup {call}}
    <3>1. PICK answers \in HooksPart!Answers({"pass", "result", "empty", "pause", "error"}) :
            LET word == HooksPart!FirstWord(answers)
                first(words) == \E e \in 1 .. Extensions :
                                  answers[e] \in words /\ \A d \in 1 .. e - 1 : answers[d] = "pass"
            IN /\ halted' = halted \cup (IF first({"pause"}) THEN {call} ELSE {})
               /\ \/ word \in {"pass", "empty"} /\ stage' = "tool"
                  \/ HooksPart!Emit("result", call, "BeforeModelCall")
                  \/ HooksPart!Emit("interrupt", call, "AfterRun")
               /\ UNCHANGED <<spoken, call>>
      BY <1>7 DEF HooksPart!BeforeToolCall
    <3> DEFINE word == HooksPart!FirstWord(answers)
               pauses(e) == answers[e] \in {"pause"} /\ \A d \in 1 .. e - 1 : answers[d] = "pass"
    <3>2. word \in {"pass", "empty"} => ~\E e \in 1 .. Extensions : pauses(e)
      BY FirstWordCounts
    <3>3. halted' = halted \cup (IF \E e \in 1 .. Extensions : pauses(e) THEN {call} ELSE {})
      BY <3>1
    <3>4. stage = "BeforeToolCall"
      BY <1>7 DEF HooksPart!BeforeToolCall
    <3> HIDE DEF pauses
    <3> QED BY <3>1, <3>2, <3>3, <3>4 DEF HooksPart!Emit
  <2>2. call \in 1..spoken
    BY <2>1 DEF HooksInv, StageInv, IsNew
  <2> QED BY <2>1, <2>2 DEF HaltedInv
<1>8. CASE HooksPart!Tool \/ HooksPart!Resume
  <2>1. ASSUME NEW c, HooksPart!Executes(c) PROVE HaltedInv'
    BY <1>11, <2>1 DEF HooksPart!Executes, HooksPart!Emit
  <2>2. CASE HooksPart!Emit("interrupt", call, "AfterRun") /\ UNCHANGED HooksPart!rest
    BY <1>11, <2>2 DEF HooksPart!Emit, HooksPart!rest, HooksPart!historyVars
  <2> QED BY <1>3, <1>8, <2>1, <2>2 DEF HooksPart!Tool, HooksPart!Resume
<1>9. CASE HooksPart!AfterRun
  BY <1>3, <1>9 DEF HooksPart!AfterRun, HooksPart!historyVars, HaltedInv
<1>10. CASE UNCHANGED HooksPart!vars
  BY <1>10 DEF HooksPart!vars, HaltedInv
<1> QED BY <1>4, <1>5, <1>6, <1>7, <1>8, <1>9, <1>10 DEF HooksPart!Next

LEMMA HooksMeans ==
  ASSUME HooksInv, HaltedInv
  PROVE  HooksPart!HooksDecide
<1> USE DEF HooksInv
<1>1. \A c : (c \in HooksPart!Numbers("message") <=> MessageOf(c))
             /\ (c \in HooksPart!Numbers("result") <=> ResultOf(c))
  <2>1. \A i \in DOMAIN written :
          written[i] = [kind |-> written[i].kind, call |-> written[i].call]
    <3>1. written \in Seq([kind : {"message", "result"}, call : Nat \ {0}])
      BY DEF HooksTypes
    <3> HIDE DEF HooksInv
    <3>2. \A i \in DOMAIN written : written[i] \in [kind : {"message", "result"}, call : Nat \ {0}]
      <4> DEFINE M == [kind : {"message", "result"}, call : Nat \ {0}]
      <4>1. written \in Seq(M)
        BY <3>1
      <4> HIDE DEF M
      <4>2. DOMAIN written = 1..Len(written) /\ \A i \in 1..Len(written) : written[i] \in M
        BY <4>1
      <4> QED BY <4>2 DEF M
    <3> QED BY <3>2
  <2>2. \A c, k : (\E i \in DOMAIN written : written[i] = [kind |-> k, call |-> c])
                    <=> (\E i \in DOMAIN written : written[i].kind = k /\ written[i].call = c)
    BY <2>1
  <2>3. \A c, k : c \in HooksPart!Numbers(k)
                    <=> (\E i \in DOMAIN written : written[i].kind = k /\ written[i].call = c)
    BY DEF HooksPart!Numbers
  <2> QED BY <2>2, <2>3 DEF MessageOf, ResultOf
<1>2. \A c : MessageOf(c) => c \in Nat \ {0}
  BY DEF HooksTypes, MessageOf
<1>3. stage = "idle" =>
        \A c \in HooksPart!Numbers("message") \ (meddled \cup broken) :
          \/ c \in HooksPart!Numbers("result")
          \/ checkpoint # None /\ checkpoint.call = c
  BY <1>1, <1>2 DEF CallsInv, IsPending, StageInv
<1> QED BY <1>3 DEF PendingInv, CallsInv, HaltedInv, HooksPart!HooksDecide

-----------------------------------------------------------------------------
(* Tui: what is pending, and what the user decides on it. *)

\* The interrupts of a pause are numbered one after the other.
IsRange(S) == \E a, n \in Nat : S = (a + 1)..(a + n)

TuiTypes ==
  /\ pc \in {"none", "start", "loop", "paused", "ended", "failed"}
  /\ modal \in {"none", "approval", "sessions"} /\ runActive = (pc # "none")
  /\ currentSession \in SessionIds \cup {None}
  /\ pending \in [SessionIds -> SUBSET Nat] /\ \A s \in SessionIds : IsRange(pending[s])
  /\ approvalQueue \in Seq(Nat) /\ texts \in Nat /\ asked \in Nat

\* An approval that is open is on what its session is pending on; the run is of the
\* session that is shown, and does not move while one is open.
TuiInv ==
  /\ TuiTypes
  /\ runActive => on = currentSession /\ currentSession \in SessionIds
  /\ modal = "approval" =>
       /\ pc \in {"none", "ended"} /\ currentSession \in SessionIds
       /\ approvalDecisions \cup TuiPart!Members(approvalQueue) = pending[currentSession]
  /\ pc = "start" /\ input = 0 => resumeData = pending[on]

\* What is pending can be put in order.
LEMMA SortedHas ==
  ASSUME NEW S, IsRange(S)
  PROVE  TuiPart!Sorted(S) \in Seq(Nat) /\ TuiPart!Members(TuiPart!Sorted(S)) = S
<1>1. PICK a \in Nat, n \in Nat : S = (a + 1)..(a + n)
  BY DEF IsRange
<1>2. Cardinality(S) = n
  <2>1. Cardinality(S) = IF a + 1 > a + n THEN 0 ELSE (a + n) - (a + 1) + 1
    BY <1>1, FS_Interval
  <2> QED BY <1>1, <2>1
<1>3. TuiPart!Cardinality(S) = n
  <2>1. TuiPart!Cardinality(S) = Cardinality(S)
    BY DEF TuiPart!Cardinality, Cardinality
  <2> QED BY <1>2, <2>1
<1> DEFINE Ascending(q) == /\ TuiPart!Members(q) = S
                         /\ \A i, j \in DOMAIN q : i < j => q[i] < q[j]
<1>4. \E q \in [1..n -> S] : Ascending(q)
  <2>1. PICK q : q = [k \in 1..n |-> a + k]
    OBVIOUS
  <2>2. q \in [1..n -> S] /\ DOMAIN q = 1..n /\ \A k \in 1..n : q[k] = a + k
    BY <1>1, <2>1
  <2>3. \A x \in S : x - a \in 1..n /\ a + (x - a) = x
    BY <1>1
  <2>4. TuiPart!Members(q) = S
    <3>1. \A x : x \in TuiPart!Members(q) <=> x \in S
      BY <2>2, <2>3 DEF TuiPart!Members
    <3> QED BY <3>1
  <2>5. \A i, j \in DOMAIN q : i < j => q[i] < q[j]
    BY <1>1, <2>2
  <2> QED BY <2>2, <2>4, <2>5
<1>5. TuiPart!Sorted(S) = CHOOSE q \in [1..n -> S] : Ascending(q)
  BY <1>3 DEF TuiPart!Sorted
<1> HIDE DEF Ascending
<1>6. TuiPart!Sorted(S) \in [1..n -> S] /\ Ascending(TuiPart!Sorted(S))
  BY <1>4, <1>5
<1>7. S \subseteq Nat
  BY <1>1
<1>8. TuiPart!Sorted(S) \in [1..n -> Nat]
  BY <1>6, <1>7
<1> QED BY <1>1, <1>6, <1>8 DEF Ascending

\* The user opens what the session is pending on.
LEMMA LoadsPending ==
  ASSUME TuiTypes, NEW s \in SessionIds, NEW readable \in BOOLEAN,
         TuiPart!LoadPendingApprovals(s, readable)
  PROVE  /\ approvalQueue' \in Seq(Nat) /\ modal' \in {"none", "approval"}
         /\ modal' = "approval" =>
              approvalDecisions' \cup TuiPart!Members(approvalQueue)' = pending[s]
<1>1. IsRange(pending[s])
  BY DEF TuiTypes
<1>2. /\ approvalQueue' = (IF readable THEN TuiPart!Sorted(pending[s]) ELSE <<>>)
      /\ approvalDecisions' = {}
      /\ modal' = (IF approvalQueue' = <<>> THEN "none" ELSE "approval")
  BY DEF TuiPart!LoadPendingApprovals
<1>3. TuiPart!Sorted(pending[s]) \in Seq(Nat)
      /\ TuiPart!Members(TuiPart!Sorted(pending[s])) = pending[s]
  BY <1>1, SortedHas
<1>4. \A q : q = approvalQueue' => TuiPart!Members(q) = TuiPart!Members(approvalQueue)'
  BY DEF TuiPart!Members
<1> QED BY <1>2, <1>3, <1>4

LEMMA TuiStep ==
  ASSUME TuiInv, [TuiPart!Next]_(TuiPart!vars)
  PROVE  TuiInv'
<1> USE DEF TuiInv, TuiTypes, TuiPart!store, TuiPart!ui, TuiPart!run, TuiPart!history
<1>0. None \notin SessionIds
  BY PartsAssumption DEF TuiPart!TuiAssumption
<1>1. CASE TuiPart!SubmitMessage
  <2>1. /\ modal = "none" /\ UNCHANGED <<modal, pending, approvalQueue, asked>>
        /\ texts' = texts + 1 /\ input' = texts' /\ pc' = "start" /\ runActive' = TRUE
        /\ on' = currentSession'
        /\ currentSession' \in SessionIds
    BY <1>1 DEF TuiPart!SubmitMessage, TuiPart!Launch, TuiPart!CreateSession
  <2>2. input' # 0 /\ texts' \in Nat
    BY <2>1
  <2>3. TuiTypes'
    BY <2>1, <2>2
  <2> HIDE DEF TuiTypes
  <2> QED BY <2>1, <2>2, <2>3
<1>2. CASE TuiPart!New
  <2>1. /\ modal = "none" /\ ~runActive /\ approvalQueue' = <<>>
        /\ currentSession' \in SessionIds
        /\ UNCHANGED <<pending, modal, runActive, pc, on, input, resumeData, texts, asked>>
    BY <1>2 DEF TuiPart!New, TuiPart!CreateSession
  <2> QED BY <2>1
<1>3. CASE TuiPart!OpenSessions \/ TuiPart!CloseModal
  BY <1>3 DEF TuiPart!OpenSessions, TuiPart!CloseModal
<1>4. CASE TuiPart!PickSession
  <2>1. PICK s \in SessionIds, readable \in BOOLEAN :
          /\ currentSession' = s /\ TuiPart!LoadPendingApprovals(s, readable)
          /\ ~runActive
          /\ UNCHANGED <<pending, runActive, pc, on, input, resumeData, texts, asked>>
    BY <1>4 DEF TuiPart!PickSession, TuiPart!LoadSession, TuiPart!Created
  <2> QED BY <2>1, LoadsPending
<1>5. CASE TuiPart!Resume
  <2>1. PICK readable \in BOOLEAN :
          /\ TuiPart!LoadPendingApprovals(currentSession, readable)
          /\ currentSession \in SessionIds /\ ~runActive
          /\ UNCHANGED <<pending, currentSession, runActive, pc, on, input, resumeData, texts, asked>>
    BY <1>5 DEF TuiPart!Resume
  <2> QED BY <2>1, LoadsPending
<1>6. CASE TuiPart!ResolveApproval
  <2> DEFINE decided == approvalDecisions \cup {approvalQueue[1]}
  <2>1. /\ modal = "approval" /\ ~runActive /\ approvalQueue # <<>>
        /\ approvalQueue' = Tail(approvalQueue)
        /\ UNCHANGED <<pending, currentSession, texts, asked>>
        /\ \/ /\ Len(approvalQueue) > 1 /\ approvalDecisions' = decided
              /\ UNCHANGED <<modal, runActive, pc, on, input, resumeData>>
           \/ /\ ~(Len(approvalQueue) > 1) /\ modal' = "none"
              /\ \/ /\ runActive' = TRUE /\ pc' = "start" /\ on' = currentSession
                    /\ resumeData' = decided
                 \/ UNCHANGED <<runActive, pc, on, input, resumeData>>
    BY <1>6 DEF TuiPart!ResolveApproval, TuiPart!Launch
  <2>2. /\ approvalQueue' \in Seq(Nat) /\ DOMAIN approvalQueue = 1..Len(approvalQueue)
        /\ Len(approvalQueue) \in Nat \ {0}
        /\ DOMAIN approvalQueue' = 1..(Len(approvalQueue) - 1)
        /\ \A k \in 1..(Len(approvalQueue) - 1) : approvalQueue'[k] = approvalQueue[k + 1]
    BY <2>1
  <2>3. decided \cup TuiPart!Members(approvalQueue)' = pending[currentSession]
    <3>1. \A x : x \in TuiPart!Members(approvalQueue)
                   <=> x = approvalQueue[1] \/ x \in TuiPart!Members(approvalQueue)'
      <4>1. \A k \in 1..Len(approvalQueue) : k = 1 \/ k - 1 \in 1..(Len(approvalQueue) - 1)
        BY <2>2
      <4>2. \A k \in 1..(Len(approvalQueue) - 1) : k + 1 \in 1..Len(approvalQueue)
        BY <2>2
      <4> HIDE DEF TuiInv, TuiTypes
      <4>3. \A x : (\E k \in 1..Len(approvalQueue) : x = approvalQueue[k])
                     <=> x = approvalQueue[1]
                         \/ \E k \in 1..(Len(approvalQueue) - 1) : x = approvalQueue'[k]
        <5>1. \A k \in 1..Len(approvalQueue) :
                k = 1 \/ approvalQueue'[k - 1] = approvalQueue[k]
          BY <2>2, <4>1
        <5> QED BY <2>2, <4>1, <4>2, <5>1, SMTT(30)
      <4>4. \A x : x \in TuiPart!Members(approvalQueue)
                     <=> \E k \in 1..Len(approvalQueue) : x = approvalQueue[k]
        BY <2>2 DEF TuiPart!Members
      <4>5. \A x : x \in TuiPart!Members(approvalQueue)'
                     <=> \E k \in 1..(Len(approvalQueue) - 1) : x = approvalQueue'[k]
        BY <2>2 DEF TuiPart!Members
      <4> QED BY <4>3, <4>4, <4>5
    <3> QED BY <2>1, <3>1
  <2>4. ~(Len(approvalQueue) > 1) => TuiPart!Members(approvalQueue)' = {}
    BY <2>2 DEF TuiPart!Members
  <2> HIDE DEF decided
  <2> QED BY <2>1, <2>2, <2>3, <2>4
<1>7. CASE TuiPart!Fails
  BY <1>7 DEF TuiPart!Fails
<1>8. CASE TuiPart!Starts
  BY <1>8 DEF TuiPart!Starts
<1>9. CASE TuiPart!Says \/ TuiPart!HasSaid
  <2>1. /\ pc = "loop" /\ texts' \in Nat
        /\ UNCHANGED <<pending, currentSession, modal, runActive, approvalQueue, approvalDecisions,
                       pc, on, input, resumeData, asked>>
    BY <1>9 DEF TuiPart!Says, TuiPart!HasSaid
  <2> QED BY <2>1
<1>10. CASE TuiPart!Pauses
  <2>1. PICK n \in 1..2 : /\ asked' = asked + n
                          /\ pending' = [pending EXCEPT ![on] = (asked + 1)..(asked + n)]
    BY <1>10 DEF TuiPart!Pauses
  <2>2. /\ pc = "loop" /\ pc' = "paused"
        /\ UNCHANGED <<currentSession, modal, runActive, approvalQueue, approvalDecisions,
                       on, input, resumeData, texts>>
    BY <1>10 DEF TuiPart!Pauses
  <2>3. IsRange((asked + 1)..(asked + n)) /\ (asked + 1)..(asked + n) \in SUBSET Nat
        /\ asked' \in Nat
    <3>1. asked \in Nat /\ n \in Nat
      OBVIOUS
    <3>2. asked' \in Nat /\ (asked + 1)..(asked + n) \in SUBSET Nat
      BY <2>1, <3>1
    <3> HIDE DEF TuiInv, TuiTypes
    <3> QED BY <3>1, <3>2 DEF IsRange
  <2>4. pending' \in [SessionIds -> SUBSET Nat] /\ \A s \in SessionIds : IsRange(pending'[s])
    BY <2>1, <2>3
  <2> QED BY <2>2, <2>3, <2>4
<1>11. CASE TuiPart!InterruptEvent
  <2>1. /\ pc = "paused" /\ pc' = "ended" /\ approvalQueue' = TuiPart!Sorted(pending[on])
        /\ approvalDecisions' = {} /\ modal' = "approval"
        /\ UNCHANGED <<pending, currentSession, runActive, on, input, resumeData, texts, asked>>
    BY <1>11 DEF TuiPart!InterruptEvent
  <2>2. on = currentSession /\ on \in SessionIds /\ IsRange(pending[on])
    BY <2>1
  <2>3. approvalQueue' \in Seq(Nat) /\ TuiPart!Members(TuiPart!Sorted(pending[on])) = pending[on]
    BY <2>1, <2>2, SortedHas
  <2>4. \A q : q = approvalQueue' => TuiPart!Members(q) = TuiPart!Members(approvalQueue)'
    BY DEF TuiPart!Members
  <2> QED BY <2>1, <2>2, <2>3, <2>4
<1>12. CASE TuiPart!Completes
  <2>1. /\ pc = "loop" /\ pc' = "ended"
        /\ pending' \in {pending, [pending EXCEPT ![on] = {}]}
        /\ UNCHANGED <<currentSession, modal, runActive, approvalQueue, approvalDecisions,
                       on, input, resumeData, texts, asked>>
    BY <1>12 DEF TuiPart!Completes
  <2>2. IsRange({})
    <3>1. {} = (0 + 1)..(0 + 0)
      OBVIOUS
    <3> QED BY <3>1 DEF IsRange
  <2>3. pending' \in [SessionIds -> SUBSET Nat] /\ \A s \in SessionIds : IsRange(pending'[s])
    BY <2>1, <2>2
  <2> QED BY <2>1, <2>3
<1>13. CASE TuiPart!AgentEnd
  BY <1>13 DEF TuiPart!AgentEnd
<1>14. CASE TuiPart!Restart
  <2>1. PICK s \in SessionIds :
          /\ currentSession' = s /\ TuiPart!LoadPendingApprovals(s, TRUE)
          /\ runActive' = FALSE /\ pc' = "none"
          /\ UNCHANGED <<pending, on, input, resumeData, texts, asked>>
    BY <1>14 DEF TuiPart!Restart, TuiPart!LoadSession, TuiPart!Created
  <2> QED BY <2>1, LoadsPending
<1>15. CASE UNCHANGED TuiPart!vars
  BY <1>15 DEF TuiPart!vars, TuiPart!Members
<1> QED
  BY <1>1, <1>2, <1>3, <1>4, <1>5, <1>6, <1>7, <1>8, <1>9, <1>10, <1>11, <1>12, <1>13,
    <1>14, <1>15
  DEF TuiPart!Next, TuiPart!Keys, TuiPart!Events

LEMMA TuiFirst ==
  ASSUME TuiPart!Init
  PROVE  TuiInv
<1>1. IsRange({})
  <2>1. {} = (0 + 1)..(0 + 0)
    OBVIOUS
  <2> QED BY <2>1 DEF IsRange
<1> USE DEF TuiPart!Init
<1>2. pending \in [SessionIds -> SUBSET Nat] /\ \A s \in SessionIds : IsRange(pending[s])
  BY <1>1
<1>3. approvalQueue \in Seq(Nat)
  OBVIOUS
<1> QED BY <1>2, <1>3 DEF TuiInv, TuiTypes

-----------------------------------------------------------------------------
(* Tui: what was said stays in sight. *)

SightTypes ==
  /\ entries \in [SessionIds -> Seq(Nat)] /\ transcript \in Seq(Nat) /\ kept \subseteq 1..texts
  /\ ElementsOf(transcript) \subseteq 0..texts
  /\ \A s \in SessionIds : ElementsOf(entries[s]) \subseteq 0..texts
  /\ {input, saying, last} \subseteq 0..texts /\ currentTextBlock \in Nat

\* The last of q is e, and is nowhere before.
EndsWith(q, e) == \E front \in Seq(Nat) : q = Append(front, e) /\ e \notin ElementsOf(front)

Shows(n) == currentTextBlock # 0 /\ transcript[currentTextBlock] = n

\* What is kept is the same in the transcript and in the session.
SameKept == currentSession # None => Keep(transcript, kept) = Keep(entries[currentSession], kept)

\* The block of the run is the last one of the transcript, and not kept yet.
BlockInv ==
  /\ currentSession = None => transcript = <<>>
  /\ ~runActive => currentTextBlock = 0
  /\ currentTextBlock # 0 =>
       /\ currentTextBlock = Len(transcript)
       /\ EndsWith(transcript, transcript[Len(transcript)])
       /\ transcript[Len(transcript)] \notin kept

\* The message of the user, until it is saved.
InputInv ==
  pc = "start" =>
    /\ saying = 0 /\ last = 0 /\ currentTextBlock = 0
    /\ input # 0 => /\ EndsWith(transcript, input)
                    /\ input \notin ElementsOf(entries[on]) \cup kept

\* The message that is coming, and the last one that was saved: that is the last one
\* of the session, and in sight until the next one comes.
SayingInv ==
  pc \in {"loop", "paused", "ended"} =>
    /\ saying # 0 => /\ pc = "loop" /\ Shows(saying)
                     /\ saying \notin ElementsOf(entries[on])
    /\ last # 0 => /\ EndsWith(entries[on], last) /\ last \notin kept
                   /\ currentTextBlock # 0 /\ (saying = 0 => Shows(last))

SightInv == SightTypes /\ SameKept /\ BlockInv /\ InputInv /\ SayingInv

\* A new message at the end.
LEMMA Extends ==
  ASSUME NEW q \in Seq(Nat), NEW e \in Nat, NEW K, e \notin K
  PROVE  /\ Append(q, e) \in Seq(Nat) /\ Len(Append(q, e)) = Len(q) + 1 /\ Len(q) \in Nat
         /\ Append(q, e)[Len(q) + 1] = e
         /\ ElementsOf(Append(q, e)) = ElementsOf(q) \cup {e}
         /\ Keep(Append(q, e), K) = Keep(q, K)
         /\ e \notin ElementsOf(q) => EndsWith(Append(q, e), e)
<1>1. ElementsOf(Append(q, e)) = ElementsOf(q) \cup {e}
  BY ElementsOfAppend
<1>2. Keep(Append(q, e), K) = Keep(q, K)
  BY KeepAppend
<1>3. e \notin ElementsOf(q) => EndsWith(Append(q, e), e)
  BY DEF EndsWith
<1> QED BY <1>1, <1>2, <1>3

\* A new message in the place of the last one.
Replaced(q, e) == [q EXCEPT ![Len(q)] = e]

LEMMA Replaces ==
  ASSUME NEW q \in Seq(Nat), NEW K, NEW d \in Nat, EndsWith(q, d), d \notin K,
         NEW e \in Nat, e \notin K, e \notin ElementsOf(q), NEW r, r = Replaced(q, e)
  PROVE  /\ r \in Seq(Nat) /\ Len(r) = Len(q) /\ r[Len(q)] = e /\ EndsWith(r, e)
         /\ Keep(r, K) = Keep(q, K) /\ ElementsOf(r) \subseteq ElementsOf(q) \cup {e}
<1>1. PICK front \in Seq(Nat) : q = Append(front, d) /\ d \notin ElementsOf(front)
  BY DEF EndsWith
<1>2. Len(front) \in Nat /\ Len(q) = Len(front) + 1
  BY <1>1
<1>3. r = Append(front, e)
  <2>1. DOMAIN q = 1..(Len(front) + 1)
    BY <1>2
  <2>2. r \in Seq(Nat) /\ Len(r) = Len(front) + 1
    BY <1>2, <2>1 DEF Replaced
  <2>3. \A i \in 1..(Len(front) + 1) : r[i] = IF i = Len(front) + 1 THEN e ELSE q[i]
    BY <1>2, <2>1 DEF Replaced
  <2>4. \A i \in 1..(Len(front) + 1) :
          Append(front, e)[i] = IF i = Len(front) + 1 THEN e ELSE q[i]
    BY <1>1, <1>2
  <2>5. Append(front, e) \in Seq(Nat) /\ Len(Append(front, e)) = Len(front) + 1
    BY <1>2
  <2>6. \A i \in 1..(Len(front) + 1) : r[i] = Append(front, e)[i]
    BY <2>3, <2>4
  <2> QED BY <1>2, <2>2, <2>5, <2>6, SeqEqual
<1>4. ElementsOf(q) = ElementsOf(front) \cup {d}
  BY <1>1, ElementsOfAppend
<1>5. Keep(q, K) = Keep(front, K)
  BY <1>1, KeepAppend
<1>6. /\ Append(front, e) \in Seq(Nat) /\ Append(front, e)[Len(front) + 1] = e
      /\ ElementsOf(Append(front, e)) = ElementsOf(front) \cup {e}
      /\ Keep(Append(front, e), K) = Keep(front, K) /\ EndsWith(Append(front, e), e)
      /\ Len(Append(front, e)) = Len(front) + 1
  BY <1>4, Extends
<1> QED BY <1>2, <1>3, <1>4, <1>5, <1>6

\* What is kept of the last one once it is.
LEMMA KeepsLast ==
  ASSUME NEW q \in Seq(Nat), NEW e \in Nat, EndsWith(q, e), NEW K, e \notin K
  PROVE  Keep(q, K \cup {e}) = Append(Keep(q, K), e)
<1>1. PICK front \in Seq(Nat) : q = Append(front, e) /\ e \notin ElementsOf(front)
  BY DEF EndsWith
<1>2. Keep(q, K) = Keep(front, K)
  BY <1>1, KeepAppend
<1>3. Keep(q, K \cup {e}) = Append(Keep(front, K \cup {e}), e)
  BY <1>1, KeepAppend, SMTT(30)
<1>4. Keep(front, K \cup {e}) = Keep(front, K)
  BY <1>1, KeepSame
<1> QED BY <1>2, <1>3, <1>4

\* Steps that say nothing.
LEMMA SightSame ==
  ASSUME SightInv,
         UNCHANGED <<entries, transcript, kept, texts, currentSession, on, input, saying, last,
                     currentTextBlock, runActive>>,
         \/ pc' = pc \/ pc' = "failed"
         \/ pc \in {"loop", "paused"} /\ pc' \in {"paused", "ended"} /\ saying = 0
  PROVE  SightInv'
<1> USE DEF SightInv
<1>1. SightTypes'
  BY DEF SightTypes
<1>2. SameKept'
  BY DEF SameKept
<1>3. BlockInv'
  BY DEF BlockInv
<1>4. InputInv'
  BY DEF InputInv
<1>5. SayingInv'
  BY DEF SayingInv, Shows
<1> QED BY <1>1, <1>2, <1>3, <1>4, <1>5

\* The transcript is built again from the session.
LEMMA SightLoaded ==
  ASSUME SightInv, NEW s \in SessionIds, currentSession' = s, transcript' = entries[s],
         currentTextBlock' = 0, pc' = "none", None \notin SessionIds,
         UNCHANGED <<entries, kept, texts, input, saying, last>>
  PROVE  SightInv'
<1> USE DEF SightInv
<1>1. SightTypes'
  BY DEF SightTypes
<1>2. SameKept'
  BY DEF SameKept
<1>3. BlockInv'
  BY DEF BlockInv
<1> QED BY <1>1, <1>2, <1>3 DEF InputInv, SayingInv

\* A run begins, with a new message or with answers.
LEMMA SightSubmitted ==
  ASSUME TuiInv, SightInv, TuiPart!SubmitMessage, None \notin SessionIds
  PROVE  SightInv'
<1>1. /\ texts' = texts + 1 /\ texts \in Nat /\ kept' = kept
      /\ transcript' = Append(transcript, texts') /\ currentTextBlock' = 0
      /\ pc' = "start" /\ runActive' = TRUE /\ on' = currentSession' /\ input' = texts'
      /\ saying' = 0 /\ last' = 0
  BY DEF TuiPart!SubmitMessage, TuiPart!StreamingState, TuiPart!Launch, TuiInv, TuiTypes
<1>2. /\ currentSession' \in SessionIds
      /\ \/ currentSession' = currentSession /\ entries' = entries
         \/ /\ currentSession = None
            /\ entries' = [entries EXCEPT ![currentSession'] = <<>>]
  BY DEF TuiPart!SubmitMessage, TuiPart!CreateSession, TuiInv, TuiTypes
<1>3. /\ transcript \in Seq(Nat) /\ texts' \in Nat /\ texts' \notin kept
      /\ texts' \notin ElementsOf(transcript)
  BY <1>1 DEF SightInv, SightTypes
<1>4. /\ transcript' \in Seq(Nat) /\ EndsWith(transcript', input')
      /\ ElementsOf(transcript') \subseteq 0..texts' /\ Keep(transcript', kept) = Keep(transcript, kept)
  <2>1. ElementsOf(transcript) \subseteq 0..texts
    BY DEF SightInv, SightTypes
  <2> QED BY <1>1, <1>3, <2>1, Extends
<1>5. /\ entries' \in [SessionIds -> Seq(Nat)]
      /\ \A s \in SessionIds : ElementsOf(entries'[s]) \subseteq 0..texts
  <2>1. ElementsOf(<<>>) = {} /\ <<>> \in Seq(Nat)
    BY EmptyIsDistinct
  <2>2. /\ entries \in [SessionIds -> Seq(Nat)]
        /\ \A s \in SessionIds : ElementsOf(entries[s]) \subseteq 0..texts
    BY DEF SightInv, SightTypes
  <2> QED BY <1>2, <2>1, <2>2
<1>6. SightTypes'
  BY <1>1, <1>4, <1>5 DEF SightInv, SightTypes
<1>7. Keep(transcript', kept) = Keep(entries'[currentSession'], kept)
  <2>1. CASE currentSession' = currentSession /\ entries' = entries
    BY <1>2, <1>4, <2>1 DEF SightInv, SameKept
  <2>2. CASE currentSession = None /\ entries' = [entries EXCEPT ![currentSession'] = <<>>]
    <3>1. transcript = <<>> /\ entries'[currentSession'] = <<>>
      BY <1>2, <2>2 DEF SightInv, BlockInv, SightTypes
    <3> QED BY <1>4, <3>1
  <2> QED BY <1>2, <2>1, <2>2
<1>8. SameKept'
  BY <1>1, <1>7 DEF SameKept
<1>9. BlockInv'
  BY <1>1, <1>2 DEF BlockInv
<1>10. input' \notin ElementsOf(entries'[on']) \cup kept
  BY <1>1, <1>2, <1>3, <1>5
<1>11. InputInv'
  BY <1>1, <1>4, <1>10 DEF InputInv
<1> QED BY <1>1, <1>6, <1>8, <1>9, <1>11 DEF SightInv, SayingInv

\* The run has saved the user's message.
LEMMA SightStarts ==
  ASSUME TuiInv, SightInv, TuiPart!Starts, None \notin SessionIds
  PROVE  SightInv'
<1>1. /\ pc = "start" /\ pc' = "loop" /\ on = currentSession /\ on \in SessionIds
      /\ runActive' = runActive /\ runActive
      /\ UNCHANGED <<transcript, texts, currentSession, on, input, saying, last, currentTextBlock>>
  BY DEF TuiPart!Starts, TuiPart!ui, TuiInv, TuiTypes
<1>2. saying = 0 /\ last = 0 /\ currentTextBlock = 0
  BY <1>1 DEF SightInv, InputInv
<1>3. CASE input = 0
  <2>1. UNCHANGED <<entries, kept>>
    BY <1>3 DEF TuiPart!Starts
  <2>2. SightTypes' /\ SameKept'
    BY <1>1, <2>1 DEF SightInv, SightTypes, SameKept
  <2>3. BlockInv'
    BY <1>1, <1>2, <2>1 DEF SightInv, BlockInv
  <2> QED BY <1>1, <1>2, <2>2, <2>3 DEF SightInv, InputInv, SayingInv
<1>4. CASE input # 0
  <2>1. /\ entries' = [entries EXCEPT ![on] = Append(entries[on], input)]
        /\ kept' = kept \cup {input}
    BY <1>4 DEF TuiPart!Starts
  <2>2. /\ EndsWith(transcript, input) /\ input \notin ElementsOf(entries[on]) \cup kept
        /\ transcript \in Seq(Nat) /\ entries[on] \in Seq(Nat) /\ input \in Nat /\ texts \in Nat
        /\ input \in 1..texts
    BY <1>1, <1>4 DEF SightInv, InputInv, SightTypes, TuiInv, TuiTypes
  <2>3. entries'[on] = Append(entries[on], input)
    BY <1>1, <2>1 DEF SightInv, SightTypes
  <2>4. Keep(transcript', kept') = Append(Keep(transcript, kept), input)
    BY <1>1, <2>1, <2>2, KeepsLast
  <2>5. Keep(entries'[on], kept') = Append(Keep(entries[on], kept), input)
    <3>1. EndsWith(Append(entries[on], input), input)
      BY <2>2 DEF EndsWith
    <3>2. Append(entries[on], input) \in Seq(Nat)
          /\ Keep(Append(entries[on], input), kept) = Keep(entries[on], kept)
      BY <2>2, Extends
    <3> QED BY <2>1, <2>2, <2>3, <3>1, <3>2, KeepsLast
  <2>6. SameKept'
    BY <1>1, <2>4, <2>5 DEF SightInv, SameKept
  <2>7. SightTypes'
    <3>1. Append(entries[on], input) \in Seq(Nat)
          /\ ElementsOf(Append(entries[on], input)) = ElementsOf(entries[on]) \cup {input}
      BY <2>2, Extends
    <3>2. /\ entries' \in [SessionIds -> Seq(Nat)]
          /\ \A s \in SessionIds : ElementsOf(entries'[s]) \subseteq 0..texts
      BY <1>1, <2>1, <2>2, <3>1 DEF SightInv, SightTypes
    <3> QED BY <1>1, <2>1, <2>2, <3>2 DEF SightInv, SightTypes
  <2>8. BlockInv'
    BY <1>1, <1>2 DEF SightInv, BlockInv
  <2> QED BY <1>1, <1>2, <2>6, <2>7, <2>8 DEF SightInv, InputInv, SayingInv
<1> QED BY <1>3, <1>4

\* The model says more.
LEMMA SightSays ==
  ASSUME TuiInv, SightInv, TuiPart!Says, None \notin SessionIds
  PROVE  SightInv'
<1>1. /\ pc = "loop" /\ pc' = pc /\ saying = 0 /\ texts \in Nat /\ texts' = texts + 1
      /\ saying' = texts' /\ TuiPart!UpsertAssistantText(texts') /\ runActive
      /\ on = currentSession /\ on \in SessionIds
      /\ UNCHANGED <<entries, kept, currentSession, on, input, last, runActive>>
  BY DEF TuiPart!Says, TuiPart!store, TuiInv, TuiTypes
<1>2. /\ transcript \in Seq(Nat) /\ texts' \in Nat /\ texts' \notin kept
      /\ ElementsOf(transcript) \subseteq 0..texts
      /\ texts' \notin ElementsOf(transcript) /\ texts' \notin ElementsOf(entries[on])
  BY <1>1 DEF SightInv, SightTypes
<1>3. /\ transcript' \in Seq(Nat) /\ currentTextBlock' = Len(transcript')
      /\ transcript'[Len(transcript')] = texts' /\ EndsWith(transcript', texts')
      /\ Len(transcript') \in Nat \ {0}
      /\ Keep(transcript', kept) = Keep(transcript, kept)
      /\ ElementsOf(transcript') \subseteq ElementsOf(transcript) \cup {texts'}
  <2>1. CASE currentTextBlock = 0
    <3>1. transcript' = Append(transcript, texts') /\ currentTextBlock' = Len(transcript')
      BY <1>1, <2>1 DEF TuiPart!UpsertAssistantText
    <3> QED BY <1>2, <3>1, Extends
  <2>2. CASE currentTextBlock # 0
    <3>1. PICK d : d = transcript[Len(transcript)]
      OBVIOUS
    <3>3. /\ currentTextBlock = Len(transcript) /\ d \notin kept /\ EndsWith(transcript, d)
          /\ Len(transcript) \in Nat \ {0} /\ d \in Nat
      BY <1>2, <2>2, <3>1 DEF SightInv, BlockInv
    <3>2. /\ transcript' = [transcript EXCEPT ![Len(transcript)] = texts']
          /\ currentTextBlock' = currentTextBlock
      BY <1>1, <2>2, <3>3 DEF TuiPart!UpsertAssistantText
    <3>4. PICK q, K, e, longer :
            q = transcript /\ K = kept /\ e = texts' /\ longer = transcript'
      OBVIOUS
    <3>5. /\ q \in Seq(Nat) /\ d \in Nat /\ EndsWith(q, d) /\ d \notin K
          /\ e \in Nat /\ e \notin K /\ e \notin ElementsOf(q)
          /\ longer = Replaced(q, e)
      BY <1>2, <3>2, <3>3, <3>4 DEF Replaced
    <3>6. /\ longer \in Seq(Nat) /\ Len(longer) = Len(q)
          /\ longer[Len(q)] = e /\ EndsWith(longer, e) /\ Keep(longer, K) = Keep(q, K)
          /\ ElementsOf(longer) \subseteq ElementsOf(q) \cup {e}
      BY <3>5, Replaces
    <3> QED BY <3>2, <3>3, <3>4, <3>6
  <2> QED BY <2>1, <2>2
<1>4. SightTypes'
  BY <1>1, <1>2, <1>3 DEF SightInv, SightTypes
<1>5. SameKept'
  BY <1>1, <1>3 DEF SightInv, SameKept
<1>6. BlockInv'
  BY <1>1, <1>2, <1>3 DEF SightInv, BlockInv
<1>7. InputInv'
  BY <1>1 DEF InputInv
<1>8. SayingInv'
  BY <1>1, <1>2, <1>3 DEF SightInv, SayingInv, Shows
<1> QED BY <1>4, <1>5, <1>6, <1>7, <1>8 DEF SightInv

\* A message is whole, and saved.
LEMMA SightHasSaid ==
  ASSUME TuiInv, SightInv, TuiPart!HasSaid
  PROVE  SightInv'
<1>1. /\ pc = "loop" /\ pc' = pc /\ saying # 0 /\ saying' = 0 /\ last' = saying
      /\ TuiPart!UpsertAssistantText(saying) /\ runActive
      /\ on = currentSession /\ on \in SessionIds /\ texts \in Nat
      /\ entries' = [entries EXCEPT ![on] = Append(entries[on], saying)]
      /\ UNCHANGED <<kept, texts, currentSession, on, input, runActive>>
  BY DEF TuiPart!HasSaid, TuiInv, TuiTypes
<1>2. /\ Shows(saying) /\ saying \notin ElementsOf(entries[on])
      /\ currentTextBlock = Len(transcript) /\ saying \notin kept
  BY <1>1 DEF SightInv, SayingInv, BlockInv, Shows
<1>3. transcript \in Seq(Nat) /\ saying \in 0..texts /\ entries[on] \in Seq(Nat)
  BY <1>1 DEF SightInv, SightTypes
<1>4. transcript' = transcript /\ currentTextBlock' = currentTextBlock
  <2>1. /\ transcript' = [transcript EXCEPT ![Len(transcript)] = saying]
        /\ currentTextBlock' = currentTextBlock /\ transcript[Len(transcript)] = saying
        /\ Len(transcript) \in Nat \ {0}
    BY <1>1, <1>2, <1>3 DEF TuiPart!UpsertAssistantText, Shows
  <2>2. transcript' \in Seq(Nat) /\ Len(transcript') = Len(transcript)
        /\ \A i \in 1..Len(transcript) : transcript'[i] = transcript[i]
    BY <1>3, <2>1
  <2> QED BY <1>3, <2>1, <2>2, SeqEqual
<1>5. /\ entries'[on] = Append(entries[on], saying)
      /\ \A s \in SessionIds \ {on} : entries'[s] = entries[s]
      /\ DOMAIN entries' = SessionIds
  BY <1>1 DEF SightInv, SightTypes
<1>6. /\ Append(entries[on], saying) \in Seq(Nat)
      /\ ElementsOf(Append(entries[on], saying)) = ElementsOf(entries[on]) \cup {saying}
      /\ Keep(Append(entries[on], saying), kept) = Keep(entries[on], kept)
      /\ EndsWith(Append(entries[on], saying), saying)
  BY <1>2, <1>3, Extends
<1>7. SightTypes'
  <2>1. entries' \in [SessionIds -> Seq(Nat)]
    BY <1>1, <1>6 DEF SightInv, SightTypes
  <2>2. \A s \in SessionIds : ElementsOf(entries'[s]) \subseteq 0..texts
    BY <1>1, <1>3, <1>5, <1>6 DEF SightInv, SightTypes
  <2> QED BY <1>1, <1>3, <1>4, <2>1, <2>2 DEF SightInv, SightTypes
<1>8. SameKept'
  BY <1>1, <1>4, <1>5, <1>6 DEF SightInv, SameKept
<1>9. BlockInv'
  BY <1>1, <1>4 DEF SightInv, BlockInv
<1>10. InputInv'
  BY <1>1 DEF InputInv
<1>11. SayingInv'
  BY <1>1, <1>2, <1>4, <1>5, <1>6 DEF SightInv, SayingInv, Shows
<1> QED BY <1>7, <1>8, <1>9, <1>10, <1>11 DEF SightInv

\* The run is over: if it has succeeded, its last message is kept.
LEMMA SightEnds ==
  ASSUME TuiInv, SightInv, TuiPart!AgentEnd, None \notin SessionIds
  PROVE  SightInv'
<1>1. /\ pc \in {"ended", "failed"} /\ pc' = "none" /\ runActive /\ ~runActive'
      /\ currentTextBlock' = 0 /\ on = currentSession /\ on \in SessionIds /\ texts \in Nat
      /\ kept' = (IF pc = "ended" THEN kept \cup ({last} \ {0}) ELSE kept)
      /\ UNCHANGED <<entries, transcript, texts, currentSession, on, input, saying, last>>
  BY DEF TuiPart!AgentEnd, TuiPart!StreamingState, TuiPart!store, TuiInv, TuiTypes
<1>2. SightTypes'
  <2>1. last \in 0..texts /\ kept \subseteq 1..texts
    BY DEF SightInv, SightTypes
  <2>2. {last} \ {0} \subseteq 1..texts
    BY <1>1, <2>1
  <2>3. kept' \subseteq 1..texts
    BY <1>1, <2>1, <2>2
  <2> QED BY <1>1, <2>3 DEF SightInv, SightTypes
<1>3. BlockInv'
  BY <1>1 DEF SightInv, BlockInv
<1>4. Keep(transcript, kept') = Keep(entries[on], kept')
  <2>1. CASE kept' = kept
    BY <1>1, <2>1 DEF SightInv, SameKept, TuiInv
  <2>2. CASE pc = "ended" /\ last # 0
    <3>1. /\ EndsWith(entries[on], last) /\ last \notin kept
          /\ currentTextBlock # 0 /\ Shows(last)
      BY <2>2 DEF SightInv, SayingInv
    <3>2. EndsWith(transcript, last)
      BY <3>1 DEF SightInv, BlockInv, Shows
    <3>3. transcript \in Seq(Nat) /\ entries[on] \in Seq(Nat) /\ last \in Nat
      BY <1>1 DEF SightInv, SightTypes
    <3>4. Keep(transcript, kept) = Keep(entries[on], kept)
      BY <1>1 DEF SightInv, SameKept
    <3>5. kept' = kept \cup {last}
      BY <1>1, <2>2
    <3>6. Keep(transcript, kept \cup {last}) = Append(Keep(transcript, kept), last)
      BY <3>1, <3>2, <3>3, KeepsLast
    <3>7. Keep(entries[on], kept \cup {last}) = Append(Keep(entries[on], kept), last)
      BY <3>1, <3>3, KeepsLast
    <3> QED BY <3>4, <3>5, <3>6, <3>7
  <2> QED BY <1>1, <2>1, <2>2
<1>5. SameKept'
  BY <1>1, <1>4 DEF SameKept
<1> QED BY <1>1, <1>2, <1>3, <1>5 DEF SightInv, InputInv, SayingInv

LEMMA SightStep ==
  ASSUME TuiInv, SightInv, [TuiPart!Next]_(TuiPart!vars)
  PROVE  SightInv'
<1>0. None \notin SessionIds
  BY PartsAssumption DEF TuiPart!TuiAssumption
<1> USE DEF TuiPart!store, TuiPart!ui, TuiPart!run, TuiPart!history
<1>1. CASE TuiPart!SubmitMessage
  BY <1>0, <1>1, SightSubmitted
<1>2. CASE TuiPart!New
  <2>1. PICK s \in SessionIds :
          /\ currentSession' = s /\ entries' = [entries EXCEPT ![s] = <<>>]
          /\ transcript' = <<>> /\ currentTextBlock' = 0 /\ ~runActive
          /\ UNCHANGED <<kept, texts, input, saying, last, pc, runActive>>
    BY <1>2 DEF TuiPart!New, TuiPart!CreateSession, TuiPart!StreamingState
  <2>2. ElementsOf(<<>>) = {} /\ <<>> \in Seq(Nat)
    BY EmptyIsDistinct
  <2>3. SightTypes' /\ entries'[s] = <<>>
    BY <2>1, <2>2 DEF SightInv, SightTypes
  <2>4. SameKept' /\ BlockInv'
    BY <1>0, <2>1, <2>3 DEF SameKept, BlockInv
  <2> QED BY <2>1, <2>3, <2>4 DEF SightInv, InputInv, SayingInv, TuiInv, TuiTypes
<1>3. CASE TuiPart!OpenSessions \/ TuiPart!CloseModal \/ TuiPart!Resume
  BY <1>3, SightSame DEF TuiPart!OpenSessions, TuiPart!CloseModal, TuiPart!Resume
<1>4. CASE TuiPart!PickSession
  <2>1. PICK s \in SessionIds : currentSession' = s /\ transcript' = entries[s]
    BY <1>4 DEF TuiPart!PickSession, TuiPart!LoadSession, TuiPart!Created,
      TuiPart!RebuiltTranscript
  <2>2. currentTextBlock' = 0 /\ pc' = "none"
        /\ UNCHANGED <<entries, kept, texts, input, saying, last>>
    BY <1>4 DEF TuiPart!PickSession, TuiPart!LoadSession, TuiPart!StreamingState, TuiInv, TuiTypes
  <2> QED BY <1>0, <2>1, <2>2, SightLoaded
<1>5. CASE TuiPart!ResolveApproval
  <2>1. CASE Len(approvalQueue) > 1
    BY <1>5, <2>1, SightSame DEF TuiPart!ResolveApproval
  <2>2. CASE ~(Len(approvalQueue) > 1)
    <3>1. /\ ~runActive /\ currentTextBlock = 0
          /\ UNCHANGED <<entries, currentSession, transcript, texts, kept, currentTextBlock>>
      BY <1>5, <2>2 DEF TuiPart!ResolveApproval, TuiPart!StreamingState, SightInv, BlockInv
    <3>2. CASE UNCHANGED <<runActive, pc, on, input, saying, last>>
      BY <3>1, <3>2, SightSame
    <3>3. CASE TuiPart!Launch(currentSession, 0, approvalDecisions \cup {approvalQueue[1]})
      <4>1. /\ pc' = "start" /\ runActive' = TRUE /\ input' = 0 /\ saying' = 0 /\ last' = 0
        BY <3>3 DEF TuiPart!Launch
      <4>2. texts \in Nat
        BY DEF TuiInv, TuiTypes
      <4>3. SightTypes' /\ SameKept'
        BY <3>1, <4>1, <4>2 DEF SightInv, SightTypes, SameKept
      <4>4. BlockInv'
        BY <3>1, <4>1 DEF SightInv, BlockInv
      <4> QED BY <3>1, <4>1, <4>3, <4>4 DEF SightInv, InputInv, SayingInv
    <3> QED BY <1>5, <2>2, <3>2, <3>3 DEF TuiPart!ResolveApproval
  <2> QED BY <2>1, <2>2
<1>6. CASE TuiPart!Fails \/ TuiPart!Pauses \/ TuiPart!InterruptEvent \/ TuiPart!Completes
  <2>1. pc = "paused" => saying = 0
    BY DEF SightInv, SayingInv
  <2> QED
    BY <1>6, <2>1, SightSame
    DEF TuiPart!Fails, TuiPart!Pauses, TuiPart!InterruptEvent, TuiPart!Completes
<1>7. CASE TuiPart!Starts
  BY <1>0, <1>7, SightStarts
<1>8. CASE TuiPart!Says
  BY <1>0, <1>8, SightSays
<1>9. CASE TuiPart!HasSaid
  BY <1>9, SightHasSaid
<1>10. CASE TuiPart!AgentEnd
  BY <1>0, <1>10, SightEnds
<1>11. CASE TuiPart!Restart
  <2>1. PICK s \in SessionIds : currentSession' = s /\ transcript' = entries[s]
    BY <1>11 DEF TuiPart!Restart, TuiPart!LoadSession, TuiPart!Created, TuiPart!RebuiltTranscript
  <2>2. currentTextBlock' = 0 /\ pc' = "none"
        /\ UNCHANGED <<entries, kept, texts, input, saying, last>>
    BY <1>11 DEF TuiPart!Restart, TuiPart!LoadSession, TuiPart!StreamingState
  <2> QED BY <1>0, <2>1, <2>2, SightLoaded
<1>12. CASE UNCHANGED TuiPart!vars
  BY <1>12, SightSame DEF TuiPart!vars
<1> QED
  BY <1>1, <1>2, <1>3, <1>4, <1>5, <1>6, <1>7, <1>8, <1>9, <1>10, <1>11, <1>12
  DEF TuiPart!Next, TuiPart!Keys, TuiPart!Events

\* Nothing was said yet.
LEMMA SightFirst ==
  ASSUME TuiPart!Init
  PROVE  SightInv
<1> USE DEF TuiPart!Init
<1>1. ElementsOf(<<>>) = {} /\ ElementsOf(<<0>>) = {0} /\ <<0>> \in Seq(Nat) /\ <<>> \in Seq(Nat)
  BY EmptyIsDistinct DEF ElementsOf
<1>2. SightTypes
  BY <1>1 DEF SightTypes, TuiPart!Nowhere
<1> QED BY <1>2 DEF SightInv, SameKept, BlockInv, InputInv, SayingInv

\* Keep is the same one.
LEMMA SameKeepOfTui == \A q, K : TuiPart!Keep(q, K) = Keep(q, K)
BY DEF TuiPart!Keep, Keep

\* What SightInv is for.
LEMMA SightMeans == SightInv => TuiPart!LastWordsStay
BY SameKeepOfTui DEF SightInv, SameKept, TuiPart!LastWordsStay

-----------------------------------------------------------------------------
(* Codec: what is stored is read back as it was said, whatever the number of contents
   and results: their marshalling is undone one by one. *)

\* A content is read back.
LEMMA ContentBack ==
  ASSUME CodecPart!CodecAssumption, NEW c \in CodecPart!ContentsOf(ContentTypes)
  PROVE  CodecPart!UnmarshalContent(CodecPart!MarshalContent(c)) = CodecPart!KeptContent(c)
<1>1. PICK t, v :
        /\ t \in ContentTypes
        /\ v \in [CodecPart!Fields(t) -> {None, "", "{}", "x"}] /\ c = CodecPart!Content(t, v)
        /\ \A f \in CodecPart!Fields(t) : v[f] \in CodecPart!Values(f)
  BY DEF CodecPart!ContentsOf
<1>2. c.type = t /\ c.value = v /\ c = [type |-> t, value |-> v]
  BY <1>1 DEF CodecPart!Content
<1>3. t \in {"text", "thinking", "image", "toolCall"}
  BY <1>1 DEF CodecPart!CodecAssumption
<1>4. PICK o : o = CodecPart!OmitEmpty(v)
  OBVIOUS
<1>5. \A f \in CodecPart!Fields(t) :
          CodecPart!Field(o, f, "") = IF v[f] \in CodecPart!Empty THEN "" ELSE v[f]
  BY <1>1, <1>4 DEF CodecPart!OmitEmpty, CodecPart!Field
<1>6. PICK g : g = [f \in CodecPart!Fields(t) |-> CodecPart!Field(o, f, "")]
  OBVIOUS
<1>7. CodecPart!UnmarshalContent(CodecPart!MarshalContent(c)) = [type |-> t, value |-> g]
  BY <1>2, <1>4, <1>6 DEF CodecPart!UnmarshalContent, CodecPart!MarshalContent, CodecPart!Content
<1>8. \A f \in CodecPart!Fields(t) :
        g[f] = IF f = "arguments" THEN IF v[f] = "x" THEN v[f] ELSE "" ELSE v[f]
  <2> SUFFICES ASSUME NEW f \in CodecPart!Fields(t)
               PROVE  g[f] = IF f = "arguments" THEN IF v[f] = "x" THEN v[f] ELSE "" ELSE v[f]
    OBVIOUS
  <2>1. v[f] \in CodecPart!Values(f) /\ g[f] = IF v[f] \in CodecPart!Empty THEN "" ELSE v[f]
    BY <1>1, <1>5, <1>6
  <2>2. None \notin {"", "{}", "x"}
    BY DEF CodecPart!CodecAssumption
  <2> QED BY <2>1, <2>2 DEF CodecPart!Values, CodecPart!Empty
<1>9. CASE t # "toolCall"
  <2>1. "arguments" \notin CodecPart!Fields(t)
    BY <1>3, <1>9 DEF CodecPart!Fields
  <2>2. g = v
    BY <1>1, <1>6, <1>8, <2>1
  <2> QED BY <1>2, <1>7, <1>9, <2>2 DEF CodecPart!KeptContent
<1>10. CASE t = "toolCall"
  <2>1. "arguments" \in CodecPart!Fields(t)
    BY <1>10 DEF CodecPart!Fields
  <2>2. PICK w : w = [v EXCEPT !["arguments"] = IF @ = "x" THEN @ ELSE ""]
    OBVIOUS
  <2>3. g = w
    BY <1>1, <1>6, <1>8, <2>1, <2>2
  <2>4. CodecPart!KeptContent(c) = [type |-> t, value |-> w]
    BY <1>2, <1>10, <2>2 DEF CodecPart!KeptContent
  <2> QED BY <1>7, <2>3, <2>4
<1> QED BY <1>9, <1>10

\* So are all the contents of a message.
LEMMA ContentsBack ==
  ASSUME CodecPart!CodecAssumption, NEW content \in Seq(CodecPart!ContentsOf(ContentTypes))
  PROVE  CodecPart!DecodeContentArray(CodecPart!MarshalContentArray(content)) =
             [i \in DOMAIN content |-> CodecPart!KeptContent(content[i])]
<1>1. \A i \in DOMAIN content : content[i] \in CodecPart!ContentsOf(ContentTypes)
  OBVIOUS
<1>2. PICK m : m = CodecPart!MarshalContentArray(content)
  OBVIOUS
<1>3. DOMAIN m = DOMAIN content
      /\ \A i \in DOMAIN content : m[i] = CodecPart!MarshalContent(content[i])
  BY <1>2 DEF CodecPart!MarshalContentArray
<1>4. CodecPart!DecodeContentArray(m) = [i \in DOMAIN m |-> CodecPart!UnmarshalContent(m[i])]
  BY DEF CodecPart!DecodeContentArray
<1> QED BY <1>1, <1>2, <1>3, <1>4, ContentBack

\* The contents of fewer types are among those of more.
LEMMA OfMoreTypes ==
  ASSUME NEW S, NEW T, S \subseteq T
  PROVE  CodecPart!ContentsOf(S) \subseteq CodecPart!ContentsOf(T)
<1> SUFFICES ASSUME NEW c \in CodecPart!ContentsOf(S) PROVE c \in CodecPart!ContentsOf(T)
  OBVIOUS
<1>1. PICK t \in S :
        c \in {CodecPart!Content(t, v) :
                v \in {w \in [CodecPart!Fields(t) -> {None, "", "{}", "x"}] :
                         \A f \in CodecPart!Fields(t) : w[f] \in CodecPart!Values(f)}}
  BY Zenon DEF CodecPart!ContentsOf
<1> QED BY ZenonT(40), <1>1 DEF CodecPart!ContentsOf

\* What a user said, with the string that a text may be.
LEMMA UserContentBack ==
  ASSUME CodecPart!CodecAssumption,
         NEW content \in Seq(CodecPart!ContentsOf(ContentTypes \cap {"text", "image"}))
  PROVE  CodecPart!DecodeUserContent(CodecPart!UserContentForMarshal(content)) =
             [i \in DOMAIN content |-> CodecPart!KeptContent(content[i])]
<1>1. CodecPart!ContentsOf(ContentTypes \cap {"text", "image"})
          \subseteq CodecPart!ContentsOf(ContentTypes)
  BY OfMoreTypes
<1>2. content \in Seq(CodecPart!ContentsOf(ContentTypes))
  <2>1. PICK S, T : S = CodecPart!ContentsOf(ContentTypes \cap {"text", "image"})
             /\ T = CodecPart!ContentsOf(ContentTypes)
    OBVIOUS
  <2>2. S \subseteq T /\ content \in Seq(S)
    BY <1>1, <2>1
  <2>3. content \in Seq(T)
    BY <2>2
  <2> QED BY <2>1, <2>3
<1>3. CASE Len(content) = 1 /\ content[1].type = "text" /\ content[1].value["textSignature"] = ""
  <2>1. content[1] \in CodecPart!ContentsOf(ContentTypes) /\ DOMAIN content = {1}
    <3>1. PICK T : T = CodecPart!ContentsOf(ContentTypes)
      OBVIOUS
    <3>2. content \in Seq(T) /\ Len(content) = 1
      BY <1>2, <1>3, <3>1
    <3>3. content[1] \in T /\ DOMAIN content = {1}
      BY <3>2
    <3> QED BY <3>1, <3>3
  <2>2. PICK t, v :
          /\ t \in ContentTypes
          /\ v \in [CodecPart!Fields(t) -> {None, "", "{}", "x"}]
          /\ content[1] = CodecPart!Content(t, v)
    BY <2>1 DEF CodecPart!ContentsOf
  <2>3. t = "text" /\ content[1].value = v /\ CodecPart!Fields("text") = {"text", "textSignature"}
    <3>1. content[1].type = t /\ content[1].value = v
      <4>1. PICK c : c = content[1]
        OBVIOUS
      <4>2. c = [type |-> t, value |-> v]
        BY <2>2, <4>1 DEF CodecPart!Content
      <4> QED BY <4>1, <4>2
    <3>2. CodecPart!Fields("text") = {"text", "textSignature"}
      BY DEF CodecPart!Fields
    <3> QED BY <1>3, <3>1, <3>2
  <2>4. CodecPart!UserContentForMarshal(content) = [string |-> v["text"]]
    BY <1>3, <2>3 DEF CodecPart!UserContentForMarshal
  <2>5. v = [f \in CodecPart!Fields("text") |-> IF f = "text" THEN v["text"] ELSE ""]
    BY <1>3, <2>2, <2>3
  <2>6. CodecPart!DecodeUserContent([string |-> v["text"]]) =
          <<CodecPart!Content("text", [f \in CodecPart!Fields("text") |->
                                         IF f = "text" THEN v["text"] ELSE ""])>>
    BY DEF CodecPart!DecodeUserContent
  <2>7. CodecPart!DecodeUserContent(CodecPart!UserContentForMarshal(content)) = <<content[1]>>
    BY <2>2, <2>3, <2>4, <2>5, <2>6
  <2>8. CodecPart!KeptContent(content[1]) = content[1]
    BY <1>3 DEF CodecPart!KeptContent
  <2> QED BY <2>1, <2>7, <2>8
<1>4. CASE ~(Len(content) = 1 /\ content[1].type = "text" /\ content[1].value["textSignature"] = "")
  <2>1. CodecPart!UserContentForMarshal(content) =
            [array |-> CodecPart!MarshalContentArray(content)]
    BY <1>4 DEF CodecPart!UserContentForMarshal
  <2>2. PICK a : a = CodecPart!MarshalContentArray(content)
    OBVIOUS
  <2>3. CodecPart!DecodeUserContent([array |-> a]) = CodecPart!DecodeContentArray(a)
    BY DEF CodecPart!DecodeUserContent
  <2> QED BY <1>2, <2>1, <2>2, <2>3, ContentsBack
<1> QED BY <1>3, <1>4

\* The brought of tools, in the message or as the one of the message itself.
LEMMA ResultsBack ==
  ASSUME CodecPart!CodecAssumption, NEW m, NEW brought \in Seq(CodecPart!Results),
         m.Role = "tool_result", m.ToolResultsData = brought
  PROVE  /\ CodecPart!ResultsOf(CodecPart!MarshalToolResultMessage(m)) = brought
         /\ Len(brought) = 1 => CodecPart!ResultsOf(CodecPart!Singular(m)) = brought
<1>1. ASSUME NEW r \in CodecPart!Results
      PROVE  CodecPart!FromWire(CodecPart!ToolResultWire(r)) = r
  <2>1. PICK w : w = CodecPart!ToolResultWire(r)
    OBVIOUS
  <2>2. /\ CodecPart!Field(w, "toolCallId", "") = r.CallID
        /\ CodecPart!Field(w, "toolName", "") = r.Name
        /\ CodecPart!Field(w, "details", None) = r.Content
        /\ CodecPart!Field(w, "isError", FALSE) = r.IsError
    BY <2>1 DEF CodecPart!ToolResultWire, CodecPart!Field
  <2>3. r = CodecPart!ToolResult(r.CallID, r.Name, r.Content, r.IsError)
    BY DEF CodecPart!Results, CodecPart!ToolResult
  <2> QED BY <2>1, <2>2, <2>3 DEF CodecPart!FromWire
<1>2. PICK full : full = CodecPart!MarshalToolResultMessage(m)
  OBVIOUS
<1>3. CodecPart!ResultsOf(full) = brought
  <2>1. CASE brought # <<>>
    <3>1. PICK w : w = [i \in DOMAIN brought |-> CodecPart!ToolResultWire(brought[i])]
      OBVIOUS
    <3>2. w # <<>> /\ DOMAIN w = DOMAIN brought
      BY <2>1, <3>1
    <3>3. full.toolResults = w /\ CodecPart!Field(full, "toolResults", <<>>) = w
      BY <1>2, <3>1 DEF CodecPart!MarshalToolResultMessage, CodecPart!Field
    <3>4. CodecPart!ResultsOf(full) = [i \in DOMAIN w |-> CodecPart!FromWire(w[i])]
      BY <3>2, <3>3 DEF CodecPart!ResultsOf, CodecPart!NewFormOnly
    <3>5. \A i \in DOMAIN brought : CodecPart!FromWire(w[i]) = brought[i]
      BY <1>1, <3>1
    <3>6. CodecPart!ResultsOf(full) = [i \in DOMAIN brought |-> brought[i]]
      BY <3>2, <3>4, <3>5
    <3> QED BY <3>6
  <2>2. CASE brought = <<>>
    <3>1. /\ CodecPart!Field(full, "toolResults", <<>>) = <<>>
          /\ CodecPart!Field(full, "toolCallId", "") = ""
          /\ CodecPart!Field(full, "toolName", "") = ""
          /\ CodecPart!Field(full, "details", None) = None
      BY <1>2, <2>2 DEF CodecPart!MarshalToolResultMessage, CodecPart!Field
    <3>2. CodecPart!ResultsOf(full) = <<>>
      BY <3>1 DEF CodecPart!ResultsOf
    <3> QED BY <2>2, <3>2
  <2> QED BY <2>1, <2>2
<1>4. Len(brought) = 1 => CodecPart!ResultsOf(CodecPart!Singular(m)) = brought
  <2> SUFFICES ASSUME Len(brought) = 1 PROVE CodecPart!ResultsOf(CodecPart!Singular(m)) = brought
    OBVIOUS
  <2>1. PICK r \in CodecPart!Results : brought = <<r>>
    <3>1. PICK T : T = CodecPart!Results
      OBVIOUS
    <3>2. brought \in Seq(T)
      BY <3>1
    <3>3. brought[1] \in T /\ brought = <<brought[1]>>
      BY <3>2
    <3> QED BY <3>1, <3>3
  <2>2. PICK w : w = CodecPart!ToolResultWire(r)
    OBVIOUS
  <2>3. /\ DOMAIN w = {"toolCallId", "toolName", "isError", "details"}
        /\ w.toolCallId = r.CallID /\ w.toolName = r.Name /\ w.isError = r.IsError
        /\ w.details = r.Content
    BY <2>2 DEF CodecPart!ToolResultWire
  <2>9. r.CallID = "x" /\ r = CodecPart!ToolResult(r.CallID, r.Name, r.Content, r.IsError)
    BY DEF CodecPart!Results, CodecPart!ToolResult
  <2>4. PICK json : json = CodecPart!Singular(m)
    OBVIOUS
  <2>5. json =
            [f \in (DOMAIN w \cup {"role", "content"})
                   \ (IF w.details = None THEN {"details"} ELSE {}) |->
                 IF f = "role" THEN m.Role
                 ELSE IF f = "content" THEN CodecPart!MarshalContentArray(m.Content) ELSE w[f]]
    BY <2>1, <2>2, <2>4 DEF CodecPart!Singular
  <2>6. /\ CodecPart!Field(json, "toolResults", <<>>) = <<>>
        /\ CodecPart!Field(json, "toolCallId", "") = "x"
        /\ CodecPart!Field(json, "toolName", "") = r.Name
        /\ CodecPart!Field(json, "details", None) = r.Content
        /\ CodecPart!Field(json, "isError", FALSE) = r.IsError
    BY <2>3, <2>5, <2>9 DEF CodecPart!Field
  <2>7. CodecPart!FromWire(json) = r
    BY <2>6, <2>9 DEF CodecPart!FromWire
  <2>8. CodecPart!ResultsOf(json) = <<CodecPart!FromWire(json)>>
    BY <2>6 DEF CodecPart!ResultsOf
  <2> QED BY <2>1, <2>4, <2>7, <2>8
<1> QED BY <1>2, <1>3, <1>4

LEMMA UpToIsSeq ==
  ASSUME NEW S, NEW n, NEW q \in CodecPart!UpTo(S, n), n \in Nat
  PROVE  q \in Seq(S)
BY DEF CodecPart!UpTo

\* What a message is.
LEMMA MessageIs ==
  ASSUME CodecPart!CodecAssumption, NEW m \in CodecPart!Messages
  PROVE  /\ m = CodecPart!Message(m.Role, m.Content, m.ToolResultsData, m.meta, m.ErrorCode)
         /\ m.Content \in Seq(CodecPart!ContentsOf(ContentTypes))
         /\ m.ToolResultsData \in Seq(CodecPart!Results)
         /\ \/ /\ m.Role = "user" /\ m.ToolResultsData = <<>> /\ m.meta = None
               /\ m.Content \in Seq(CodecPart!ContentsOf(ContentTypes \cap {"text", "image"}))
            \/ m.Role = "assistant" /\ m.ToolResultsData = <<>>
            \/ m.Role = "tool_result" /\ m.meta = None
<1>1. PICK A, B, C, T, R :
        /\ A = CodecPart!ContentsOf(ContentTypes \cap {"text", "image"})
        /\ B = CodecPart!ContentsOf(ContentTypes \ {"image"})
        /\ C = CodecPart!ContentsOf(ContentTypes \cap {"text"})
        /\ T = CodecPart!ContentsOf(ContentTypes)
        /\ R = CodecPart!Results
  OBVIOUS
<1>2. A \subseteq T /\ B \subseteq T /\ C \subseteq T
  BY <1>1, OfMoreTypes, CodecPart!CodecAssumption
<1>3. MaxContents \in Nat /\ MaxResults \in Nat
  BY DEF CodecPart!CodecAssumption
<1>4. m = CodecPart!Message(m.Role, m.Content, m.ToolResultsData, m.meta, m.ErrorCode)
  BY DEF CodecPart!Messages, CodecPart!Message
<1>5. CASE /\ m.Role = "user" /\ m.Content \in CodecPart!UpTo(A, MaxContents)
           /\ m.ToolResultsData = <<>> /\ m.meta = None
  <2>1. m.Content \in Seq(A)
    BY <1>3, <1>5, UpToIsSeq
  <2>2. m.Content \in Seq(T) /\ <<>> \in Seq(R)
    BY <1>2, <2>1
  <2> QED BY <1>1, <1>4, <1>5, <2>1, <2>2
<1>6. CASE /\ m.Role = "assistant" /\ m.Content \in CodecPart!UpTo(B, MaxContents)
           /\ m.ToolResultsData = <<>>
  <2>1. m.Content \in Seq(B)
    BY <1>3, <1>6, UpToIsSeq
  <2>2. m.Content \in Seq(T) /\ <<>> \in Seq(R)
    BY <1>2, <2>1
  <2> QED BY <1>1, <1>4, <1>6, <2>2
<1>7. CASE /\ m.Role = "tool_result" /\ m.Content \in CodecPart!UpTo(C, 1)
           /\ m.ToolResultsData \in CodecPart!UpTo(R, MaxResults) /\ m.meta = None
  <2>1. m.Content \in Seq(C) /\ m.ToolResultsData \in Seq(R)
    BY <1>3, <1>7, UpToIsSeq
  <2>2. m.Content \in Seq(T)
    BY <1>2, <2>1
  <2> QED BY <1>1, <1>4, <1>7, <2>1, <2>2
<1> QED BY <1>1, <1>5, <1>6, <1>7 DEF CodecPart!Messages

\* A message is read back, from the form of now and from that of one result.
LEMMA MessageBack ==
  ASSUME CodecPart!CodecAssumption, NEW m \in CodecPart!Messages
  PROVE  /\ CodecPart!UnmarshalJSON(CodecPart!MarshalJSON(m)) = CodecPart!Kept(m)
         /\ "type" \notin DOMAIN CodecPart!MarshalJSON(m)
         /\ Len(m.ToolResultsData) = 1 =>
              /\ CodecPart!UnmarshalJSON(CodecPart!Singular(m)) = CodecPart!Kept(m)
              /\ "type" \notin DOMAIN CodecPart!Singular(m)
<1>1. PICK role, content, brought, meta, code :
        /\ role = m.Role /\ content = m.Content /\ brought = m.ToolResultsData /\ meta = m.meta
        /\ code = m.ErrorCode
  OBVIOUS
<1>2. PICK whole : whole = [i \in DOMAIN content |-> CodecPart!KeptContent(content[i])]
  OBVIOUS
<1>3. m = CodecPart!Message(role, content, brought, meta, code)
  BY <1>1, MessageIs
<1>4. content \in Seq(CodecPart!ContentsOf(ContentTypes)) /\ brought \in Seq(CodecPart!Results)
  BY <1>1, MessageIs
<1>5. CodecPart!Kept(m) = CodecPart!Message(role, whole, brought, meta, "")
  <2>1. [i \in DOMAIN m.Content |-> CodecPart!KeptContent(m.Content[i])] = whole
    BY <1>1, <1>2
  <2>2. CodecPart!Kept(m) = [m EXCEPT !.ErrorCode = "", !.Content = whole]
    BY <2>1 DEF CodecPart!Kept
  <2> QED BY <1>3, <2>2 DEF CodecPart!Message
<1>6. PICK array : array = CodecPart!MarshalContentArray(content)
  OBVIOUS
<1>7. CodecPart!DecodeContentArray(array) = whole
  BY <1>2, <1>4, <1>6, ContentsBack
<1>8. CASE role = "user"
  <2>1. /\ content \in Seq(CodecPart!ContentsOf(ContentTypes \cap {"text", "image"}))
        /\ brought = <<>>
        /\ meta = None
    BY <1>1, <1>8, MessageIs
  <2>2. PICK raw : raw = CodecPart!UserContentForMarshal(content)
    OBVIOUS
  <2>3. CodecPart!DecodeUserContent(raw) = whole
    BY <1>2, <2>1, <2>2, UserContentBack
  <2>4. CodecPart!MarshalJSON(m) = [role |-> "user", content |-> raw]
    BY <1>1, <1>8, <2>2 DEF CodecPart!MarshalJSON, CodecPart!MarshalUserLikeMessage
  <2>5. CodecPart!UnmarshalJSON(CodecPart!MarshalJSON(m)) =
            CodecPart!Message("user", whole, <<>>, None, "")
    BY <2>3, <2>4 DEF CodecPart!UnmarshalJSON
  <2>6. Len(m.ToolResultsData) # 1
    BY <1>1, <2>1
  <2> QED BY <1>5, <1>8, <2>1, <2>4, <2>5, <2>6
<1>9. CASE role = "assistant"
  <2>1. brought = <<>>
    BY <1>1, <1>9, MessageIs
  <2>2. CodecPart!MarshalJSON(m) = [role |-> "assistant", content |-> array, meta |-> meta]
    BY <1>1, <1>6, <1>9 DEF CodecPart!MarshalJSON, CodecPart!MarshalAssistantMessage
  <2>3. CodecPart!UnmarshalJSON(CodecPart!MarshalJSON(m)) =
            CodecPart!Message("assistant", whole, <<>>, meta, "")
    BY <1>7, <2>2 DEF CodecPart!UnmarshalJSON
  <2>4. Len(m.ToolResultsData) # 1
    BY <1>1, <2>1
  <2> QED BY <1>5, <1>9, <2>1, <2>2, <2>3, <2>4
<1>10. CASE role = "tool_result"
  <2>1. meta = None
    BY <1>1, <1>10, MessageIs
  <2>2. PICK json : json = CodecPart!MarshalToolResultMessage(m)
    OBVIOUS
  <2>3. /\ CodecPart!MarshalJSON(m) = json /\ json.role = "tool_result" /\ json.content = array
        /\ "type" \notin DOMAIN json
    BY <1>1, <1>6, <1>10, <2>2 DEF CodecPart!MarshalJSON, CodecPart!MarshalToolResultMessage
  <2>4. CodecPart!ResultsOf(json) = brought
        /\ (Len(brought) = 1 => CodecPart!ResultsOf(CodecPart!Singular(m)) = brought)
    BY <1>1, <1>4, <1>10, <2>2, ResultsBack
  <2>5. CodecPart!UnmarshalJSON(json) = CodecPart!Kept(m)
    BY <1>5, <1>7, <1>10, <2>1, <2>3, <2>4 DEF CodecPart!UnmarshalJSON
  <2>6. ASSUME Len(brought) = 1
        PROVE  CodecPart!UnmarshalJSON(CodecPart!Singular(m)) = CodecPart!Kept(m)
               /\ "type" \notin DOMAIN CodecPart!Singular(m)
    <3>1. PICK one : one = CodecPart!Singular(m)
      OBVIOUS
    <3>2. PICK w : w = CodecPart!ToolResultWire(brought[1])
      OBVIOUS
    <3>3. DOMAIN w = {"toolCallId", "toolName", "isError", "details"}
      BY <3>2 DEF CodecPart!ToolResultWire
    <3>4. one = [f \in (DOMAIN w \cup {"role", "content"})
                         \ (IF w.details = None THEN {"details"} ELSE {}) |->
                   IF f = "role" THEN m.Role
                   ELSE IF f = "content" THEN CodecPart!MarshalContentArray(m.Content) ELSE w[f]]
      BY <1>1, <3>1, <3>2 DEF CodecPart!Singular
    <3>5. one.role = "tool_result" /\ one.content = array /\ "type" \notin DOMAIN one
      BY <1>1, <1>6, <1>10, <3>3, <3>4
    <3>6. CodecPart!ResultsOf(one) = brought
      BY <2>4, <2>6, <3>1
    <3>7. CodecPart!UnmarshalJSON(one) = CodecPart!Message("tool_result", whole, brought, None, "")
      BY <1>7, <3>5, <3>6 DEF CodecPart!UnmarshalJSON
    <3> QED BY <1>5, <1>10, <2>1, <3>1, <3>5, <3>7
  <2> QED BY <1>1, <2>3, <2>5, <2>6
<1> QED BY <1>1, <1>8, <1>9, <1>10, MessageIs

-----------------------------------------------------------------------------
\* The rows that are written of a message: those of now, and of older versions.
Forms(m) == {CodecPart!MarshalJSON(m)}
    \cup (IF Len(m.ToolResultsData) = 1 THEN {CodecPart!Singular(m)} ELSE {})
RowsOf(m) ==
  {CodecPart!CreateStorageEntry(CodecPart!Entry("message", "id", m))}
  \cup {[id |-> "id", payload |-> json] : json \in Forms(m)}
  \cup {[id |-> "id", payload |-> [type |-> "message", id |-> "id", message |-> json]] :
          json \in Forms(m)}

\* The row was written of the entry.
Wrote(e, r) ==
  \/ \E t \in CodecPart!Types : e = CodecPart!Entry(t, "id", None)
     /\ r = CodecPart!CreateStorageEntry(e)
  \/ \E m \in CodecPart!Messages : e = CodecPart!Entry("message", "id", m) /\ r \in RowsOf(m)

\* The entry as it is read back.
ReadOf(e) == IF e.type = "message" THEN [e EXCEPT !.message = CodecPart!Kept(@)] ELSE e

\* The row was written of the entry, and what was read is the entry.
CodecInv ==
  /\ entry # None => Wrote(entry, row)
  /\ read # None => entry # None /\ read = ReadOf(entry)

\* Each row is read back.
LEMMA RowBack ==
  ASSUME CodecPart!CodecAssumption, NEW e, NEW r, Wrote(e, r)
  PROVE  CodecPart!CreateEntryFromStorageEntry(r) = ReadOf(e)
<1>1. CASE \E t \in CodecPart!Types : e = CodecPart!Entry(t, "id", None)
           /\ r = CodecPart!CreateStorageEntry(e)
  <2>1. PICK t \in CodecPart!Types : e = CodecPart!Entry(t, "id", None)
             /\ r = CodecPart!CreateStorageEntry(e)
    BY <1>1
  <2>2. t # "message"
    BY DEF CodecPart!Types
  <2>3. PICK p : p = r.payload
    OBVIOUS
  <2>4. p = [type |-> t, id |-> "id", message |-> None]
    BY <2>1, <2>2, <2>3 DEF CodecPart!CreateStorageEntry, CodecPart!Entry
  <2>5. ~CodecPart!Unsupported(p)
    BY <2>4 DEF CodecPart!Unsupported, CodecPart!Field
  <2>6. CodecPart!UnmarshalDurableEntry(p) = e
    BY <2>1, <2>2, <2>4 DEF CodecPart!UnmarshalDurableEntry, CodecPart!Entry
  <2>7. CodecPart!CreateEntryFromStorageEntry(r) = e
    BY <2>3, <2>5, <2>6 DEF CodecPart!CreateEntryFromStorageEntry
  <2> QED BY <2>1, <2>2, <2>7 DEF ReadOf, CodecPart!Entry
<1>2. CASE \E m \in CodecPart!Messages : e = CodecPart!Entry("message", "id", m) /\ r \in RowsOf(m)
  <2>1. PICK m \in CodecPart!Messages : e = CodecPart!Entry("message", "id", m) /\ r \in RowsOf(m)
    BY <1>2
  <2>2. PICK k : k = CodecPart!Kept(m)
    OBVIOUS
  <2>3. ReadOf(e) = CodecPart!Entry("message", "id", k)
    BY <2>1, <2>2 DEF ReadOf, CodecPart!Entry
  <2>4. ASSUME NEW json \in Forms(m)
        PROVE  CodecPart!UnmarshalJSON(json) = k /\ "type" \notin DOMAIN json
    BY <2>2, MessageBack DEF Forms
  <2>5. PICK json \in Forms(m) :
          \/ r = [id |-> "id", payload |-> json]
          \/ r = [id |-> "id", payload |-> [type |-> "message", id |-> "id", message |-> json]]
    <3>1. CodecPart!MarshalJSON(m) \in Forms(m)
      BY DEF Forms
    <3>2. CodecPart!CreateStorageEntry(e) =
            [id |-> "id",
             payload |-> [type |-> "message", id |-> "id", message |-> CodecPart!MarshalJSON(m)]]
      BY <2>1 DEF CodecPart!CreateStorageEntry, CodecPart!Entry
    <3> QED BY <2>1, <3>1, <3>2 DEF RowsOf
  <2>6. PICK p : p = r.payload
    OBVIOUS
  <2>7. CASE r = [id |-> "id", payload |-> json]
    <3>1. p = json /\ r.id = "id"
      BY <2>6, <2>7
    <3>2. CodecPart!Unsupported(p)
      BY <2>4, <3>1 DEF CodecPart!Unsupported, CodecPart!Field, CodecPart!Types
    <3>3. CodecPart!CreateEntryFromStorageEntry(r) =
              CodecPart!Entry("message", "id", CodecPart!UnmarshalJSON(json))
      BY <2>6, <3>1, <3>2 DEF CodecPart!CreateEntryFromStorageEntry
    <3> QED BY <2>3, <2>4, <3>3
  <2>8. CASE r = [id |-> "id",
                  payload |-> [type |-> "message", id |-> "id", message |-> json]]
    <3>1. p = [type |-> "message", id |-> "id", message |-> json]
      BY <2>6, <2>8
    <3>2. ~CodecPart!Unsupported(p)
      BY <3>1 DEF CodecPart!Unsupported, CodecPart!Field
    <3>3. CodecPart!UnmarshalDurableEntry(p) =
              CodecPart!Entry("message", "id", CodecPart!UnmarshalJSON(json))
      BY <3>1 DEF CodecPart!UnmarshalDurableEntry
    <3>4. CodecPart!CreateEntryFromStorageEntry(r) = CodecPart!UnmarshalDurableEntry(p)
      BY <2>6, <3>2 DEF CodecPart!CreateEntryFromStorageEntry
    <3> QED BY <2>3, <2>4, <3>3, <3>4
  <2> QED BY <2>5, <2>7, <2>8
<1> QED BY <1>1, <1>2 DEF Wrote

LEMMA CodecFirst == CodecPart!Init => CodecInv
BY DEF CodecPart!Init, CodecInv

LEMMA CodecStep ==
  ASSUME CodecPart!CodecAssumption, CodecInv, [CodecPart!Next]_(CodecPart!vars)
  PROVE  CodecInv'
<1>1. ASSUME NEW e, NEW r, Wrote(e, r), entry = None, entry' = e, row' = r, UNCHANGED read
      PROVE  CodecInv'
  BY <1>1 DEF CodecInv
<1>2. CASE CodecPart!AppendEntry
  <2>1. PICK m \in CodecPart!Messages :
          entry' = CodecPart!Entry("message", "id", m)
          /\ row' = CodecPart!CreateStorageEntry(CodecPart!Entry("message", "id", m))
    BY <1>2 DEF CodecPart!AppendEntry, CodecPart!Stored
  <2> QED BY <1>1, <1>2, <2>1 DEF CodecPart!AppendEntry, CodecPart!Stored, Wrote, RowsOf
<1>3. CASE CodecPart!AppendOther
  <2>1. PICK t \in CodecPart!Types :
          entry' = CodecPart!Entry(t, "id", None)
          /\ row' = CodecPart!CreateStorageEntry(CodecPart!Entry(t, "id", None))
    BY <1>3 DEF CodecPart!AppendOther, CodecPart!Stored
  <2> QED BY <1>1, <1>3, <2>1 DEF CodecPart!AppendOther, CodecPart!Stored, Wrote
<1>4. CASE CodecPart!Older
  <2>1. PICK m, json :
          /\ m \in CodecPart!Messages
          /\ json \in Forms(m)
          /\ entry' = CodecPart!Entry("message", "id", m)
          /\ \/ row' = [id |-> "id", payload |-> json]
             \/ row' = [id |-> "id",
                        payload |-> [type |-> "message", id |-> "id", message |-> json]]
    BY <1>4 DEF CodecPart!Older, CodecPart!Stored, Forms
  <2>2. row' \in RowsOf(m)
    BY <2>1 DEF RowsOf
  <2> QED BY <1>1, <1>4, <2>1, <2>2 DEF CodecPart!Older, CodecPart!Stored, Wrote
<1>5. CASE CodecPart!Read
  <2>1. entry # None /\ Wrote(entry, row) /\ read' = ReadOf(entry) /\ UNCHANGED <<entry, row>>
    BY <1>5, RowBack DEF CodecPart!Read, CodecInv
  <2> QED BY <2>1 DEF CodecInv
<1>6. CASE UNCHANGED CodecPart!vars
  BY <1>6 DEF CodecPart!vars, CodecInv
<1> QED BY <1>2, <1>3, <1>4, <1>5, <1>6 DEF CodecPart!Next

LEMMA CodecMeans == CodecInv => CodecPart!ReadsWhatWasSaid
BY DEF CodecInv, ReadOf, CodecPart!ReadsWhatWasSaid


-----------------------------------------------------------------------------
(* Interrupts: the walk of the signals gives a context to each, so that the tree
   comes back from the contexts of its leaves; only an approval has an address that
   is a call of the session. *)

\* A signal no deeper than those of a step, each with an id of its own.
IsTree(sig) ==
  /\ InterruptsPart!Subs(InterruptsPart!Subs(InterruptsPart!Subs(InterruptsPart!Subs({sig})))) = {}
  /\ \A s \in InterruptsPart!Signals(sig) :
         s = InterruptsPart!InterruptSignal(s.id, s.address, s.state, s.subs)
  /\ \A s, t \in InterruptsPart!Signals(sig) : s.id = t.id => s = t

\* The signals with their contexts, as the walk comes to them.
Top(sig) == {<<sig, InterruptsPart!Context(sig, {})>>}
Walked(sig) ==
  LET asking == InterruptsPart!Under(Top(sig))  inner == InterruptsPart!Under(asking)
  IN  Top(sig) \cup asking \cup inner \cup InterruptsPart!Under(inner)

\* A walk of the signals T, and that W is what it comes to from V.
Walks(W, T) ==
  \A w \in W : w[1] \in T /\ w[2].id = w[1].id /\ w[2].address = w[1].address
Descends(V, W) ==
  /\ \A w \in W : \E v \in V : w[1] \in v[1].subs /\ w[2].parent = {v[2]}
  /\ \A v \in V : \A s \in v[1].subs : \E w \in W : w[1] = s /\ w[2].parent = {v[2]}

LEMMA WalkStep ==
  ASSUME NEW W, NEW T, Walks(W, T)
  PROVE  Walks(InterruptsPart!Under(W), InterruptsPart!Subs(T))
         /\ Descends(W, InterruptsPart!Under(W))
<1>1. ASSUME NEW w \in InterruptsPart!Under(W)
      PROVE  /\ w[1] \in InterruptsPart!Subs(T) /\ w[2].id = w[1].id /\ w[2].address = w[1].address
             /\ \E v \in W : w[1] \in v[1].subs /\ w[2].parent = {v[2]}
  <2>1. PICK v \in W : \E sub \in v[1].subs : w = <<sub, InterruptsPart!Context(sub, {v[2]})>>
    BY DEF InterruptsPart!Under
  <2>2. PICK sub \in v[1].subs : w = <<sub, InterruptsPart!Context(sub, {v[2]})>>
    BY <2>1
  <2>3. w[1] = sub /\ w[2].id = sub.id /\ w[2].address = sub.address /\ w[2].parent = {v[2]}
    BY <2>2 DEF InterruptsPart!Context
  <2>4. sub \in InterruptsPart!Subs(T)
    BY DEF InterruptsPart!Subs, Walks
  <2> QED BY <2>3, <2>4
<1>2. ASSUME NEW v \in W, NEW s \in v[1].subs
      PROVE  \E w \in InterruptsPart!Under(W) : w[1] = s /\ w[2].parent = {v[2]}
  <2>1. <<s, InterruptsPart!Context(s, {v[2]})>>
            \in {<<sub, InterruptsPart!Context(sub, {v[2]})>> : sub \in v[1].subs}
    OBVIOUS
  <2>2. <<s, InterruptsPart!Context(s, {v[2]})>> \in InterruptsPart!Under(W)
    BY <2>1 DEF InterruptsPart!Under
  <2> QED BY <2>2 DEF InterruptsPart!Context
<1> QED BY <1>1, <1>2 DEF Walks, Descends

\* What the walk of a tree comes to: all its signals, each under its parent.
LEMMA WalkOfTree ==
  ASSUME NEW sig, IsTree(sig)
  PROVE  /\ \A w \in Walked(sig) :
              /\ w[1] \in InterruptsPart!Signals(sig) /\ w[2].id = w[1].id
              /\ w[2].address = w[1].address
              /\ \/ w[1] = sig /\ w[2] = InterruptsPart!Context(sig, {})
                 \/ \E v \in Walked(sig) : w[1] \in v[1].subs /\ w[2].parent = {v[2]}
         /\ \A v \in Walked(sig) : \A s \in v[1].subs :
              \E w \in Walked(sig) : w[1] = s /\ w[2].parent = {v[2]}
         /\ InterruptsPart!AllContexts(InterruptsPart!ToInterruptContexts(sig)) =
                {w[2] : w \in Walked(sig)}
<1> DEFINE W1 == Top(sig)
           W2 == InterruptsPart!Under(W1)
           W3 == InterruptsPart!Under(W2)
           W4 == InterruptsPart!Under(W3)
           T2 == InterruptsPart!Subs({sig})
           T3 == InterruptsPart!Subs(T2)
           T4 == InterruptsPart!Subs(T3)
<1>a. Walked(sig) = W1 \cup W2 \cup W3 \cup W4
  BY DEF Walked
<1>b. InterruptsPart!Signals(sig) = {sig} \cup T2 \cup T3 \cup T4 /\ InterruptsPart!Subs(T4) = {}
  BY DEF InterruptsPart!Signals, IsTree
<1>1. \A w \in W1 : /\ w[1] \in {sig} /\ w[2].id = w[1].id /\ w[2].address = w[1].address
                    /\ w[2].parent = {}
  BY DEF Top, InterruptsPart!Context
<1>c. \A w \in W1 : w[1] = sig /\ w[2] = InterruptsPart!Context(sig, {})
  BY DEF Top
<1> HIDE DEF W1, T2
<1>2. Walks(W2, T2) /\ Descends(W1, W2)
  <2>1. Walks(W1, {sig})
    BY <1>1 DEF Walks
  <2>2. Walks(InterruptsPart!Under(W1), InterruptsPart!Subs({sig}))
        /\ Descends(W1, InterruptsPart!Under(W1))
    BY <2>1, WalkStep
  <2> QED BY <2>2 DEF W2, T2
<1> HIDE DEF W2, T3
<1>3. Walks(W3, T3) /\ Descends(W2, W3)
  <2>1. Walks(W2, T2)
    BY <1>2
  <2>2. Walks(InterruptsPart!Under(W2), InterruptsPart!Subs(T2))
        /\ Descends(W2, InterruptsPart!Under(W2))
    BY <2>1, WalkStep
  <2> QED BY <2>2 DEF W3, T3
<1> HIDE DEF W3, T4
<1>4. Walks(W4, T4) /\ Descends(W3, W4)
  <2>1. Walks(W3, T3)
    BY <1>3
  <2>2. Walks(InterruptsPart!Under(W3), InterruptsPart!Subs(T3))
        /\ Descends(W3, InterruptsPart!Under(W3))
    BY <2>1, WalkStep
  <2> QED BY <2>2 DEF W4, T4
<1> HIDE DEF W4
<1>5. \A w \in W4 : w[1].subs = {}
  BY <1>b, <1>4 DEF InterruptsPart!Subs, Walks
<1>6. InterruptsPart!AllContexts(InterruptsPart!ToInterruptContexts(sig)) =
          {w[2] : w \in Walked(sig)}
  <2> DEFINE C == InterruptsPart!ToInterruptContexts(sig)
             A2 == InterruptsPart!Above(C)
             A3 == InterruptsPart!Above(A2)
             A4 == InterruptsPart!Above(A3)
  <2>1. C = {w[2] : w \in {v \in W1 \cup W2 \cup W3 \cup W4 : v[1].subs = {}}}
    BY DEF InterruptsPart!ToInterruptContexts, W1, W2, W3, W4, Top
  <2>2. InterruptsPart!AllContexts(C) = C \cup A2 \cup A3 \cup A4
    BY DEF InterruptsPart!AllContexts
  <2> HIDE DEF C
  <2>3. \A c \in C : \E w \in Walked(sig) : c = w[2]
    BY <2>1, <1>a
  <2>4. \A X : (\A c \in X : \E w \in Walked(sig) : c = w[2]) =>
                  \A c \in InterruptsPart!Above(X) : \E w \in Walked(sig) : c = w[2]
    <3> SUFFICES ASSUME NEW X, \A c \in X : \E w \in Walked(sig) : c = w[2],
                        NEW d \in InterruptsPart!Above(X)
                 PROVE  \E w \in Walked(sig) : d = w[2]
      OBVIOUS
    <3>1. PICK c \in X : d \in c.parent
      BY DEF InterruptsPart!Above
    <3>2. PICK w \in Walked(sig) : c = w[2]
      OBVIOUS
    <3>3. w[2].parent = {} \/ \E v \in Walked(sig) : w[2].parent = {v[2]}
      BY <1>a, <1>1, <1>2, <1>3, <1>4 DEF Descends
    <3> QED BY <3>1, <3>2, <3>3
  <2>5. \A c \in C \cup A2 \cup A3 \cup A4 : \E w \in Walked(sig) : c = w[2]
    BY <2>3, <2>4
  <2>6. \A w \in W4 : w[2] \in C
    BY <2>1, <1>5
  <2>7. \A w \in W3 : w[2] \in C \cup A2
    <3> SUFFICES ASSUME NEW w \in W3, w[2] \notin C PROVE w[2] \in A2
      OBVIOUS
    <3>1. PICK s : s \in w[1].subs
      BY <2>1
    <3>2. PICK v \in W4 : v[2].parent = {w[2]}
      BY <3>1, <1>4 DEF Descends
    <3> QED BY <3>2, <2>6 DEF InterruptsPart!Above
  <2>8. \A w \in W2 : w[2] \in C \cup A2 \cup A3
    <3> SUFFICES ASSUME NEW w \in W2, w[2] \notin C PROVE w[2] \in A2 \cup A3
      OBVIOUS
    <3>1. PICK s : s \in w[1].subs
      BY <2>1
    <3>2. PICK v \in W3 : v[2].parent = {w[2]}
      BY <3>1, <1>3 DEF Descends
    <3> QED BY <3>2, <2>7 DEF InterruptsPart!Above
  <2>9. \A w \in W1 : w[2] \in C \cup A2 \cup A3 \cup A4
    <3> SUFFICES ASSUME NEW w \in W1, w[2] \notin C PROVE w[2] \in A2 \cup A3 \cup A4
      OBVIOUS
    <3>1. PICK s : s \in w[1].subs
      BY <2>1
    <3>2. PICK v \in W2 : v[2].parent = {w[2]}
      BY <3>1, <1>2 DEF Descends
    <3> QED BY <3>2, <2>8 DEF InterruptsPart!Above
  <2>10. \A w \in Walked(sig) : w[2] \in C \cup A2 \cup A3 \cup A4
    BY <1>a, <2>6, <2>7, <2>8, <2>9
  <2> QED BY <2>2, <2>5, <2>10 DEF C
<1>7. \A w \in Walked(sig) :
        /\ w[1] \in InterruptsPart!Signals(sig) /\ w[2].id = w[1].id /\ w[2].address = w[1].address
        /\ \/ w[1] = sig /\ w[2] = InterruptsPart!Context(sig, {})
           \/ \E v \in Walked(sig) : w[1] \in v[1].subs /\ w[2].parent = {v[2]}
  BY <1>a, <1>b, <1>c, <1>1, <1>2, <1>3, <1>4 DEF Walks, Descends
<1>8. \A v \in Walked(sig) : \A s \in v[1].subs :
        \E w \in Walked(sig) : w[1] = s /\ w[2].parent = {v[2]}
  <2>1. \A v \in W1 : \A s \in v[1].subs : \E w \in W2 : w[1] = s /\ w[2].parent = {v[2]}
    BY <1>2 DEF Descends
  <2>2. \A v \in W2 : \A s \in v[1].subs : \E w \in W3 : w[1] = s /\ w[2].parent = {v[2]}
    BY <1>3 DEF Descends
  <2>3. \A v \in W3 : \A s \in v[1].subs : \E w \in W4 : w[1] = s /\ w[2].parent = {v[2]}
    BY <1>4 DEF Descends
  <2> SUFFICES ASSUME NEW v \in Walked(sig), NEW s \in v[1].subs
               PROVE  \E w \in Walked(sig) : w[1] = s /\ w[2].parent = {v[2]}
    OBVIOUS
  <2>4. v \in W1 \cup W2 \cup W3
    BY <1>a, <1>5
  <2>5. CASE v \in W1
    BY <1>a, <2>1, <2>5
  <2>6. CASE v \in W2
    BY <1>a, <2>2, <2>6
  <2>7. CASE v \in W3
    BY <1>a, <2>3, <2>7
  <2> QED BY <2>4, <2>5, <2>6, <2>7
<1> QED BY <1>6, <1>7, <1>8

\* ToSignals gives back the tree that ToInterruptData has taken apart.
LEMMA TreeBack ==
  ASSUME NEW sig, IsTree(sig)
  PROVE  InterruptsPart!ToSignals(InterruptsPart!ToInterruptData(sig)) = {sig}
<1> DEFINE form == InterruptsPart!ToInterruptData(sig)
           all == InterruptsPart!AllContexts(form.contexts)
           W == Walked(sig)
           OfCall(c) == InterruptsPart!SignalOf(form, c, {})
           OfRun(c) ==
             InterruptsPart!SignalOf(form, c, {OfCall(d) : d \in InterruptsPart!Children(all, c)})
           OfTool(c) ==
             InterruptsPart!SignalOf(form, c, {OfRun(d) : d \in InterruptsPart!Children(all, c)})
           OfStep(c) ==
             InterruptsPart!SignalOf(form, c, {OfTool(d) : d \in InterruptsPart!Children(all, c)})
           T2 == InterruptsPart!Subs({sig})
           T3 == InterruptsPart!Subs(T2)
           T4 == InterruptsPart!Subs(T3)
<1>a. InterruptsPart!ToSignals(form) = {OfStep(c) : c \in {d \in all : d.parent = {}}}
  BY DEF InterruptsPart!ToSignals
<1>b. /\ form.id2State = InterruptsPart!ID2State(sig)
      /\ form.contexts = InterruptsPart!ToInterruptContexts(sig)
  BY DEF InterruptsPart!ToInterruptData
<1>c. \A w \in W : /\ w[1] \in InterruptsPart!Signals(sig)
                   /\ w[2].id = w[1].id /\ w[2].address = w[1].address
                   /\ \/ w[1] = sig /\ w[2] = InterruptsPart!Context(sig, {})
                      \/ \E v \in W : w[1] \in v[1].subs /\ w[2].parent = {v[2]}
  BY WalkOfTree
<1>d. \A v \in W : \A s \in v[1].subs : \E w \in W : w[1] = s /\ w[2].parent = {v[2]}
  BY WalkOfTree
<1>e. all = {w[2] : w \in W}
  BY <1>b, WalkOfTree
<1>f. <<sig, InterruptsPart!Context(sig, {})>> \in W
  BY DEF Walked, Top
<1>g. \A s, t \in InterruptsPart!Signals(sig) : s.id = t.id => s = t
  BY DEF IsTree
<1>h. \A s \in InterruptsPart!Signals(sig) :
       s = InterruptsPart!InterruptSignal(s.id, s.address, s.state, s.subs)
  BY DEF IsTree
<1>i. /\ \A s \in T4 : s.subs = {}
      /\ \A s \in T3 : s.subs \subseteq T4
      /\ \A s \in T2 : s.subs \subseteq T3
      /\ sig.subs \subseteq T2
  <2>1. InterruptsPart!Subs(T4) = {}
    BY DEF IsTree
  <2> QED BY <2>1 DEF InterruptsPart!Subs
<1> HIDE DEF form, all, W, T2, T3, T4
<1>1. \A w \in W : (CHOOSE s \in form.id2State : s.id = w[2].id).state = w[1].state
  <2> SUFFICES ASSUME NEW w \in W
               PROVE  (CHOOSE s \in form.id2State : s.id = w[2].id).state = w[1].state
    OBVIOUS
  <2> DEFINE e == CHOOSE s \in form.id2State : s.id = w[2].id
  <2>1. [id |-> w[1].id, state |-> w[1].state] \in form.id2State
    BY <1>b, <1>c DEF InterruptsPart!ID2State
  <2>2. e \in form.id2State /\ e.id = w[2].id
    BY <2>1, <1>c
  <2>3. PICK s \in InterruptsPart!Signals(sig) : e = [id |-> s.id, state |-> s.state]
    BY <2>2, <1>b DEF InterruptsPart!ID2State
  <2>4. s = w[1]
    BY <2>2, <2>3, <1>c, <1>g
  <2> HIDE DEF e
  <2>5. e.state = s.state
    BY <2>3
  <2> QED BY <2>4, <2>5 DEF e
<1>2. \A w \in W : \A subs : subs = w[1].subs => InterruptsPart!SignalOf(form, w[2], subs) = w[1]
  BY <1>1, <1>c, <1>h DEF InterruptsPart!SignalOf
<1>3. \A w \in W : \A d \in InterruptsPart!Children(all, w[2]) :
        \E v \in W : d = v[2] /\ v[1] \in w[1].subs
  <2> SUFFICES ASSUME NEW w \in W, NEW d \in InterruptsPart!Children(all, w[2])
               PROVE  \E v \in W : d = v[2] /\ v[1] \in w[1].subs
    OBVIOUS
  <2>1. PICK v \in W : d = v[2]
    BY <1>e DEF InterruptsPart!Children
  <2>2. PICK p \in d.parent : p.id = w[2].id
    BY DEF InterruptsPart!Children
  <2>3. PICK u \in W : v[1] \in u[1].subs /\ v[2].parent = {u[2]}
    <3>1. InterruptsPart!Context(sig, {}).parent = {}
      BY DEF InterruptsPart!Context
    <3> QED BY <1>c, <2>1, <2>2, <3>1
  <2>4. u[1].id = w[1].id
    BY <2>1, <2>2, <2>3, <1>c
  <2>5. u[1] = w[1]
    BY <2>4, <1>c, <1>g
  <2> QED BY <2>1, <2>3, <2>5
<1>4. \A w \in W : \A s \in w[1].subs :
        \E v \in W : v[2] \in InterruptsPart!Children(all, w[2]) /\ v[1] = s
  <2> SUFFICES ASSUME NEW w \in W, NEW s \in w[1].subs
               PROVE  \E v \in W : v[2] \in InterruptsPart!Children(all, w[2]) /\ v[1] = s
    OBVIOUS
  <2>1. PICK v \in W : v[1] = s /\ v[2].parent = {w[2]}
    BY <1>d
  <2>2. v[2] \in all
    BY <1>e
  <2> QED BY <2>1, <2>2 DEF InterruptsPart!Children
<1>5. \A w \in W : w[1] \in T4 => OfCall(w[2]) = w[1]
  BY <1>2, <1>i
<1>6. \A w \in W : w[1] \in T3 => OfRun(w[2]) = w[1]
  <2> HIDE DEF OfCall
  <2> SUFFICES ASSUME NEW w \in W, w[1] \in T3 PROVE OfRun(w[2]) = w[1]
    OBVIOUS
  <2>1. {OfCall(d) : d \in InterruptsPart!Children(all, w[2])} = w[1].subs
    BY <1>3, <1>4, <1>5, <1>i
  <2> QED BY <2>1, <1>2
<1>7. \A w \in W : w[1] \in T2 => OfTool(w[2]) = w[1]
  <2> HIDE DEF OfRun
  <2> SUFFICES ASSUME NEW w \in W, w[1] \in T2 PROVE OfTool(w[2]) = w[1]
    OBVIOUS
  <2>1. {OfRun(d) : d \in InterruptsPart!Children(all, w[2])} = w[1].subs
    BY <1>3, <1>4, <1>6, <1>i
  <2> QED BY <2>1, <1>2
<1>8. \A w \in W : w[1] = sig => OfStep(w[2]) = w[1]
  <2> HIDE DEF OfTool
  <2> SUFFICES ASSUME NEW w \in W, w[1] = sig PROVE OfStep(w[2]) = w[1]
    OBVIOUS
  <2>1. {OfTool(d) : d \in InterruptsPart!Children(all, w[2])} = w[1].subs
    BY <1>3, <1>4, <1>7, <1>i
  <2> QED BY <2>1, <1>2
<1>9. {d \in all : d.parent = {}} = {InterruptsPart!Context(sig, {})}
  <2>1. InterruptsPart!Context(sig, {}).parent = {}
    BY DEF InterruptsPart!Context
  <2>2. InterruptsPart!Context(sig, {}) \in all
    BY <1>e, <1>f
  <2>3. \A w \in W : w[2].parent = {} => w[2] = InterruptsPart!Context(sig, {})
    BY <1>c
  <2> QED BY <2>1, <2>2, <2>3, <1>e
<1>10. OfStep(InterruptsPart!Context(sig, {})) = sig
  <2> HIDE DEF OfStep
  <2> QED BY <1>8, <1>f
<1> HIDE DEF OfStep
<1> QED BY <1>a, <1>9, <1>10 DEF form

\* An id tells of a call, or of a call of a nested run.
LEMMA PausedFields ==
  ASSUME NEW agent, NEW of, NEW kind
  PROVE  /\ InterruptsPart!Paused(agent, of, kind).id[1] = agent
         /\ InterruptsPart!Paused(agent, of, kind).id[2] = of
         /\ InterruptsPart!Paused(agent, of, kind).subs = {}
         /\ InterruptsPart!Paused(agent, of, kind).address \in {<<agent, None>>, <<agent, of>>}
         /\ InterruptsPart!Paused(agent, of, kind) =
              InterruptsPart!InterruptSignal(
                InterruptsPart!Paused(agent, of, kind).id,
                InterruptsPart!Paused(agent, of, kind).address,
                InterruptsPart!Paused(agent, of, kind).state,
                InterruptsPart!Paused(agent, of, kind).subs)
<1>1. CASE kind = "own"
  <2>1. InterruptsPart!Paused(agent, of, kind) =
            InterruptsPart!InterruptSignal(<<agent, of>>, <<agent, None>>, None, {})
    BY <1>1 DEF InterruptsPart!Paused, InterruptsPart!Interrupt, InterruptsPart!StatefulInterrupt
  <2> QED BY <2>1 DEF InterruptsPart!InterruptSignal
<1>2. CASE kind # "own"
  <2>1. InterruptsPart!Paused(agent, of, kind) =
            InterruptsPart!InterruptSignal(<<agent, of>>, <<agent, of>>, None, {})
    BY <1>2 DEF InterruptsPart!Paused, InterruptsPart!Interrupt,
      InterruptsPart!StatefulInterrupt, InterruptsPart!ToolAddress
  <2> QED BY <2>1 DEF InterruptsPart!InterruptSignal
<1> QED BY <1>1, <1>2

LEMMA NestedIds ==
  ASSUME InterruptsPart!InterruptsAssumption, NEW c \in Calls, NEW n \in NestedCalls
  PROVE  <<c, n>> \notin Calls
<1>1. <<c, n>> \in Calls \X NestedCalls
  OBVIOUS
<1>2. Calls \cap (Calls \X NestedCalls) = {}
  BY DEF InterruptsPart!InterruptsAssumption
<1> QED BY <1>1, <1>2

\* The signal of a nested run is a tree, so that of its agent as a tool has it under it.
LEMMA TreeOfNested ==
  ASSUME InterruptsPart!InterruptsAssumption, NEW c \in Calls,
         NEW ns, DOMAIN ns \subseteq NestedCalls
  PROVE  /\ IsTree(InterruptsPart!NestedSignal(c, ns))
         /\ InterruptsPart!ExecuteSubAgent(c, ns) =
              InterruptsPart!InterruptSignal(<<"agenttool", c>>, <<"root:agenttool:sub", None>>,
                [session_id |-> c], {InterruptsPart!NestedSignal(c, ns)})
<1> DEFINE sig == InterruptsPart!NestedSignal(c, ns)
           P == {InterruptsPart!Paused("sub", <<c, n>>, ns[n]) :
                   n \in InterruptsPart!NestedPauses(ns)}
<1>1. sig = InterruptsPart!InterruptSignal(<<"sub", c>>, <<"sub", None>>, None, P)
  BY DEF InterruptsPart!NestedSignal, InterruptsPart!Compose, InterruptsPart!CompositeInterrupt
<1>2. \A p \in P : /\ p.subs = {}
                   /\ p = InterruptsPart!InterruptSignal(p.id, p.address, p.state, p.subs)
                   /\ \E n \in InterruptsPart!NestedPauses(ns) :
                        p.id[2] = <<c, n>> /\ p = InterruptsPart!Paused("sub", <<c, n>>, ns[n])
  <2> SUFFICES ASSUME NEW n \in InterruptsPart!NestedPauses(ns),
                      NEW p, p = InterruptsPart!Paused("sub", <<c, n>>, ns[n])
               PROVE  /\ p.subs = {}
                      /\ p = InterruptsPart!InterruptSignal(p.id, p.address, p.state, p.subs)
                      /\ p.id[2] = <<c, n>>
    OBVIOUS
  <2> QED BY PausedFields
<1>3. \A n \in InterruptsPart!NestedPauses(ns) : <<c, n>> \notin Calls
  BY NestedIds DEF InterruptsPart!NestedPauses
<1>4. sig.subs = P /\ sig.id = <<"sub", c>>
      /\ sig = InterruptsPart!InterruptSignal(sig.id, sig.address, sig.state, sig.subs)
  BY <1>1 DEF InterruptsPart!InterruptSignal
<1> HIDE DEF P, sig
<1>5. InterruptsPart!Subs({sig}) = P /\ InterruptsPart!Subs(P) = {} /\ InterruptsPart!Subs({}) = {}
  BY <1>2, <1>4 DEF InterruptsPart!Subs
<1>6. InterruptsPart!Signals(sig) = {sig} \cup P
  BY <1>5 DEF InterruptsPart!Signals
<1>7. \A p \in P : p.id # sig.id
  <2> SUFFICES ASSUME NEW p \in P, p.id = sig.id PROVE FALSE
    OBVIOUS
  <2>1. PICK n \in InterruptsPart!NestedPauses(ns) : p.id[2] = <<c, n>>
    BY <1>2
  <2>2. p.id[2] = c
    BY <1>4
  <2> QED BY <2>1, <2>2, <1>3
<1>8. \A p, q \in P : p.id = q.id => p = q
  <2> SUFFICES ASSUME NEW p \in P, NEW q \in P, p.id = q.id PROVE p = q
    OBVIOUS
  <2>1. PICK n \in InterruptsPart!NestedPauses(ns) :
          p.id[2] = <<c, n>> /\ p = InterruptsPart!Paused("sub", <<c, n>>, ns[n])
    BY <1>2
  <2>2. PICK m \in InterruptsPart!NestedPauses(ns) :
          q.id[2] = <<c, m>> /\ q = InterruptsPart!Paused("sub", <<c, m>>, ns[m])
    BY <1>2
  <2>3. <<c, n>> = <<c, m>>
    BY <2>1, <2>2
  <2>4. n = m
    BY <2>3
  <2> QED BY <2>1, <2>2, <2>4
<1>9. IsTree(sig)
  BY <1>2, <1>4, <1>5, <1>6, <1>7, <1>8 DEF IsTree
<1> QED BY <1>9, TreeBack DEF InterruptsPart!ExecuteSubAgent, InterruptsPart!CompositeInterrupt, sig

\* The signal of a step.
StepSignal(paused, cs, nf) ==
  InterruptsPart!Compose("root", None, {InterruptsPart!Pause(c, cs[c], nf[c]) : c \in paused})

LEMMA TreeOfStep ==
  ASSUME InterruptsPart!InterruptsAssumption, NEW cs, NEW nf,
         NEW paused, paused \subseteq DOMAIN cs,
         DOMAIN cs \subseteq Calls, \A c \in paused : DOMAIN nf[c] \subseteq NestedCalls
  PROVE  /\ IsTree(StepSignal(paused, cs, nf))
         /\ \A s \in InterruptsPart!Signals(StepSignal(paused, cs, nf)) :
              \/ s.address[2] \notin Calls
              \/ \E c \in paused : /\ cs[c] \notin {"own", "agent"}
                                  /\ s = InterruptsPart!Interrupt(<<"root", c>>, <<"root", c>>)
         /\ \A c \in paused : cs[c] \notin {"own", "agent"} =>
              InterruptsPart!Interrupt(<<"root", c>>, <<"root", c>>)
                  \in InterruptsPart!Signals(StepSignal(paused, cs, nf))
<1> DEFINE sig == StepSignal(paused, cs, nf)
           P(c) == InterruptsPart!Pause(c, cs[c], nf[c])
           agents == {c \in paused : cs[c] = "agent"}
           asking == {P(c) : c \in paused}
           inner == {InterruptsPart!NestedSignal(c, nf[c]) : c \in agents}
           below == InterruptsPart!Subs(inner)
<1>1. sig = InterruptsPart!InterruptSignal(<<"root", None>>, <<"root", None>>, None, asking)
  BY DEF StepSignal, InterruptsPart!Compose, InterruptsPart!CompositeInterrupt
<1>2. \A c \in agents :
        P(c) = InterruptsPart!InterruptSignal(<<"agenttool", c>>, <<"root:agenttool:sub", None>>,
                 [session_id |-> c], {InterruptsPart!NestedSignal(c, nf[c])})
  BY TreeOfNested DEF InterruptsPart!Pause
<1>3. \A c \in paused \ agents :
        /\ cs[c] = "own" =>
               P(c) = InterruptsPart!InterruptSignal(<<"root", c>>, <<"root", None>>, None, {})
        /\ cs[c] # "own" =>
               P(c) = InterruptsPart!InterruptSignal(<<"root", c>>, <<"root", c>>, None, {})
  BY DEF InterruptsPart!Pause, InterruptsPart!Paused, InterruptsPart!Interrupt,
    InterruptsPart!StatefulInterrupt, InterruptsPart!ToolAddress
<1>4. \A c \in agents :
        \E sub :
            InterruptsPart!NestedSignal(c, nf[c]) =
                InterruptsPart!InterruptSignal(<<"sub", c>>, <<"sub", None>>, None, sub)
  BY DEF InterruptsPart!NestedSignal, InterruptsPart!Compose, InterruptsPart!CompositeInterrupt
<1>5. \A b \in below : /\ b.subs = {}
                      /\ b = InterruptsPart!InterruptSignal(b.id, b.address, b.state, b.subs)
                      /\ \E c \in agents : \E n \in InterruptsPart!NestedPauses(nf[c]) :
                           /\ b.id[1] = "sub" /\ b.id[2] = <<c, n>>
                           /\ b = InterruptsPart!Paused("sub", <<c, n>>, nf[c][n])
  <2> SUFFICES ASSUME NEW b \in below
               PROVE  /\ b.subs = {}
                      /\ b = InterruptsPart!InterruptSignal(b.id, b.address, b.state, b.subs)
                      /\ \E c \in agents : \E n \in InterruptsPart!NestedPauses(nf[c]) :
                           /\ b.id[1] = "sub" /\ b.id[2] = <<c, n>>
                           /\ b = InterruptsPart!Paused("sub", <<c, n>>, nf[c][n])
    OBVIOUS
  <2>1. PICK c \in agents : b \in InterruptsPart!NestedSignal(c, nf[c]).subs
    BY DEF InterruptsPart!Subs
  <2>2. PICK n \in InterruptsPart!NestedPauses(nf[c]) :
                 b = InterruptsPart!Paused("sub", <<c, n>>, nf[c][n])
    BY <2>1 DEF InterruptsPart!NestedSignal, InterruptsPart!Compose,
      InterruptsPart!CompositeInterrupt, InterruptsPart!InterruptSignal
  <2>3. /\ b.subs = {} /\ b = InterruptsPart!InterruptSignal(b.id, b.address, b.state, b.subs)
        /\ b.id[1] = "sub" /\ b.id[2] = <<c, n>>
    BY <2>2, PausedFields
  <2> QED BY <2>2, <2>3
<1>6. \A c \in agents : \A n \in InterruptsPart!NestedPauses(nf[c]) : <<c, n>> \notin Calls
  BY NestedIds DEF InterruptsPart!NestedPauses
<1>7. \A c \in paused : c \in Calls /\ c # None
  BY DEF InterruptsPart!InterruptsAssumption
<1> HIDE DEF sig, P
<1>8. sig.subs = asking /\ sig.id = <<"root", None>> /\ sig.address = <<"root", None>>
      /\ sig = InterruptsPart!InterruptSignal(sig.id, sig.address, sig.state, sig.subs)
  BY <1>1 DEF InterruptsPart!InterruptSignal
<1>9. \A c \in agents :
        /\ P(c).subs = {InterruptsPart!NestedSignal(c, nf[c])} /\ P(c).id = <<"agenttool", c>>
        /\ P(c).address = <<"root:agenttool:sub", None>>
        /\ P(c) = InterruptsPart!InterruptSignal(P(c).id, P(c).address, P(c).state, P(c).subs)
  BY <1>2 DEF InterruptsPart!InterruptSignal
<1>10. \A c \in paused \ agents :
         /\ P(c).subs = {} /\ P(c).id = <<"root", c>>
         /\ P(c).address \in {<<"root", None>>, <<"root", c>>}
         /\ P(c) = InterruptsPart!InterruptSignal(P(c).id, P(c).address, P(c).state, P(c).subs)
  BY <1>3 DEF InterruptsPart!InterruptSignal
<1>11. \A r \in inner :
         /\ r = InterruptsPart!InterruptSignal(r.id, r.address, r.state, r.subs)
         /\ r.address = <<"sub", None>>
         /\ \E c \in agents : r = InterruptsPart!NestedSignal(c, nf[c]) /\ r.id = <<"sub", c>>
  <2> SUFFICES ASSUME NEW c \in agents, NEW r, r = InterruptsPart!NestedSignal(c, nf[c])
               PROVE  /\ r = InterruptsPart!InterruptSignal(r.id, r.address, r.state, r.subs)
                      /\ r.address = <<"sub", None>> /\ r.id = <<"sub", c>>
    OBVIOUS
  <2>1. PICK sub : r = InterruptsPart!InterruptSignal(<<"sub", c>>, <<"sub", None>>, None, sub)
    BY <1>4
  <2> QED BY <2>1 DEF InterruptsPart!InterruptSignal
<1>12. InterruptsPart!Subs({sig}) = asking
  BY <1>8 DEF InterruptsPart!Subs
<1>13. InterruptsPart!Subs(asking) = inner
  BY <1>9, <1>10 DEF InterruptsPart!Subs
<1>14. InterruptsPart!Subs(below) = {}
  BY <1>5 DEF InterruptsPart!Subs
<1>15. InterruptsPart!Signals(sig) = {sig} \cup asking \cup inner \cup below
  BY <1>12, <1>13 DEF InterruptsPart!Signals
<1>16. \A t \in asking : \E c \in paused : t = P(c) /\ t.id \in {<<"root", c>>, <<"agenttool", c>>}
  BY <1>9, <1>10
<1>17. \A t \in asking : t = InterruptsPart!InterruptSignal(t.id, t.address, t.state, t.subs)
  BY <1>9, <1>10
<1>18. \A s, t \in InterruptsPart!Signals(sig) : s.id = t.id => s = t
  <2>1. \A s, t \in asking : s.id = t.id => s = t
    BY <1>9, <1>10
  <2>2. \A s, t \in inner : s.id = t.id => s = t
    BY <1>11
  <2>3. \A s, t \in below : s.id = t.id => s = t
    <3> SUFFICES ASSUME NEW s \in below, NEW t \in below, s.id = t.id PROVE s = t
      OBVIOUS
    <3>1. PICK c \in agents : \E n \in InterruptsPart!NestedPauses(nf[c]) :
            s.id[2] = <<c, n>> /\ s = InterruptsPart!Paused("sub", <<c, n>>, nf[c][n])
      BY <1>5
    <3>2. PICK d \in agents : \E m \in InterruptsPart!NestedPauses(nf[d]) :
            t.id[2] = <<d, m>> /\ t = InterruptsPart!Paused("sub", <<d, m>>, nf[d][m])
      BY <1>5
    <3>3. PICK n \in InterruptsPart!NestedPauses(nf[c]) :
            s.id[2] = <<c, n>> /\ s = InterruptsPart!Paused("sub", <<c, n>>, nf[c][n])
      BY <3>1
    <3>4. PICK m \in InterruptsPart!NestedPauses(nf[d]) :
            t.id[2] = <<d, m>> /\ t = InterruptsPart!Paused("sub", <<d, m>>, nf[d][m])
      BY <3>2
    <3>5. <<c, n>> = <<d, m>>
      BY <3>3, <3>4
    <3>6. c = d /\ n = m
      BY <3>5
    <3> QED BY <3>3, <3>4, <3>6
  <2>4. \A t \in asking : t.id # sig.id /\ t.id[1] # "sub"
    BY <1>7, <1>8, <1>16
  <2>5. \A r \in inner : r.id # sig.id /\ r.id[1] = "sub" /\ r.id[2] \in Calls
    BY <1>7, <1>8, <1>11
  <2>6. \A b \in below : b.id # sig.id /\ b.id[1] = "sub" /\ b.id[2] \notin Calls
    <3>1. ASSUME NEW b \in below
          PROVE  b.id[1] = "sub" /\ b.id[2] \notin Calls
      <4>1. PICK c \in agents : \E n \in InterruptsPart!NestedPauses(nf[c]) :
              b.id[1] = "sub" /\ b.id[2] = <<c, n>>
        BY <1>5
      <4> QED BY <4>1, <1>6
    <3>2. sig.id[1] = "root"
      BY <1>8
    <3> QED BY <3>1, <3>2
  <2> QED BY <1>15, <2>1, <2>2, <2>3, <2>4, <2>5, <2>6
<1>19. IsTree(sig)
  BY <1>5, <1>8, <1>11, <1>12, <1>13, <1>14, <1>15, <1>17, <1>18 DEF IsTree
<1>20. ASSUME NEW s \in InterruptsPart!Signals(sig), s.address[2] \in Calls
       PROVE  \E c \in paused : /\ cs[c] \notin {"own", "agent"}
                              /\ s = InterruptsPart!Interrupt(<<"root", c>>, <<"root", c>>)
  <2>0. None \notin Calls
    BY DEF InterruptsPart!InterruptsAssumption
  <2>1. s # sig
    BY <1>8, <1>20, <2>0
  <2>2. s \notin inner
    BY <1>11, <1>20, <2>0
  <2>3. s \notin below
    <3> SUFFICES ASSUME s \in below PROVE FALSE
      OBVIOUS
    <3>1. PICK c \in agents : \E n \in InterruptsPart!NestedPauses(nf[c]) :
                   s = InterruptsPart!Paused("sub", <<c, n>>, nf[c][n])
      BY <1>5
    <3>2. PICK n \in InterruptsPart!NestedPauses(nf[c]) :
                   s = InterruptsPart!Paused("sub", <<c, n>>, nf[c][n])
      BY <3>1
    <3>3. s.address \in {<<"sub", None>>, <<"sub", <<c, n>>>>}
      BY <3>2, PausedFields
    <3> QED BY <3>3, <2>0, <1>6, <1>20
  <2>4. PICK c \in paused : s = P(c)
    BY <1>15, <1>16, <2>1, <2>2, <2>3
  <2>5. c \notin agents
    BY <1>9, <1>20, <2>0, <2>4
  <2>6. cs[c] # "own"
    BY <1>3, <1>20, <2>0, <2>4, <2>5 DEF InterruptsPart!InterruptSignal
  <2> QED BY <1>3, <2>4, <2>5, <2>6 DEF InterruptsPart!Interrupt, InterruptsPart!StatefulInterrupt
<1>21. \A c \in paused : cs[c] \notin {"own", "agent"} =>
         InterruptsPart!Interrupt(<<"root", c>>, <<"root", c>>) \in InterruptsPart!Signals(sig)
  BY <1>3, <1>15 DEF InterruptsPart!Interrupt, InterruptsPart!StatefulInterrupt
<1> QED BY <1>19, <1>20, <1>21 DEF sig

\* The pending interrupts of a step.
LEMMA PendingOfStep ==
  ASSUME InterruptsPart!InterruptsAssumption, NEW cs, NEW nf,
         NEW paused, paused \subseteq DOMAIN cs,
         DOMAIN cs \subseteq Calls, \A c \in DOMAIN cs : cs[c] \in Kinds,
         \A c \in paused : DOMAIN nf[c] \subseteq NestedCalls,
         NEW m \in InterruptsPart!Address2ID(StepSignal(paused, cs, nf))
  PROVE  LET own == {p \in InterruptsPart!PendingInterrupts(m,
                              InterruptsPart!ID2State(StepSignal(paused, cs, nf)), cs) :
                       p.tool # None}
         IN  /\ {p.call : p \in own} = {c \in paused : cs[c] \notin {"own", "agent"}}
             /\ \A p \in own : /\ p.tool = cs[p.call] /\ p.agent = "root"
                              /\ p.id = <<"root", p.call>>
             /\ \A p, q \in own : p.call = q.call => p = q
<1> DEFINE sig == StepSignal(paused, cs, nf)
           at(a) == {s \in InterruptsPart!Signals(sig) : s.address = a}
           latest == {s \in InterruptsPart!Signals(sig) :
                        InterruptsPart!Signals(s) \cap at(s.address) = {s}}
           addresses == {s.address : s \in latest}
           state(a) == (CHOOSE s \in InterruptsPart!ID2State(sig) : s.id = m[a]).state
           entryOf(a) == [id |-> m[a], agent |-> a[1], call |-> a[2],
                          tool |-> IF a[2] \in DOMAIN cs THEN cs[a[2]] ELSE None,
                          state |-> state(a)]
           all == InterruptsPart!PendingInterrupts(m, InterruptsPart!ID2State(sig), cs)
           own == {p \in all : p.tool # None}
           asks == {c \in paused : cs[c] \notin {"own", "agent"}}
           Of(c) == InterruptsPart!Interrupt(<<"root", c>>, <<"root", c>>)
<1>0. None \notin Calls /\ \A c \in DOMAIN cs : cs[c] # None
  BY DEF InterruptsPart!InterruptsAssumption
<1>1. PICK ones \in SUBSET latest :
        /\ \A a \in addresses : \E s \in ones : ones \cap at(a) = {s}
        /\ m = [a \in addresses |-> (CHOOSE s \in ones : s.address = a).id]
  BY DEF InterruptsPart!Address2ID
<1>2. all = {entryOf(a) : a \in addresses}
  BY <1>1 DEF InterruptsPart!PendingInterrupts
<1>3. \A s \in InterruptsPart!Signals(sig) : s.address[2] \notin Calls \/ \E c \in asks : s = Of(c)
  BY TreeOfStep
<1>4. \A c \in asks : Of(c) \in InterruptsPart!Signals(sig)
  BY TreeOfStep
<1>5. \A c : Of(c).id = <<"root", c>> /\ Of(c).address = <<"root", c>> /\ Of(c).subs = {}
  BY DEF InterruptsPart!Interrupt, InterruptsPart!StatefulInterrupt, InterruptsPart!InterruptSignal
<1> HIDE DEF sig, Of
<1>6. \A c \in asks : Of(c) \in latest
  <2> SUFFICES ASSUME NEW c \in asks PROVE Of(c) \in latest
    OBVIOUS
  <2>1. InterruptsPart!Signals(Of(c)) = {Of(c)}
    <3>1. InterruptsPart!Subs({Of(c)}) = {} /\ InterruptsPart!Subs({}) = {}
      BY <1>5 DEF InterruptsPart!Subs
    <3> QED BY <3>1 DEF InterruptsPart!Signals
  <2> QED BY <2>1, <1>4
<1>7. \A a \in addresses : \E s \in ones : s.address = a
  BY <1>1
<1>8. \A a \in addresses : a[2] \in Calls =>
        a[2] \in asks /\ a = <<"root", a[2]>> /\ m[a] = <<"root", a[2]>>
  <2> SUFFICES ASSUME NEW a \in addresses, a[2] \in Calls
               PROVE  a[2] \in asks /\ a = <<"root", a[2]>> /\ m[a] = <<"root", a[2]>>
    OBVIOUS
  <2> DEFINE s == CHOOSE s \in ones : s.address = a
  <2>1. s \in ones /\ s.address = a
    BY <1>7
  <2>2. m[a] = s.id
    BY <1>1
  <2> HIDE DEF s
  <2>3. PICK c \in asks : s = Of(c)
    BY <2>1, <1>3
  <2> HIDE DEF asks, addresses
  <2>4. a = <<"root", c>> /\ m[a] = <<"root", c>>
    BY <2>1, <2>2, <2>3, <1>5
  <2>5. a[2] = c
    BY <2>4
  <2> QED BY <2>4, <2>5
<1>9. \A p \in own : \E a \in addresses :
        /\ p = entryOf(a) /\ p.call = a[2] /\ p.call \in asks /\ a = <<"root", p.call>>
        /\ p.tool = cs[p.call] /\ p.agent = "root" /\ p.id = <<"root", p.call>>
  <2> SUFFICES ASSUME NEW p \in own
               PROVE  \E a \in addresses :
                        /\ p = entryOf(a) /\ p.call = a[2] /\ p.call \in asks
                        /\ a = <<"root", p.call>> /\ p.tool = cs[p.call]
                        /\ p.agent = "root" /\ p.id = <<"root", p.call>>
    OBVIOUS
  <2>1. PICK a \in addresses : p = entryOf(a)
    BY <1>2
  <2> HIDE DEF state, addresses
  <2>2. /\ p.call = a[2] /\ p.agent = a[1] /\ p.id = m[a]
        /\ p.tool = IF a[2] \in DOMAIN cs THEN cs[a[2]] ELSE None
    BY <2>1
  <2>3. a[2] \in DOMAIN cs /\ p.tool = cs[a[2]]
    BY <2>2
  <2>4. a[2] \in asks /\ a = <<"root", a[2]>> /\ m[a] = <<"root", a[2]>>
    BY <2>3, <1>8
  <2>5. a[1] = "root"
    BY <2>4
  <2> QED BY <2>1, <2>2, <2>3, <2>4, <2>5
<1>10. \A c \in asks : \E p \in own : p.call = c
  <2> SUFFICES ASSUME NEW c \in asks PROVE \E p \in own : p.call = c
    OBVIOUS
  <2> DEFINE a == <<"root", c>>
  <2>1. a \in addresses
    BY <1>5, <1>6
  <2>2. a[2] = c
    OBVIOUS
  <2> HIDE DEF state, addresses, a
  <2>3. entryOf(a) \in all
    BY <2>1, <1>2
  <2>4. entryOf(a).call = c /\ entryOf(a).tool = cs[c]
    BY <2>2
  <2>5. cs[c] # None
    BY <1>0
  <2> QED BY <2>3, <2>4, <2>5
<1> HIDE DEF own, entryOf
<1>11. {p.call : p \in own} = asks
  BY <1>9, <1>10
<1>12. \A p, q \in own : p.call = q.call => p = q
  <2> SUFFICES ASSUME NEW p \in own, NEW q \in own, p.call = q.call PROVE p = q
    OBVIOUS
  <2>1. p = entryOf(<<"root", p.call>>)
    BY <1>9
  <2>2. q = entryOf(<<"root", q.call>>)
    BY <1>9
  <2> QED BY <2>1, <2>2
<1>13. \A p \in own : p.tool = cs[p.call] /\ p.agent = "root" /\ p.id = <<"root", p.call>>
  BY <1>9
<1> QED BY <1>11, <1>12, <1>13 DEF own, sig

PersistInv == InterruptsPart!TreeComesBack /\ InterruptsPart!PendingAreThePaused

LEMMA PersistStep ==
  ASSUME InterruptsPart!InterruptsAssumption, PersistInv, InterruptsPart!Step
  PROVE  PersistInv'
<1> DEFINE ns(c) == IF c \in DOMAIN nested' THEN nested'[c] ELSE <<>>
           paused == {c \in DOMAIN calls' : InterruptsPart!Asks(calls'[c], ns(c))}
           nf == [c \in DOMAIN calls' |-> ns(c)]
<1>1. CASE paused = {}
  <2>1. stepPhase' = "answered" /\ UNCHANGED signal
    BY <1>1 DEF InterruptsPart!Step
  <2>2. InterruptsPart!TreeComesBack'
    BY <2>1 DEF PersistInv, InterruptsPart!TreeComesBack
  <2> QED BY <2>1, <2>2 DEF PersistInv, InterruptsPart!PendingAreThePaused
<1>2. CASE paused # {}
  <2>1. /\ stepPhase' = "paused"
        /\ signal' =
              InterruptsPart!Compose("root", None,
                {InterruptsPart!Pause(c, calls'[c], ns(c)) : c \in paused})
        /\ \E m \in InterruptsPart!Address2ID(signal') :
              checkpoint' =
                  InterruptsPart!PendingInterrupts(m, InterruptsPart!ID2State(signal'), calls')
    BY <1>2 DEF InterruptsPart!Step
  <2>2. DOMAIN calls' \subseteq Calls /\ \A c \in DOMAIN calls' : calls'[c] \in Kinds
    BY DEF InterruptsPart!Step
  <2>3. \A c \in DOMAIN nested' : DOMAIN nested'[c] \subseteq NestedCalls
    BY DEF InterruptsPart!Step
  <2>4. \A c \in paused : DOMAIN nf[c] \subseteq NestedCalls
    BY <2>3
  <2>5. signal' = StepSignal(paused, calls', nf)
    BY <2>1 DEF StepSignal
  <2>6. \A c \in DOMAIN calls' :
          (c \in paused /\ calls'[c] \notin {"own", "agent"}) <=>
              calls'[c] \in {"approval", "guarded agent"}
    BY DEF InterruptsPart!Asks
  <2> HIDE DEF ns, paused, nf
  <2>7. paused \subseteq DOMAIN calls'
    BY DEF paused
  <2>8. IsTree(signal')
    BY <2>2, <2>4, <2>5, <2>7, TreeOfStep
  <2>9. InterruptsPart!TreeComesBack'
    BY <2>8, TreeBack DEF InterruptsPart!TreeComesBack
  <2>10. PICK m \in InterruptsPart!Address2ID(signal') :
              checkpoint' =
                  InterruptsPart!PendingInterrupts(m, InterruptsPart!ID2State(signal'), calls')
    BY <2>1
  <2> DEFINE own == {p \in checkpoint' : p.tool # None}
  <2>11. /\ {p.call : p \in own} = {c \in paused : calls'[c] \notin {"own", "agent"}}
         /\ \A p \in own : p.tool = calls'[p.call] /\ p.agent = "root" /\ p.id = <<"root", p.call>>
         /\ \A p, q \in own : p.call = q.call => p = q
    BY <2>2, <2>4, <2>5, <2>7, <2>10, PendingOfStep
  <2>12. {c \in paused : calls'[c] \notin {"own", "agent"}} =
           {c \in DOMAIN calls' : calls'[c] \in {"approval", "guarded agent"}}
    BY <2>6, <2>7
  <2>13. InterruptsPart!PendingAreThePaused'
    BY <2>11, <2>12 DEF InterruptsPart!PendingAreThePaused
  <2> QED BY <2>9, <2>13 DEF PersistInv
<1> QED BY <1>1, <1>2

LEMMA PersistNext ==
  ASSUME InterruptsPart!InterruptsAssumption, PersistInv,
         [InterruptsPart!Next]_(InterruptsPart!vars)
  PROVE  PersistInv'
<1>1. CASE InterruptsPart!Step
  BY <1>1, PersistStep
<1>2. CASE InterruptsPart!Resume
  BY <1>2 DEF InterruptsPart!Resume, PersistInv, InterruptsPart!TreeComesBack,
    InterruptsPart!PendingAreThePaused
<1>3. CASE UNCHANGED InterruptsPart!vars
  BY <1>3 DEF InterruptsPart!vars, PersistInv, InterruptsPart!TreeComesBack,
    InterruptsPart!PendingAreThePaused
<1> QED BY <1>1, <1>2, <1>3 DEF InterruptsPart!Next

LEMMA PersistFirst ==
  ASSUME InterruptsPart!Init
  PROVE  PersistInv
BY DEF InterruptsPart!Init, PersistInv, InterruptsPart!TreeComesBack,
  InterruptsPart!PendingAreThePaused

-----------------------------------------------------------------------------
(* Stream: what the deltas say, and the message at the end, is what the vendor said,
   however many chunks it sends, and however they mix. *)

Pieces == Seq(Nat \X Nat)
OfKinds(kinds) == {b \in StreamPart!Block : b.kind \in kinds}

LEMMA BodyType == \A e \in StreamPart!Block : e.body \in Pieces
BY DEF StreamPart!Block, Pieces

LEMMA SameAsKept ==
  /\ \A s, T : StreamPart!Keep(s, T) = Keep(s, T)
  /\ \A s : StreamPart!Joined(s) = Joined(s)
BY DEF StreamPart!Keep, Keep, StreamPart!Joined, Joined

LEMMA OfIsKept ==
  ASSUME NEW kinds, NEW c \in Seq(StreamPart!Block)
  PROVE  StreamPart!Of(kinds, c) = Keep(c, OfKinds(kinds))
<1> DEFINE T == {b \in {c[k] : k \in DOMAIN c} : b.kind \in kinds}
<1>1. T \cap ElementsOf(c) = OfKinds(kinds) \cap ElementsOf(c)
  <2>1. \A k \in DOMAIN c : c[k] \in StreamPart!Block
    OBVIOUS
  <2> QED BY <2>1 DEF ElementsOf, OfKinds
<1> HIDE DEF T
<1>2. Keep(c, T) = Keep(c, OfKinds(kinds))
  BY <1>1, KeepSame
<1> QED BY <1>2, SameAsKept DEF StreamPart!Of, T

LEMMA OfType ==
  ASSUME NEW kinds, NEW c \in Seq(StreamPart!Block)
  PROVE  StreamPart!Of(kinds, c) \in Seq(StreamPart!Block)
BY OfIsKept, KeepType

\* With one more block.
LEMMA OfAppend ==
  ASSUME NEW kinds, NEW c \in Seq(StreamPart!Block), NEW e \in StreamPart!Block
  PROVE  StreamPart!Of(kinds, Append(c, e)) =
           IF e.kind \in kinds THEN Append(StreamPart!Of(kinds, c), e) ELSE StreamPart!Of(kinds, c)
<1>1. Append(c, e) \in Seq(StreamPart!Block)
  OBVIOUS
<1>2. /\ StreamPart!Of(kinds, c) = Keep(c, OfKinds(kinds))
      /\ StreamPart!Of(kinds, Append(c, e)) = Keep(Append(c, e), OfKinds(kinds))
  BY <1>1, OfIsKept
<1>3. e \in OfKinds(kinds) <=> e.kind \in kinds
  BY DEF OfKinds
<1>4. Keep(Append(c, e), OfKinds(kinds)) =
        IF e \in OfKinds(kinds) THEN Append(Keep(c, OfKinds(kinds)), e) ELSE Keep(c, OfKinds(kinds))
  BY KeepAppend
<1> QED BY <1>2, <1>3, <1>4

\* Of the blocks of more kinds.
LEMMA OfOf ==
  ASSUME NEW fewer, NEW more, fewer \subseteq more, NEW c \in Seq(StreamPart!Block)
  PROVE  StreamPart!Of(fewer, StreamPart!Of(more, c)) = StreamPart!Of(fewer, c)
<1>1. OfKinds(fewer) \subseteq OfKinds(more)
  BY DEF OfKinds
<1>2. Keep(Keep(c, OfKinds(more)), OfKinds(fewer)) = Keep(c, OfKinds(fewer))
  BY <1>1, KeepKeep
<1>3. /\ StreamPart!Of(more, c) = Keep(c, OfKinds(more))
      /\ StreamPart!Of(more, c) \in Seq(StreamPart!Block)
  BY OfIsKept, OfType
<1>4. /\ StreamPart!Of(fewer, StreamPart!Of(more, c)) = Keep(StreamPart!Of(more, c), OfKinds(fewer))
      /\ StreamPart!Of(fewer, c) = Keep(c, OfKinds(fewer))
  BY <1>3, OfIsKept
<1> QED BY <1>2, <1>3, <1>4

\* Of two messages that are alike in the blocks of these kinds.
LEMMA OfAlike ==
  ASSUME NEW kinds, NEW c \in Seq(StreamPart!Block),
         NEW d \in Seq(StreamPart!Block), Len(c) = Len(d),
         \A k \in 1..Len(c) : c[k] = d[k] \/ (c[k].kind \notin kinds /\ d[k].kind \notin kinds)
  PROVE  StreamPart!Of(kinds, c) = StreamPart!Of(kinds, d)
<1>1. \A k \in 1..Len(c) : c[k] = d[k] \/ (c[k] \notin OfKinds(kinds) /\ d[k] \notin OfKinds(kinds))
  BY DEF OfKinds
<1>2. Keep(c, OfKinds(kinds)) = Keep(d, OfKinds(kinds))
  BY <1>1, KeepAlike
<1> QED BY <1>2, OfIsKept

\* And by their places.
LEMMA OfEnumerated ==
  ASSUME NEW kinds, NEW c \in Seq(StreamPart!Block),
         NEW places, Enumerates(places, c, OfKinds(kinds))
  PROVE  StreamPart!Of(kinds, c) = [i \in DOMAIN places |-> c[places[i]]]
BY OfIsKept, KeepIsEnumerated

LEMMA TextAppend ==
  ASSUME NEW kind, NEW c \in Seq(StreamPart!Block), NEW e \in StreamPart!Block
  PROVE  StreamPart!Text(kind, Append(c, e)) =
           IF e.kind = kind THEN StreamPart!Text(kind, c) \o e.body ELSE StreamPart!Text(kind, c)
<1> DEFINE b == StreamPart!Of({kind}, c)
           Bodies(s) == [i \in DOMAIN s |-> s[i].body]
<1>1. b \in Seq(StreamPart!Block)
  BY OfType
<1>2. StreamPart!Of({kind}, Append(c, e)) = IF e.kind = kind THEN Append(b, e) ELSE b
  BY OfAppend
<1> HIDE DEF b
<1>3. Bodies(b) \in Seq(Pieces) /\ e.body \in Pieces
  <2>1. DOMAIN b = 1..Len(b) /\ Len(b) \in Nat /\ \A i \in 1..Len(b) : b[i].body \in Pieces
    BY <1>1, BodyType
  <2> QED BY <2>1, BodyType
<1>4. Bodies(Append(b, e)) = Append(Bodies(b), e.body)
  <2>1. Append(b, e) \in Seq(StreamPart!Block) /\ DOMAIN Append(b, e) = 1..(Len(b) + 1)
        /\ DOMAIN b = 1..Len(b) /\ Len(b) \in Nat
        /\ (\A i \in 1..Len(b) : Append(b, e)[i] = b[i]) /\ Append(b, e)[Len(b) + 1] = e
    BY <1>1
  <2>2. Len(Bodies(b)) = Len(b)
    BY <1>1, <1>3
  <2>3. Append(Bodies(b), e.body) =
          [i \in 1..(Len(b) + 1) |-> IF i = Len(b) + 1 THEN e.body ELSE Bodies(b)[i]]
    BY <1>3, <2>2
  <2>4. \A i \in 1..(Len(b) + 1) :
          (IF i = Len(b) + 1 THEN e.body ELSE Bodies(b)[i]) = Append(b, e)[i].body
    BY <2>1
  <2> QED BY <2>1, <2>3, <2>4
<1>5. Joined(Append(Bodies(b), e.body)) = Joined(Bodies(b)) \o e.body
  <2> HIDE DEF Bodies
  <2> QED BY <1>3, JoinedAppend
<1>6. \A s : StreamPart!Text(kind, s) = Joined(Bodies(StreamPart!Of({kind}, s)))
  BY SameAsKept DEF StreamPart!Text
<1> HIDE DEF Bodies
<1> QED BY <1>2, <1>4, <1>5, <1>6 DEF b

LEMMA TextAlike ==
  ASSUME NEW kind, NEW c \in Seq(StreamPart!Block),
         NEW d \in Seq(StreamPart!Block), Len(c) = Len(d),
         \A k \in 1..Len(c) : c[k] = d[k] \/ (c[k].kind # kind /\ d[k].kind # kind)
  PROVE  StreamPart!Text(kind, c) = StreamPart!Text(kind, d)
<1>1. StreamPart!Of({kind}, c) = StreamPart!Of({kind}, d)
  BY OfAlike
<1> QED BY <1>1 DEF StreamPart!Text

\* The text where there is one block of the kind, and where there is none.
LEMMA TextOfOne ==
  ASSUME NEW kind, NEW c \in Seq(StreamPart!Block), NEW a \in 0..Len(c),
         \A k \in 1..Len(c) : c[k].kind = kind <=> k = a
  PROVE  StreamPart!Text(kind, c) = IF a = 0 THEN <<>> ELSE c[a].body
<1> DEFINE T == OfKinds({kind})
<1>0. /\ Len(c) \in Nat /\ DOMAIN c = 1..Len(c)
      /\ \A k \in 1..Len(c) : c[k] \in StreamPart!Block /\ (c[k] \in T <=> k = a)
  BY DEF OfKinds
<1>1. CASE a = 0
  <2> DEFINE none == StreamPart!Of({kind}, c)
  <2>1. T \cap ElementsOf(c) = {}
    <3>1. \A k \in DOMAIN c : c[k] \notin T
      <4> SUFFICES ASSUME NEW k \in 1..Len(c) PROVE ~(c[k] \in T)
        BY <1>0
      <4>1. k # a
        BY <1>1
      <4> QED BY <1>0, <4>1
    <3> QED BY <3>1 DEF ElementsOf
  <2>2. none = <<>>
    BY <2>1, KeepNone, OfIsKept
  <2> HIDE DEF none
  <2>3. [i \in DOMAIN none |-> none[i].body] = <<>>
    BY <2>2
  <2> QED BY <1>1, <2>3, JoinedEmpty, SameAsKept DEF StreamPart!Text, none
<1>2. CASE a # 0
  <2> DEFINE at == <<a>>
             one == StreamPart!Of({kind}, c)
             it == <<c[a].body>>
  <2>1. a \in 1..Len(c) /\ c[a] \in StreamPart!Block /\ c[a].body \in Pieces
    BY <1>0, <1>2, BodyType
  <2>2. at \in Seq(1..Len(c)) /\ DOMAIN at = {1} /\ at[1] = a
    BY <2>1
  <2>3. it \in Seq(Pieces) /\ DOMAIN it = {1} /\ it[1] = c[a].body /\ Joined(it) = it[1]
    BY <2>1, JoinedOne DEF Pieces
  <2> HIDE DEF at, one, it, T
  <2>4. Enumerates(at, c, T)
    BY <1>0, <2>1, <2>2 DEF Enumerates
  <2>5. one = [i \in DOMAIN at |-> c[at[i]]]
    BY <2>4, OfEnumerated DEF one, T
  <2>6. [i \in DOMAIN one |-> one[i].body] = it
    <3>1. DOMAIN one = {1} /\ one[1] = c[a]
      BY <2>2, <2>5
    <3>2. it = [i \in {1} |-> c[a].body]
      BY <2>3
    <3> QED BY <3>1, <3>2
  <2> QED BY <1>2, <2>3, <2>6, SameAsKept DEF StreamPart!Text, one
<1> QED BY <1>1, <1>2

\* A kind of text is in one block of the content, at the index that the builder has.
Written(kind, at, s, p) ==
  /\ at \in 0..Len(p)
  /\ \A k \in 1..Len(p) : p[k].kind = kind <=> k = at
  /\ StreamPart!Text(kind, s) = IF at = 0 THEN <<>> ELSE p[at].body

LEMMA WrittenMeans ==
  ASSUME NEW kind, NEW at, NEW s, NEW p \in Seq(StreamPart!Block), Written(kind, at, s, p)
  PROVE  StreamPart!Text(kind, p) = StreamPart!Text(kind, s)
BY TextOfOne DEF Written

\* Other blocks make no difference.
LEMMA WrittenStays ==
  ASSUME NEW kind, NEW at, NEW s, NEW p \in Seq(StreamPart!Block), Written(kind, at, s, p),
         NEW t, StreamPart!Text(kind, t) = StreamPart!Text(kind, s)
  PROVE  /\ \A f \in StreamPart!Block : f.kind # kind => Written(kind, at, t, Append(p, f))
         /\ \A q \in Seq(StreamPart!Block) :
              /\ Len(q) = Len(p)
              /\ \A k \in 1..Len(p) : q[k] = p[k] \/ (q[k].kind # kind /\ p[k].kind # kind)
              => Written(kind, at, t, q)
<1>1. ASSUME NEW f \in StreamPart!Block, f.kind # kind PROVE Written(kind, at, t, Append(p, f))
  <2> DEFINE q == Append(p, f)
  <2>1. /\ Len(p) \in Nat /\ Len(q) = Len(p) + 1 /\ q[Len(p) + 1] = f
        /\ \A k \in 1..Len(p) : q[k] = p[k]
    OBVIOUS
  <2> HIDE DEF q
  <2>2. \A k \in 1..Len(q) : k \in 1..Len(p) \/ (k = Len(p) + 1 /\ k # at)
    BY <2>1 DEF Written
  <2>3. Written(kind, at, t, q)
    BY <1>1, <2>1, <2>2 DEF Written
  <2> QED BY <2>3 DEF q
<1>2. ASSUME NEW q \in Seq(StreamPart!Block), Len(q) = Len(p),
             \A k \in 1..Len(p) : q[k] = p[k] \/ (q[k].kind # kind /\ p[k].kind # kind)
      PROVE  Written(kind, at, t, q)
  <2>1. \A k \in 1..Len(p) :
            (q[k].kind = kind <=> p[k].kind = kind) /\ (p[k].kind = kind => q[k] = p[k])
    BY <1>2
  <2>2. Len(p) \in Nat /\ (at # 0 => at \in 1..Len(p))
    BY DEF Written
  <2> QED BY <1>2, <2>1, <2>2 DEF Written
<1> QED BY <1>1, <1>2

\* A piece of it opens the block, or is put at its end.
LEMMA WrittenMore ==
  ASSUME NEW kind, NEW at, NEW s, NEW p \in Seq(StreamPart!Block), Written(kind, at, s, p),
         NEW d \in Pieces, NEW t, StreamPart!Text(kind, t) = StreamPart!Text(kind, s) \o d
  PROVE  /\ at = 0 => Written(kind, Len(p) + 1, t, Append(p, StreamPart!TextBlock(kind, d)))
         /\ at # 0 => Written(kind, at, t, [p EXCEPT ![at].body = @ \o d])
<1>1. /\ Len(p) \in Nat /\ (at # 0 => at \in 1..Len(p))
      /\ \A k \in 1..Len(p) : p[k] \in StreamPart!Block
  BY DEF Written
<1>2. ASSUME at = 0 PROVE Written(kind, Len(p) + 1, t, Append(p, StreamPart!TextBlock(kind, d)))
  <2> DEFINE f == StreamPart!TextBlock(kind, d)
             q == Append(p, f)
  <2>1. f.kind = kind /\ f.body = d
    BY DEF StreamPart!TextBlock
  <2> HIDE DEF f
  <2>2. Len(q) = Len(p) + 1 /\ q[Len(p) + 1] = f /\ \A k \in 1..Len(p) : q[k] = p[k]
    BY <1>1
  <2> HIDE DEF q
  <2>3. StreamPart!Text(kind, t) = d
    <3>1. <<>> \o d = d
      BY DEF Pieces
    <3> QED BY <1>2, <3>1 DEF Written
  <2>4. \A k \in 1..Len(q) :
            k = Len(p) + 1 \/ (k \in 1..Len(p) /\ k # Len(p) + 1 /\ p[k].kind # kind)
    BY <1>1, <1>2, <2>2 DEF Written
  <2>5. Len(p) + 1 \in 0..Len(q) /\ Len(p) + 1 # 0
    BY <1>1, <2>2
  <2>6. Written(kind, Len(p) + 1, t, q)
    BY <2>1, <2>2, <2>3, <2>4, <2>5 DEF Written
  <2> QED BY <2>6 DEF q, f
<1>3. ASSUME at # 0 PROVE Written(kind, at, t, [p EXCEPT ![at].body = @ \o d])
  <2> DEFINE g == [p[at] EXCEPT !.body = @ \o d]
             q == [p EXCEPT ![at] = g]
  <2>0. g.kind = p[at].kind /\ g.body = p[at].body \o d
    BY <1>1, <1>3 DEF StreamPart!Block
  <2> HIDE DEF g
  <2>1. /\ Len(q) = Len(p) /\ q[at].kind = p[at].kind /\ q[at].body = p[at].body \o d
        /\ \A k \in 1..Len(p) : k # at => q[k] = p[k]
    BY <1>1, <1>3, <2>0
  <2> HIDE DEF q
  <2>2. Written(kind, at, t, q)
    BY <1>1, <1>3, <2>1 DEF Written
  <2> QED BY <2>2 DEF q, g
<1> QED BY <1>2, <1>3

-----------------------------------------------------------------------------
\* The blocks of kinds are where those of another message are.
LEMMA EnumeratesAlike ==
  ASSUME NEW S, NEW T, NEW s \in Seq(S), NEW t \in Seq(S), Len(s) = Len(t),
         \A k \in 1..Len(s) : s[k] \in T <=> t[k] \in T, NEW places, Enumerates(places, s, T)
  PROVE  Enumerates(places, t, T)
<1>1. \A i \in DOMAIN places : places[i] \in 1..Len(s)
  BY DEF Enumerates
<1> QED BY <1>1 DEF Enumerates

\* One call, as the vendor and as the builder have it.
SameCall(b, c) == b.id = c.id /\ b.name = c.name /\ b.body = c.body

\* The calls of the vendor's message and of the content, one by one.
Matched(pos, at, s, p) ==
  /\ Enumerates(pos, s, OfKinds(StreamPart!CallKinds)) /\ Enumerates(at, p, OfKinds({"call"}))
  /\ Len(pos) = Len(at)
  /\ \A r \in 1..Len(at) : SameCall(s[pos[r]], p[at[r]])

MatchedFacts(pos, at, s, p) ==
  /\ pos \in Seq(1..Len(s)) /\ at \in Seq(1..Len(p)) /\ Len(at) \in Nat /\ Len(pos) = Len(at)
  /\ DOMAIN pos = 1..Len(at) /\ DOMAIN at = 1..Len(at)
  /\ \A r \in 1..Len(at) :
       /\ pos[r] \in 1..Len(s) /\ at[r] \in 1..Len(p)
       /\ s[pos[r]] \in StreamPart!Block /\ s[pos[r]].kind \in StreamPart!CallKinds
       /\ p[at[r]] \in StreamPart!Block /\ p[at[r]].kind = "call"
       /\ SameCall(s[pos[r]], p[at[r]])
  /\ \A r, q \in 1..Len(at) : at[r] = at[q] \/ pos[r] = pos[q] => r = q

LEMMA MatchedTypes ==
  ASSUME NEW s \in Seq(StreamPart!Block), NEW p \in Seq(StreamPart!Block), NEW pos,
         NEW at, Matched(pos, at, s, p)
  PROVE  MatchedFacts(pos, at, s, p)
<1>1. /\ pos \in Seq(1..Len(s)) /\ at \in Seq(1..Len(p)) /\ Len(pos) = Len(at)
      /\ \A r \in DOMAIN pos : s[pos[r]] \in OfKinds(StreamPart!CallKinds)
      /\ \A r \in DOMAIN at : p[at[r]] \in OfKinds({"call"})
      /\ \A r, q \in DOMAIN pos : r < q => pos[r] < pos[q]
      /\ \A r, q \in DOMAIN at : r < q => at[r] < at[q]
  BY DEF Matched, Enumerates
<1>2. /\ Len(at) \in Nat /\ DOMAIN pos = 1..Len(at) /\ DOMAIN at = 1..Len(at)
      /\ \A r \in 1..Len(at) : pos[r] \in 1..Len(s) /\ at[r] \in 1..Len(p)
  BY <1>1
<1>3. \A r \in 1..Len(at) :
              /\ s[pos[r]] \in StreamPart!Block /\ s[pos[r]].kind \in StreamPart!CallKinds
              /\ p[at[r]] \in StreamPart!Block /\ p[at[r]].kind = "call"
  BY <1>1, <1>2 DEF OfKinds
<1>4. ASSUME NEW r \in 1..Len(at),
             NEW q \in 1..Len(at), r < q PROVE at[r] # at[q] /\ pos[r] # pos[q]
  <2>1. at[r] < at[q] /\ pos[r] < pos[q]
    BY <1>1, <1>2, <1>4
  <2>2. at[r] \in Nat /\ pos[r] \in Nat
    BY <1>2
  <2> QED BY <2>1, <2>2
<1>5. \A r, q \in 1..Len(at) : r < q \/ q < r \/ r = q
  BY <1>2
<1>6. \A r, q \in 1..Len(at) : at[r] = at[q] \/ pos[r] = pos[q] => r = q
  BY <1>4, <1>5
<1> QED BY <1>1, <1>2, <1>3, <1>6 DEF Matched, MatchedFacts

\* So their calls are the same.
LEMMA MatchedMeans ==
  ASSUME NEW s \in Seq(StreamPart!Block), NEW p \in Seq(StreamPart!Block), NEW pos,
         NEW at, Matched(pos, at, s, p)
  PROVE  /\ StreamPart!ToolCalls({"call"}, p) = StreamPart!ToolCalls(StreamPart!CallKinds, s)
         /\ Len(StreamPart!Of(StreamPart!CallKinds, s)) = Len(at)
<1>1. /\ DOMAIN pos = 1..Len(at) /\ DOMAIN at = 1..Len(at) /\ Len(at) \in Nat
      /\ \A r \in 1..Len(at) : SameCall(s[pos[r]], p[at[r]])
  <2>1. MatchedFacts(pos, at, s, p)
    BY MatchedTypes
  <2> QED BY <2>1 DEF MatchedFacts
<1> DEFINE b == StreamPart!Of(StreamPart!CallKinds, s)
           c == StreamPart!Of({"call"}, p)
<1>2. /\ b = [i \in DOMAIN pos |-> s[pos[i]]] /\ c = [i \in DOMAIN at |-> p[at[i]]]
      /\ b \in Seq(StreamPart!Block)
  <2>1. b = [i \in DOMAIN pos |-> s[pos[i]]]
    BY OfEnumerated, SMTT(30) DEF Matched
  <2>2. c = [i \in DOMAIN at |-> p[at[i]]]
    BY OfEnumerated, SMTT(30) DEF Matched
  <2> QED BY <2>1, <2>2, OfType
<1> HIDE DEF b, c
<1>3. DOMAIN b = DOMAIN c /\ \A i \in DOMAIN c : SameCall(b[i], c[i])
  BY <1>1, <1>2
<1>4. [i \in DOMAIN c |->
         StreamPart!CallBlock(c[i].id, c[i].name,
                              IF StreamPart!Decodes(c[i].body) THEN c[i].body ELSE <<>>)]
      = [i \in DOMAIN b |->
           StreamPart!CallBlock(b[i].id, b[i].name,
                                IF StreamPart!Decodes(b[i].body) THEN b[i].body ELSE <<>>)]
  BY <1>3 DEF SameCall
<1>5. Len(b) = Len(at)
  BY <1>1, <1>2
<1> QED BY <1>4, <1>5 DEF StreamPart!ToolCalls, b, c

\* The r-th call is the r-th.
LEMMA MatchedRank ==
  ASSUME NEW s \in Seq(StreamPart!Block), NEW p \in Seq(StreamPart!Block), NEW pos,
         NEW at, Matched(pos, at, s, p),
         NEW k \in 1..Len(s), s[k].kind \in StreamPart!CallKinds
  PROVE  \E r \in 1..Len(at) :
             pos[r] = k /\ Len(StreamPart!Of(StreamPart!CallKinds, SubSeq(s, 1, k))) = r
<1>1. s[k] \in OfKinds(StreamPart!CallKinds)
  BY DEF OfKinds
<1>2. PICK r \in DOMAIN pos : pos[r] = k
  BY <1>1 DEF Matched, Enumerates
<1>3. Len(Keep(SubSeq(s, 1, k), OfKinds(StreamPart!CallKinds))) = r
  <2>1. Len(Keep(SubSeq(s, 1, pos[r]), OfKinds(StreamPart!CallKinds))) = r
    BY EnumeratesUpTo DEF Matched
  <2> QED BY <1>2, <2>1
<1>4. SubSeq(s, 1, k) \in Seq(StreamPart!Block)
  OBVIOUS
<1>5. r \in 1..Len(at)
  BY <1>2, MatchedTypes DEF MatchedFacts
<1> QED BY <1>2, <1>3, <1>4, <1>5, OfIsKept

\* Other blocks make no difference to the calls.
LEMMA MatchedStays ==
  ASSUME NEW s \in Seq(StreamPart!Block), NEW p \in Seq(StreamPart!Block), NEW pos,
         NEW at, Matched(pos, at, s, p)
  PROVE  /\ \A e \in StreamPart!Block : e.kind \notin StreamPart!CallKinds =>
                Matched(pos, at, Append(s, e), p)
         /\ \A f \in StreamPart!Block : f.kind # "call" => Matched(pos, at, s, Append(p, f))
         /\ \A q \in Seq(StreamPart!Block) :
              /\ Len(q) = Len(p)
              /\ \A k \in 1..Len(p) : q[k] = p[k] \/ (q[k].kind # "call" /\ p[k].kind # "call")
              => Matched(pos, at, s, q)
<1>0. /\ DOMAIN pos = 1..Len(at) /\ DOMAIN at = 1..Len(at) /\ Len(at) \in Nat
      /\ \A r \in 1..Len(at) :
              /\ pos[r] \in 1..Len(s) /\ at[r] \in 1..Len(p) /\ p[at[r]].kind = "call"
              /\ SameCall(s[pos[r]], p[at[r]])
  BY MatchedTypes DEF MatchedFacts
<1>1. ASSUME NEW e \in StreamPart!Block, e.kind \notin StreamPart!CallKinds
      PROVE  Matched(pos, at, Append(s, e), p)
  <2>1. e \notin OfKinds(StreamPart!CallKinds)
    BY <1>1 DEF OfKinds
  <2>2. Enumerates(pos, Append(s, e), OfKinds(StreamPart!CallKinds))
    BY <2>1, EnumeratesMore DEF Matched
  <2>3. \A r \in 1..Len(at) : Append(s, e)[pos[r]] = s[pos[r]]
    BY <1>0
  <2> QED BY <1>0, <2>2, <2>3 DEF Matched
<1>2. ASSUME NEW f \in StreamPart!Block, f.kind # "call" PROVE Matched(pos, at, s, Append(p, f))
  <2>1. f \notin OfKinds({"call"})
    BY <1>2 DEF OfKinds
  <2>2. Enumerates(at, Append(p, f), OfKinds({"call"}))
    BY <2>1, EnumeratesMore DEF Matched
  <2>3. \A r \in 1..Len(at) : Append(p, f)[at[r]] = p[at[r]]
    BY <1>0
  <2> QED BY <1>0, <2>2, <2>3 DEF Matched
<1>3. ASSUME NEW q \in Seq(StreamPart!Block), Len(q) = Len(p),
             \A k \in 1..Len(p) : q[k] = p[k] \/ (q[k].kind # "call" /\ p[k].kind # "call")
      PROVE  Matched(pos, at, s, q)
  <2>1. \A k \in 1..Len(p) : p[k] \in OfKinds({"call"}) <=> q[k] \in OfKinds({"call"})
    BY <1>3 DEF OfKinds
  <2>2. Enumerates(at, q, OfKinds({"call"}))
    BY <1>3, <2>1, EnumeratesAlike DEF Matched
  <2>3. \A r \in 1..Len(at) : q[at[r]] = p[at[r]]
    BY <1>0, <1>3
  <2> QED BY <1>0, <2>2, <2>3 DEF Matched
<1> QED BY <1>1, <1>2, <1>3

\* A new call is the last of both.
LEMMA MatchedNew ==
  ASSUME NEW s \in Seq(StreamPart!Block), NEW p \in Seq(StreamPart!Block), NEW pos,
         NEW at, Matched(pos, at, s, p),
         NEW e \in StreamPart!Block, e.kind \in StreamPart!CallKinds,
         NEW f \in StreamPart!Block, f.kind = "call", SameCall(e, f)
  PROVE  Matched(Append(pos, Len(s) + 1), Append(at, Len(p) + 1), Append(s, e), Append(p, f))
<1> DEFINE pos2 == Append(pos, Len(s) + 1)
           at2 == Append(at, Len(p) + 1)
           s2 == Append(s, e)
           p2 == Append(p, f)
<1>0. /\ pos \in Seq(1..Len(s)) /\ at \in Seq(1..Len(p)) /\ Len(at) \in Nat /\ Len(pos) = Len(at)
      /\ \A r \in 1..Len(at) :
              /\ pos[r] \in 1..Len(s) /\ at[r] \in 1..Len(p)
              /\ SameCall(s[pos[r]], p[at[r]])
  BY MatchedTypes DEF MatchedFacts
<1>1. e \in OfKinds(StreamPart!CallKinds) /\ f \in OfKinds({"call"})
  BY DEF OfKinds
<1>2. Enumerates(pos2, s2, OfKinds(StreamPart!CallKinds)) /\ Enumerates(at2, p2, OfKinds({"call"}))
  BY <1>1, EnumeratesMore DEF Matched
<1>3. /\ Len(pos2) = Len(at) + 1 /\ Len(at2) = Len(at) + 1
      /\ pos2[Len(at) + 1] = Len(s) + 1 /\ at2[Len(at) + 1] = Len(p) + 1
      /\ \A r \in 1..Len(at) : pos2[r] = pos[r] /\ at2[r] = at[r]
  BY <1>0
<1>4. /\ s2[Len(s) + 1] = e /\ p2[Len(p) + 1] = f
      /\ \A k \in 1..Len(s) : s2[k] = s[k]
      /\ \A k \in 1..Len(p) : p2[k] = p[k]
  OBVIOUS
<1> HIDE DEF pos2, at2, s2, p2
<1>5. \A r \in 1..(Len(at) + 1) : r = Len(at) + 1 \/ r \in 1..Len(at)
  BY <1>0
<1>6. \A r \in 1..Len(at2) : SameCall(s2[pos2[r]], p2[at2[r]])
  <2> SUFFICES ASSUME NEW r \in 1..(Len(at) + 1) PROVE SameCall(s2[pos2[r]], p2[at2[r]])
    BY <1>3
  <2>1. CASE r = Len(at) + 1
    BY <1>3, <1>4, <2>1
  <2>2. CASE r \in 1..Len(at)
    <3>1. s2[pos2[r]] = s[pos[r]] /\ p2[at2[r]] = p[at[r]]
      BY <1>0, <1>3, <1>4, <2>2
    <3> QED BY <1>0, <2>2, <3>1
  <2> QED BY <1>5, <2>1, <2>2
<1>7. Matched(pos2, at2, s2, p2)
  BY <1>2, <1>3, <1>6 DEF Matched
<1> QED BY <1>7 DEF pos2, at2, s2, p2

\* More of one of them is more of that one.
LEMMA MatchedMore ==
  ASSUME NEW s \in Seq(StreamPart!Block), NEW p \in Seq(StreamPart!Block), NEW pos,
         NEW at, Matched(pos, at, s, p),
         NEW r \in 1..Len(at),
         NEW e \in StreamPart!Block, e.kind = s[pos[r]].kind,
         NEW f \in StreamPart!Block, f.kind = "call", SameCall(e, f)
  PROVE  Matched(pos, at, [s EXCEPT ![pos[r]] = e], [p EXCEPT ![at[r]] = f])
<1> DEFINE s2 == [s EXCEPT ![pos[r]] = e]
           p2 == [p EXCEPT ![at[r]] = f]
<1>0. /\ Len(at) \in Nat /\ Len(pos) = Len(at)
      /\ \A k \in 1..Len(at) :
              /\ pos[k] \in 1..Len(s) /\ at[k] \in 1..Len(p)
              /\ s[pos[k]] \in StreamPart!Block /\ s[pos[k]].kind \in StreamPart!CallKinds
              /\ p[at[k]] \in StreamPart!Block /\ p[at[k]].kind = "call"
              /\ SameCall(s[pos[k]], p[at[k]])
      /\ \A k, q \in 1..Len(at) : at[k] = at[q] \/ pos[k] = pos[q] => k = q
  BY MatchedTypes DEF MatchedFacts
<1>1. /\ s2 \in Seq(StreamPart!Block) /\ Len(s2) = Len(s) /\ s2[pos[r]] = e
      /\ p2 \in Seq(StreamPart!Block) /\ Len(p2) = Len(p) /\ p2[at[r]] = f
      /\ \A k \in 1..Len(s) : k # pos[r] => s2[k] = s[k]
      /\ \A k \in 1..Len(p) : k # at[r] => p2[k] = p[k]
  BY <1>0
<1> HIDE DEF s2, p2
<1>2. \A k \in 1..Len(s) :
        s[k] \in OfKinds(StreamPart!CallKinds) <=> s2[k] \in OfKinds(StreamPart!CallKinds)
  BY <1>0, <1>1 DEF OfKinds
<1>3. \A k \in 1..Len(p) : p[k] \in OfKinds({"call"}) <=> p2[k] \in OfKinds({"call"})
  BY <1>0, <1>1 DEF OfKinds
<1>4. Enumerates(pos, s2, OfKinds(StreamPart!CallKinds)) /\ Enumerates(at, p2, OfKinds({"call"}))
  BY <1>1, <1>2, <1>3, EnumeratesAlike DEF Matched
<1>5. \A k \in 1..Len(at) : SameCall(s2[pos[k]], p2[at[k]])
  BY <1>0, <1>1
<1>6. Matched(pos, at, s2, p2)
  BY <1>0, <1>4, <1>5 DEF Matched
<1> QED BY <1>6 DEF s2, p2

-----------------------------------------------------------------------------
\* A consumer has the content, but for thinking of which there is no text yet.
Seen(v, p) ==
  /\ \A k \in 1..Len(p) :
         v[k] = p[k] \/ (p[k] = StreamPart!TextBlock("thinking", <<>>) /\ v[k] = StreamPart!NoBlock)
  /\ \A k \in 1..MaxChunks : Len(p) < k => v[k] = StreamPart!NoBlock

Views == [1..MaxChunks -> StreamPart!Block]

LEMMA ViewIsContent ==
  ASSUME MaxChunks \in Nat, NEW v \in Views
  PROVE  v \in Seq(StreamPart!Block) /\ Len(v) = MaxChunks
BY DEF Views

LEMMA OfSeen ==
  ASSUME MaxChunks \in Nat, NEW v \in Views,
         NEW p \in Seq(StreamPart!Block), Len(p) <= MaxChunks, Seen(v, p),
         NEW kinds, "none" \notin kinds, "thinking" \notin kinds
  PROVE  StreamPart!Of(kinds, v) = StreamPart!Of(kinds, p)
<1> DEFINE T == OfKinds(kinds)
<1>1. v \in Seq(StreamPart!Block) /\ Len(v) = MaxChunks /\ Len(p) \in Nat
  BY ViewIsContent
<1>2. PICK places : Enumerates(places, p, T)
  BY EnumerationExists
<1>3. \A k \in 1..Len(p) : p[k] \in T => v[k] = p[k]
  BY DEF OfKinds, StreamPart!TextBlock, Seen
<1>4. \A k \in 1..Len(v) : v[k] \in T => k \in 1..Len(p) /\ v[k] = p[k]
  <2> SUFFICES ASSUME NEW k \in 1..Len(v), v[k] \in T PROVE k \in 1..Len(p) /\ v[k] = p[k]
    OBVIOUS
  <2>1. v[k] # StreamPart!NoBlock
    BY DEF OfKinds, StreamPart!NoBlock, StreamPart!TextBlock
  <2>2. k \in 1..Len(p)
    BY <1>1, <2>1 DEF Seen
  <2> QED BY <2>1, <2>2 DEF Seen
<1>5. places \in Seq(1..Len(p)) /\ DOMAIN places = 1..Len(places) /\ Len(places) \in Nat
      /\ \A i \in DOMAIN places : places[i] \in 1..Len(p) /\ p[places[i]] \in T
  BY <1>2 DEF Enumerates
<1> HIDE DEF T
<1>6. \A i \in DOMAIN places : places[i] \in 1..Len(v) /\ v[places[i]] = p[places[i]]
  BY <1>1, <1>3, <1>5
<1>7. places \in Seq(1..Len(v))
  <2> DEFINE R == 1..Len(v)
  <2>1. \A i \in 1..Len(places) : places[i] \in R
    BY <1>5, <1>6
  <2>2. places = [i \in 1..Len(places) |-> places[i]]
    BY <1>5
  <2> HIDE DEF R
  <2>3. [i \in 1..Len(places) |-> places[i]] \in Seq(R)
    BY <1>5, <2>1
  <2> QED BY <2>2, <2>3 DEF R
<1>8. Enumerates(places, v, T)
  BY <1>2, <1>4, <1>5, <1>6, <1>7 DEF Enumerates
<1>9. /\ StreamPart!Of(kinds, p) = [i \in DOMAIN places |-> p[places[i]]]
      /\ StreamPart!Of(kinds, v) = [i \in DOMAIN places |-> v[places[i]]]
  BY <1>1, <1>2, <1>8, OfEnumerated DEF T
<1> QED BY <1>6, <1>9

LEMMA ThinkingSeen ==
  ASSUME MaxChunks \in Nat, NEW v \in Views,
         NEW p \in Seq(StreamPart!Block), Len(p) <= MaxChunks, Seen(v, p),
         NEW at, NEW s, Written("thinking", at, s, p)
  PROVE  StreamPart!Text("thinking", v) = StreamPart!Text("thinking", s)
<1>1. v \in Seq(StreamPart!Block) /\ Len(v) = MaxChunks /\ Len(p) \in Nat /\ at \in 0..Len(p)
  BY ViewIsContent DEF Written
<1>2. StreamPart!NoBlock.kind = "none" /\ StreamPart!TextBlock("thinking", <<>>).body = <<>>
  BY DEF StreamPart!NoBlock, StreamPart!TextBlock
<1>3. CASE at = 0 \/ v[at] = p[at]
  <2>1. \A k \in 1..Len(v) : v[k].kind = "thinking" <=> k = at
    BY <1>1, <1>2, <1>3 DEF Seen, Written
  <2>2. at \in 0..Len(v)
    BY <1>1
  <2>3. StreamPart!Text("thinking", v) = IF at = 0 THEN <<>> ELSE v[at].body
    BY <1>1, <2>1, <2>2, TextOfOne
  <2> QED BY <1>3, <2>3 DEF Written
<1>4. CASE at # 0 /\ v[at] # p[at]
  <2>1. p[at] = StreamPart!TextBlock("thinking", <<>>) /\ v[at] = StreamPart!NoBlock
    BY <1>1, <1>4 DEF Seen
  <2> DEFINE none == 0
  <2>2. \A k \in 1..Len(v) : v[k].kind = "thinking" <=> k = none
    BY <1>1, <1>2, <1>4, <2>1 DEF Seen, Written
  <2>3. none \in 0..Len(v)
    BY <1>1
  <2> HIDE DEF none
  <2>4. StreamPart!Text("thinking", v) = IF none = 0 THEN <<>> ELSE v[none].body
    BY <1>1, <2>2, <2>3, TextOfOne
  <2> QED BY <1>2, <1>4, <2>1, <2>4 DEF Written, none
<1> QED BY <1>3, <1>4

\* A block that comes, and one that changes.
LEMMA SeenNew ==
  ASSUME MaxChunks \in Nat, NEW v \in Views,
         NEW p \in Seq(StreamPart!Block), Len(p) < MaxChunks, Seen(v, p),
         NEW f \in StreamPart!Block
  PROVE  /\ Seen([v EXCEPT ![Len(p) + 1] = f], Append(p, f))
         /\ f = StreamPart!TextBlock("thinking", <<>>) => Seen(v, Append(p, f))
         /\ [v EXCEPT ![Len(p) + 1] = f] \in Views
         /\ v[Len(p) + 1] = StreamPart!NoBlock
<1> DEFINE q == Append(p, f)
           w == [v EXCEPT ![Len(p) + 1] = f]
<1>1. /\ Len(p) \in Nat /\ Len(q) = Len(p) + 1 /\ q[Len(p) + 1] = f
      /\ \A k \in 1..Len(p) : q[k] = p[k]
      /\ Len(p) + 1 \in 1..MaxChunks
  OBVIOUS
<1>2. /\ w \in Views /\ w[Len(p) + 1] = f
      /\ \A k \in 1..MaxChunks : k # Len(p) + 1 => w[k] = v[k]
  BY <1>1 DEF Views
<1> HIDE DEF q, w
<1>3. \A k \in 1..Len(q) :
          k = Len(p) + 1 \/ (k \in 1..Len(p) /\ k \in 1..MaxChunks /\ k # Len(p) + 1)
  BY <1>1
<1>4. Seen(w, q)
  BY <1>1, <1>2, <1>3 DEF Seen
<1>5. v[Len(p) + 1] = StreamPart!NoBlock
  BY <1>1 DEF Seen
<1>6. f = StreamPart!TextBlock("thinking", <<>>) => Seen(v, q)
  BY <1>1, <1>3, <1>5 DEF Seen
<1> QED BY <1>2, <1>4, <1>5, <1>6 DEF q, w

LEMMA SeenMore ==
  ASSUME MaxChunks \in Nat, NEW v \in Views,
         NEW p \in Seq(StreamPart!Block), Len(p) <= MaxChunks, Seen(v, p),
         NEW a \in 1..Len(p), NEW f \in StreamPart!Block
  PROVE  Seen([v EXCEPT ![a] = f], [p EXCEPT ![a] = f]) /\ [v EXCEPT ![a] = f] \in Views
<1>1. Len(p) \in Nat /\ a \in 1..MaxChunks /\ DOMAIN p = 1..Len(p)
  OBVIOUS
<1> DEFINE q == [p EXCEPT ![a] = f]
           w == [v EXCEPT ![a] = f]
<1>2. /\ Len(q) = Len(p) /\ q[a] = f /\ w[a] = f /\ w \in Views
      /\ \A k \in 1..Len(p) : k # a => q[k] = p[k]
      /\ \A k \in 1..MaxChunks : k # a => w[k] = v[k]
  BY <1>1 DEF Views
<1> HIDE DEF q, w
<1>3. \A k \in 1..Len(p) : k \in 1..MaxChunks
  BY <1>1
<1>4. Seen(w, q)
  BY <1>1, <1>2, <1>3 DEF Seen
<1> QED BY <1>2, <1>4 DEF q, w

-----------------------------------------------------------------------------
\* What a consumer makes of the deltas.
LEMMA AbsorbNew ==
  ASSUME MaxChunks \in Nat, NEW v \in Views, NEW a \in 1..MaxChunks, v[a] = StreamPart!NoBlock,
         NEW kind, NEW i, NEW n, NEW d \in Pieces
  PROVE  StreamPart!Absorb(v, StreamPart!Delta(kind, a, i, n, d)) =
           [v EXCEPT ![a] = [kind |-> kind, id |-> i, name |-> n, body |-> d]]
<1>1. <<>> \o d = d
  BY DEF Pieces
<1> DEFINE ev == StreamPart!Delta(kind, a, i, n, d)
<1>2. ev.kind = kind /\ ev.at = a /\ ev.id = i /\ ev.name = n /\ ev.delta = d
  BY DEF StreamPart!Delta
<1>3. v[a].id = NoId /\ v[a].name = NoId /\ v[a].body = <<>>
  BY DEF StreamPart!NoBlock, StreamPart!TextBlock
<1>4. v[a].body \o d = d
  BY <1>1, <1>3
<1> HIDE DEF ev
<1>5. [kind |-> ev.kind,
       id |-> IF v[a].id = NoId THEN ev.id ELSE v[a].id,
       name |-> IF v[a].name = NoId THEN ev.name ELSE v[a].name,
       body |-> v[a].body \o ev.delta] = [kind |-> kind, id |-> i, name |-> n, body |-> d]
  BY <1>2, <1>3, <1>4
<1>6. StreamPart!Absorb(v, ev) = [v EXCEPT ![a] = [kind |-> kind, id |-> i, name |-> n, body |-> d]]
  BY <1>2, <1>5 DEF StreamPart!Absorb
<1> QED BY <1>6 DEF ev

LEMMA AbsorbCall ==
  ASSUME MaxChunks \in Nat, NEW v \in Views, NEW a \in 1..MaxChunks, v[a] = StreamPart!NoBlock,
         NEW i \in Nat \cup {NoId}, NEW n \in Names \cup {NoId}, NEW d \in Pieces
  PROVE  /\ StreamPart!Absorb(v, StreamPart!Delta("call", a, i, n, <<>>)) =
                [v EXCEPT ![a] = StreamPart!CallBlock(i, n, <<>>)]
         /\ StreamPart!Absorb(StreamPart!Absorb(v, StreamPart!Delta("call", a, i, n, <<>>)),
                             StreamPart!Delta("call", a, i, n, d)) =
              [v EXCEPT ![a] = StreamPart!CallBlock(i, n, d)]
<1> DEFINE w == [v EXCEPT ![a] = StreamPart!CallBlock(i, n, <<>>)]
<1>1. <<>> \in Pieces /\ <<>> \o d = d
  BY DEF Pieces
<1>2. StreamPart!Absorb(v, StreamPart!Delta("call", a, i, n, <<>>)) = w
  BY <1>1, AbsorbNew DEF StreamPart!CallBlock
<1>3. StreamPart!CallBlock(i, n, <<>>) \in StreamPart!Block
  BY <1>1 DEF StreamPart!CallBlock, StreamPart!Block, Pieces
<1>4. w \in Views /\ w[a] = StreamPart!CallBlock(i, n, <<>>)
  BY <1>3 DEF Views
<1>5. /\ w[a].kind = "call" /\ w[a].id = i /\ w[a].name = n /\ w[a].body = <<>>
  BY <1>4 DEF StreamPart!CallBlock
<1>6. [w EXCEPT ![a] = StreamPart!CallBlock(i, n, d)] =
          [v EXCEPT ![a] = StreamPart!CallBlock(i, n, d)]
  BY DEF Views
<1> HIDE DEF w
<1>7. StreamPart!Absorb(w, StreamPart!Delta("call", a, i, n, d)) =
        [w EXCEPT ![a] = [kind |-> "call", id |-> i, name |-> n, body |-> <<>> \o d]]
  <2>1. StreamPart!Absorb(w, StreamPart!Delta("call", a, i, n, d)) =
          [w EXCEPT ![a] = [kind |-> "call", id |-> w[a].id, name |-> w[a].name,
                            body |-> w[a].body \o d]]
    BY <1>4, <1>5 DEF StreamPart!Absorb, StreamPart!Delta
  <2> QED BY <1>5, <2>1
<1>8. StreamPart!Absorb(w, StreamPart!Delta("call", a, i, n, d)) =
          [w EXCEPT ![a] = StreamPart!CallBlock(i, n, d)]
  BY <1>1, <1>7 DEF StreamPart!CallBlock
<1> QED BY <1>2, <1>6, <1>8 DEF w

LEMMA AbsorbEvents ==
  ASSUME NEW v
  PROVE  /\ StreamPart!AbsorbAll(v, <<>>) = v
         /\ \A x : StreamPart!AbsorbAll(v, <<x>>) = StreamPart!Absorb(v, x)
         /\ \A x, y :
                StreamPart!AbsorbAll(v, <<x, y>>) = StreamPart!Absorb(StreamPart!Absorb(v, x), y)
<1>1. StreamPart!AbsorbAll(v, <<>>) = v
  BY DEF StreamPart!AbsorbAll
<1>2. ASSUME NEW x PROVE StreamPart!AbsorbAll(v, <<x>>) = StreamPart!Absorb(v, x)
  BY DEF StreamPart!AbsorbAll
<1>3. ASSUME NEW x,
             NEW y PROVE StreamPart!AbsorbAll(v, <<x, y>>) =
                 StreamPart!Absorb(StreamPart!Absorb(v, x), y)
  BY DEF StreamPart!AbsorbAll
<1> QED BY <1>1, <1>2, <1>3

-----------------------------------------------------------------------------
\* The indexes of the calls: openai's own, and the keys; an id is of one call.
Keyed(a, at, p, c, keys, idx) ==
  /\ idx = IF a = "openai" THEN {<<r, at[r]>> : r \in 1..Len(at)} ELSE {}
  /\ \A q \in keys : \E r \in 1..Len(at) :
       q[2] = at[r] /\ q[1] \in StreamPart!Key(p[at[r]].id, p[at[r]].name, at[r])
  /\ \A r \in 1..Len(at) :
       /\ p[at[r]].id # NoId => p[at[r]].id \in 1..c /\ <<<<p[at[r]].id, 0>>, at[r]>> \in keys
       /\ a = "anthropic" => p[at[r]].id # NoId
       /\ p[at[r]].name \in Names /\ at[r] \in Nat \ {0}
  /\ \A r, q \in 1..Len(at) : p[at[r]].id = p[at[q]].id /\ p[at[r]].id # NoId => r = q

\* The names and the numbers of keys are not mixed up.
LEMMA KeysDiffer ==
  ASSUME StreamPart!StreamAssumption
  PROVE  /\ \A n \in Names, i \in Nat : <<n, 0>> # <<i, 0>>
         /\ \A x, m \in Names, i \in Nat, a \in Nat \ {0} :
                <<x, 0>> # <<m, a>> /\ <<i, 0>> # <<m, a>>
         /\ \A i, j : <<i, 0>> = <<j, 0>> => i = j
BY DEF StreamPart!StreamAssumption

\* A call that is new is not found.
LEMMA LookupNew ==
  ASSUME StreamPart!StreamAssumption, NEW at, NEW p,
         NEW c, Keyed(adapter, at, p, c, byKey, byIndex),
         NEW index \in Nat, index \notin 1..Len(at), NEW n \in Names,
         NEW i \in Nat \cup {NoId}, i \notin 1..c, i = NoId => index = 0
  PROVE  StreamPart!Lookup(index, i, n) = {}
<1>1. {q \in byIndex : q[1] = index} = {}
  <2>1. \A q \in byIndex : \E r \in 1..Len(at) : q = <<r, at[r]>>
    BY DEF Keyed
  <2>2. \A q \in byIndex : q[1] \in 1..Len(at)
    BY <2>1
  <2> QED BY <2>2
<1>2. ASSUME NEW q \in byKey PROVE q[1] \notin StreamPart!Key(i, n, index)
  <2>1. PICK r \in 1..Len(at) : q[1] \in StreamPart!Key(p[at[r]].id, p[at[r]].name, at[r])
    BY DEF Keyed
  <2>2. /\ p[at[r]].id # NoId => p[at[r]].id \in 1..c
        /\ p[at[r]].name \in Names /\ at[r] \in Nat \ {0}
    BY DEF Keyed
  <2>3. CASE p[at[r]].id # NoId
    <3>1. q[1] = <<p[at[r]].id, 0>> /\ p[at[r]].id \in Nat /\ p[at[r]].id # i
      BY <2>1, <2>2, <2>3 DEF StreamPart!Key
    <3>2. i = NoId => StreamPart!Key(i, n, index) \subseteq {<<n, 0>>}
      BY DEF StreamPart!Key
    <3>3. i # NoId => i \in Nat /\ StreamPart!Key(i, n, index) = {<<i, 0>>}
      BY DEF StreamPart!Key
    <3> QED BY <3>1, <3>2, <3>3, KeysDiffer
  <2>4. CASE p[at[r]].id = NoId
    <3>1. q[1] = <<p[at[r]].name, at[r]>>
      BY <2>1, <2>4 DEF StreamPart!Key
    <3>2. i = NoId => StreamPart!Key(i, n, index) \subseteq {<<n, 0>>}
      BY DEF StreamPart!Key
    <3>3. i # NoId => i \in Nat /\ StreamPart!Key(i, n, index) = {<<i, 0>>}
      BY DEF StreamPart!Key
    <3> QED BY <2>2, <3>1, <3>2, <3>3, KeysDiffer
  <2> QED BY <2>3, <2>4
<1> QED BY <1>1, <1>2 DEF StreamPart!Lookup

\* A call is found by its id, where the vendor has no index for it.
LEMMA LookupId ==
  ASSUME StreamPart!StreamAssumption, NEW at, NEW p,
         NEW c \in Nat, Keyed(adapter, at, p, c, byKey, byIndex)
  PROVE  \A n : \A r \in 1..Len(at) :
           p[at[r]].id # NoId => StreamPart!Lookup(0, p[at[r]].id, n) = {at[r]}
<1> SUFFICES ASSUME NEW n, NEW r \in 1..Len(at), p[at[r]].id # NoId
             PROVE  StreamPart!Lookup(0, p[at[r]].id, n) = {at[r]}
  OBVIOUS
<1> DEFINE i == p[at[r]].id
<1>1. {q \in byIndex : q[1] = 0} = {}
  <2>1. \A q \in byIndex : \E k \in 1..Len(at) : q = <<k, at[k]>>
    BY DEF Keyed
  <2>2. \A q \in byIndex : q[1] \in 1..Len(at)
    BY <2>1
  <2> QED BY <2>2
<1>2. StreamPart!Key(i, n, 0) = {<<i, 0>>} /\ i \in Nat /\ <<<<i, 0>>, at[r]>> \in byKey
  BY DEF StreamPart!Key, Keyed
<1>3. ASSUME NEW q \in byKey, q[1] = <<i, 0>> PROVE q[2] = at[r]
  <2>1. PICK k \in 1..Len(at) :
                 q[2] = at[k] /\ q[1] \in StreamPart!Key(p[at[k]].id, p[at[k]].name, at[k])
    BY DEF Keyed
  <2>2. /\ p[at[k]].id # NoId => p[at[k]].id \in 1..c
        /\ p[at[k]].name \in Names /\ at[k] \in Nat \ {0}
    BY DEF Keyed
  <2>3. CASE p[at[k]].id = NoId
    <3>1. q[1] = <<p[at[k]].name, at[k]>>
      BY <2>1, <2>3 DEF StreamPart!Key
    <3> QED BY <1>2, <1>3, <2>2, <3>1, KeysDiffer
  <2>4. CASE p[at[k]].id # NoId
    <3>1. q[1] = <<p[at[k]].id, 0>> /\ p[at[k]].id \in Nat
      BY <2>1, <2>2, <2>4 DEF StreamPart!Key
    <3>2. p[at[k]].id = i
      BY <1>3, <3>1
    <3>3. k = r
      BY <2>4, <3>2 DEF Keyed
    <3> QED BY <2>1, <3>3
  <2> QED BY <2>3, <2>4
<1> HIDE DEF i
<1>4. {q[2] : q \in {x \in byKey : x[1] \in StreamPart!Key(i, n, 0)}} = {at[r]}
  <2>1. \A q \in byKey : q[1] \in StreamPart!Key(i, n, 0) => q[2] = at[r]
    BY <1>2, <1>3
  <2> DEFINE it == <<<<i, 0>>, at[r]>>
  <2>2. it \in byKey /\ it[1] \in StreamPart!Key(i, n, 0) /\ it[2] = at[r]
    BY <1>2
  <2> HIDE DEF it
  <2> QED BY <2>1, <2>2
<1> QED BY <1>1, <1>4 DEF StreamPart!Lookup, i

\* And by the vendor's index.
LEMMA LookupIndex ==
  ASSUME NEW at, NEW p, NEW c, Keyed(adapter, at, p, c, byKey, byIndex), adapter = "openai",
         NEW r \in 1..Len(at), NEW i, NEW n
  PROVE  StreamPart!Lookup(r, i, n) = {at[r]}
<1>1. byIndex = {<<k, at[k]>> : k \in 1..Len(at)}
  BY DEF Keyed
<1>2. {q \in byIndex : q[1] = r} = {<<r, at[r]>>}
  BY <1>1
<1>3. StreamPart!Lookup(r, i, n) = {q[2] : q \in {<<r, at[r]>>}}
  <2>1. {q \in byIndex : q[1] = r} # {}
    BY <1>2
  <2> QED BY <1>2, <2>1 DEF StreamPart!Lookup
<1> QED BY <1>3

\* What the keys are of is the calls' ids and names.
LEMMA KeyedAlike ==
  ASSUME NEW a, NEW at, NEW p, NEW c \in Nat, NEW keys, NEW idx, Keyed(a, at, p, c, keys, idx),
         NEW q, NEW e \in Nat, c <= e,
         \A r \in 1..Len(at) : q[at[r]].id = p[at[r]].id /\ q[at[r]].name = p[at[r]].name
  PROVE  Keyed(a, at, q, e, keys, idx)
<1>1. \A r \in 1..Len(at) :
        StreamPart!Key(q[at[r]].id, q[at[r]].name, at[r]) =
            StreamPart!Key(p[at[r]].id, p[at[r]].name, at[r])
  BY DEF StreamPart!Key
<1>2. \A j \in 1..c : j \in 1..e
  OBVIOUS
<1> QED BY <1>1, <1>2 DEF Keyed

LEMMA KeyedMore ==
  ASSUME NEW a, NEW at, NEW p, NEW c, NEW keys, NEW idx, Keyed(a, at, p, c, keys, idx),
         NEW r \in 1..Len(at)
  PROVE  Keyed(a, at, p, c,
               keys \cup (StreamPart!Key(p[at[r]].id, p[at[r]].name, at[r]) \X {at[r]}), idx)
<1> DEFINE new == StreamPart!Key(p[at[r]].id, p[at[r]].name, at[r]) \X {at[r]}
<1>1. \A q \in new : q[2] = at[r] /\ q[1] \in StreamPart!Key(p[at[r]].id, p[at[r]].name, at[r])
  OBVIOUS
<1> HIDE DEF new
<1>2. Keyed(a, at, p, c, keys \cup new, idx)
  BY <1>1 DEF Keyed
<1> QED BY <1>2 DEF new

LEMMA KeyedNew ==
  ASSUME StreamPart!StreamAssumption, NEW a, NEW p \in Seq(StreamPart!Block),
         NEW at \in Seq(1..Len(p)), NEW c \in Nat,
         NEW keys, NEW idx, Keyed(a, at, p, c, keys, idx),
         NEW i \in {c + 1, NoId}, a = "anthropic" => i # NoId, NEW n \in Names, NEW d \in Pieces
  PROVE  Keyed(a, Append(at, Len(p) + 1), Append(p, StreamPart!CallBlock(i, n, d)), c + 1,
               keys \cup (StreamPart!Key(i, n, Len(p) + 1) \X {Len(p) + 1}),
               IF a = "openai" THEN idx \cup {<<Len(at) + 1, Len(p) + 1>>} ELSE idx)
<1> DEFINE f == StreamPart!CallBlock(i, n, d)
           p2 == Append(p, f)
           m == Len(p) + 1
           at2 == Append(at, m)
           l == Len(at) + 1
           keys2 == keys \cup (StreamPart!Key(i, n, m) \X {m})
           idx2 == IF a = "openai" THEN idx \cup {<<l, m>>} ELSE idx
<1>1. f.id = i /\ f.name = n
  BY DEF StreamPart!CallBlock
<1>2. f \in StreamPart!Block
  BY DEF StreamPart!CallBlock, StreamPart!Block, Pieces
<1> HIDE DEF f
<1>3. /\ p2[m] = f /\ m \in Nat \ {0} /\ \A k \in 1..Len(p) : p2[k] = p[k]
      /\ Len(at) \in Nat /\ Len(at2) = l /\ l \in Nat /\ at2[l] = m
      /\ \A r \in 1..Len(at) : at2[r] = at[r] /\ at[r] \in 1..Len(p)
      /\ \A r \in 1..l : r = l \/ (r \in 1..Len(at) /\ r # l)
      /\ \A r \in 1..Len(at) : r \in 1..l
      /\ l \in 1..l
  BY <1>2
<1>4. i # NoId => i = c + 1 /\ i \notin 1..c /\ i \in 1..(c + 1)
  OBVIOUS
<1>5. /\ \A q \in keys2 : q \in keys \/ (q[2] = m /\ q[1] \in StreamPart!Key(i, n, m))
      /\ \A q \in keys : q \in keys2
      /\ i # NoId => <<<<i, 0>>, m>> \in keys2
  BY DEF StreamPart!Key
<1>6. \A r \in 1..Len(at) :
        /\ p[at[r]].id # NoId => p[at[r]].id \in 1..c /\ <<<<p[at[r]].id, 0>>, at[r]>> \in keys
        /\ a = "anthropic" => p[at[r]].id # NoId
        /\ p[at[r]].name \in Names /\ at[r] \in Nat \ {0}
  BY DEF Keyed
<1>7. idx2 = IF a = "openai" THEN {<<r, at2[r]>> : r \in 1..Len(at2)} ELSE {}
  <2>1. idx = IF a = "openai" THEN {<<r, at[r]>> : r \in 1..Len(at)} ELSE {}
    BY DEF Keyed
  <2> HIDE DEF l, m, at2
  <2>2. {<<r, at[r]>> : r \in 1..Len(at)} \cup {<<l, m>>} = {<<r, at2[r]>> : r \in 1..l}
    <3>1. ASSUME NEW r \in 1..l
          PROVE  <<r, at2[r]>> \in {<<k, at[k]>> : k \in 1..Len(at)} \cup {<<l, m>>}
      BY <1>3
    <3>2. \A r \in 1..Len(at) : <<r, at[r]>> \in {<<k, at2[k]>> : k \in 1..l}
      BY <1>3
    <3>3. <<l, m>> \in {<<k, at2[k]>> : k \in 1..l}
      BY <1>3
    <3> QED BY <3>1, <3>2, <3>3
  <2> QED BY <1>3, <2>1, <2>2
<1> HIDE DEF p2, m, at2, l, keys2, idx2
<1>8. \A r \in 1..Len(at) : p2[at2[r]] = p[at[r]]
  BY <1>3
<1>9. p2[at2[l]] = f
  BY <1>3
<1>10. ASSUME NEW q \in keys2
       PROVE  \E r \in 1..l :
                  q[2] = at2[r] /\ q[1] \in StreamPart!Key(p2[at2[r]].id, p2[at2[r]].name, at2[r])
  <2>1. CASE q \in keys
    <3>1. PICK r \in 1..Len(at) :
                   q[2] = at[r] /\ q[1] \in StreamPart!Key(p[at[r]].id, p[at[r]].name, at[r])
      BY <2>1 DEF Keyed
    <3> QED BY <1>3, <1>8, <3>1
  <2>2. CASE q[2] = m /\ q[1] \in StreamPart!Key(i, n, m)
    BY <1>1, <1>3, <1>9, <2>2
  <2> QED BY <1>5, <2>1, <2>2
<1>11. ASSUME NEW r \in 1..l
       PROVE  /\ p2[at2[r]].id # NoId =>
                   p2[at2[r]].id \in 1..(c + 1) /\ <<<<p2[at2[r]].id, 0>>, at2[r]>> \in keys2
              /\ a = "anthropic" => p2[at2[r]].id # NoId
              /\ p2[at2[r]].name \in Names /\ at2[r] \in Nat \ {0}
  <2>1. CASE r = l
    BY <1>1, <1>3, <1>4, <1>5, <1>9, <2>1
  <2>2. CASE r \in 1..Len(at)
    <3>1. \A j \in 1..c : j \in 1..(c + 1)
      OBVIOUS
    <3>2. at2[r] = at[r] /\ p2[at2[r]] = p[at[r]]
      BY <1>3, <1>8, <2>2
    <3>3. p[at[r]].id # NoId =>
              p[at[r]].id \in 1..(c + 1) /\ <<<<p[at[r]].id, 0>>, at[r]>> \in keys2
      <4>1. p[at[r]].id # NoId => p[at[r]].id \in 1..c /\ <<<<p[at[r]].id, 0>>, at[r]>> \in keys
        BY <1>6, <2>2
      <4> QED BY <1>5, <3>1, <4>1
    <3>4. /\ a = "anthropic" => p[at[r]].id # NoId
          /\ p[at[r]].name \in Names /\ at[r] \in Nat \ {0}
      BY <1>6, <2>2
    <3> QED BY <3>2, <3>3, <3>4
  <2> QED BY <1>3, <2>1, <2>2
<1>12. ASSUME NEW r \in 1..l, NEW q \in 1..l, p2[at2[r]].id = p2[at2[q]].id, p2[at2[r]].id # NoId
       PROVE  r = q
  <2>1. ASSUME NEW j \in 1..Len(at), p2[at2[j]].id = i PROVE i = NoId
    <3>1. p[at[j]].id = i
      BY <1>8, <2>1
    <3>2. i # NoId => i \in 1..c
      BY <1>6, <3>1
    <3> QED BY <1>4, <3>2
  <2>2. CASE r = l \/ q = l
    <3>1. CASE r = l
      BY <1>1, <1>3, <1>9, <1>12, <2>1, <3>1
    <3>2. CASE q = l
      BY <1>1, <1>3, <1>9, <1>12, <2>1, <3>2
    <3> QED BY <2>2, <3>1, <3>2
  <2>3. CASE r # l /\ q # l
    <3>1. r \in 1..Len(at) /\ q \in 1..Len(at)
      BY <1>3, <2>3
    <3> QED BY <1>8, <1>12, <3>1 DEF Keyed
  <2> QED BY <2>2, <2>3
<1>13. Keyed(a, at2, p2, c + 1, keys2, idx2)
  BY <1>3, <1>7, <1>10, <1>11, <1>12 DEF Keyed
<1> QED BY <1>13 DEF p2, m, at2, l, keys2, idx2, f

-----------------------------------------------------------------------------
\* The builder has the calls, and keys for them.  Where gemini streams arguments it may
\* have others, but its keys are keys of calls.
Found(a, c, s, p, keys, idx) ==
  IF a = "gemini_streaming"
  THEN idx = {} /\ \A q \in keys : q[2] \in 1..Len(p) /\ p[q[2]].kind = "call"
  ELSE \E pos, at : Matched(pos, at, s, p) /\ Keyed(a, at, p, c, keys, idx)

\* What the vendor said, what the builder has of it, and what a consumer has.
Core(a, c, s, p, v, x, y, keys, idx) ==
  /\ s \in Seq(StreamPart!Block) /\ p \in Seq(StreamPart!Block) /\ v \in Views
  /\ c \in 0..MaxChunks /\ Len(p) <= c
  /\ \A k \in 1..Len(s) : s[k].kind = "server" => a = "anthropic"
  /\ Seen(v, p) /\ Written("text", x, s, p) /\ Written("thinking", y, s, p)
  /\ Found(a, c, s, p, keys, idx)

LEMMA CoreMeans ==
  ASSUME MaxChunks \in Nat, NEW a, NEW c, NEW s, NEW p, NEW v, NEW x, NEW y, NEW keys, NEW idx,
         Core(a, c, s, p, v, x, y, keys, idx)
  PROVE  /\ StreamPart!SameWords(v, s) /\ StreamPart!SameWords(p, s)
         /\ StreamPart!SameCalls(p, v, {"call"})
         /\ a # "gemini_streaming" =>
              /\ StreamPart!SameCalls(v, s, StreamPart!CallKinds)
              /\ StreamPart!SameCalls(p, s, StreamPart!CallKinds)
<1>1. /\ s \in Seq(StreamPart!Block) /\ p \in Seq(StreamPart!Block) /\ v \in Views /\ Seen(v, p)
      /\ Len(p) <= MaxChunks
      /\ Written("text", x, s, p) /\ Written("thinking", y, s, p)
  <2>1. Len(p) \in Nat /\ c \in 0..MaxChunks /\ Len(p) <= c
    BY DEF Core
  <2>2. Len(p) <= MaxChunks
    BY <2>1
  <2> QED BY <2>2 DEF Core
<1>2. /\ StreamPart!Text("text", p) = StreamPart!Text("text", s)
      /\ StreamPart!Text("thinking", p) = StreamPart!Text("thinking", s)
  BY <1>1, WrittenMeans
<1>3. /\ StreamPart!Of({"text"}, v) = StreamPart!Of({"text"}, p)
      /\ StreamPart!Of({"call"}, v) = StreamPart!Of({"call"}, p)
  BY <1>1, OfSeen
<1>4. StreamPart!Text("thinking", v) = StreamPart!Text("thinking", s)
  BY <1>1, ThinkingSeen
<1>5. a # "gemini_streaming" =>
        StreamPart!ToolCalls({"call"}, p) = StreamPart!ToolCalls(StreamPart!CallKinds, s)
  BY <1>1, MatchedMeans DEF Core, Found
<1>6. /\ StreamPart!Text("text", v) = StreamPart!Text("text", p)
      /\ StreamPart!ToolCalls({"call"}, v) = StreamPart!ToolCalls({"call"}, p)
  BY <1>3 DEF StreamPart!Text, StreamPart!ToolCalls
<1> QED BY <1>2, <1>4, <1>5, <1>6 DEF StreamPart!SameWords, StreamPart!SameCalls

\* A chunk that says nothing.
LEMMA CoreLater ==
  ASSUME MaxChunks \in Nat, NEW a, NEW c, NEW s, NEW p, NEW v, NEW x, NEW y, NEW keys, NEW idx,
         Core(a, c, s, p, v, x, y, keys, idx), c < MaxChunks
  PROVE  Core(a, c + 1, s, p, v, x, y, keys, idx)
<1>1. c \in Nat /\ c + 1 \in 0..MaxChunks /\ c <= c + 1 /\ Len(p) <= c + 1
  <2>1. c \in 0..MaxChunks /\ p \in Seq(StreamPart!Block) /\ Len(p) <= c
    BY DEF Core
  <2> QED BY <2>1
<1>2. Found(a, c + 1, s, p, keys, idx)
  <2>1. CASE a = "gemini_streaming"
    BY <2>1 DEF Core, Found
  <2>2. CASE a # "gemini_streaming"
    <3>1. PICK pos, at : Matched(pos, at, s, p) /\ Keyed(a, at, p, c, keys, idx)
      BY <2>2 DEF Core, Found
    <3>2. Keyed(a, at, p, c + 1, keys, idx)
      BY <1>1, <3>1, KeyedAlike
    <3> QED BY <2>2, <3>1, <3>2 DEF Found
  <2> QED BY <2>1, <2>2
<1> QED BY <1>1, <1>2 DEF Core

\* A piece of text or thinking, into the content and to the consumer.
Worded(kind, at, p, d) ==
  IF at = 0 THEN Append(p, StreamPart!TextBlock(kind, d)) ELSE [p EXCEPT ![at].body = @ \o d]
WordedView(kind, at, p, v, d) ==
  IF d = <<>> THEN v
  ELSE StreamPart!Absorb(v, StreamPart!Delta(kind, IF at = 0 THEN Len(p) + 1 ELSE at,
                                             NoId, NoId, d))

LEMMA BodyMore ==
  ASSUME NEW b \in StreamPart!Block, NEW w
  PROVE  /\ [b EXCEPT !.body = w] = [kind |-> b.kind, id |-> b.id, name |-> b.name, body |-> w]
         /\ b = [kind |-> b.kind, id |-> b.id, name |-> b.name, body |-> b.body]
<1>1. b = [kind |-> b.kind, id |-> b.id, name |-> b.name, body |-> b.body]
  BY SMTT(30) DEF StreamPart!Block
<1>2. [b EXCEPT !.body = w] = [kind |-> b.kind, id |-> b.id, name |-> b.name, body |-> w]
  BY SMTT(30) DEF StreamPart!Block
<1> QED BY <1>1, <1>2

LEMMA WordSeen ==
  ASSUME MaxChunks \in Nat, NEW p \in Seq(StreamPart!Block),
         NEW v \in Views, Len(p) < MaxChunks, Seen(v, p),
         NEW kind \in {"text", "thinking"}, NEW at, NEW s, Written(kind, at, s, p),
         NEW d \in Pieces, d = <<>> => kind = "thinking"
  PROVE  /\ Worded(kind, at, p, d) \in Seq(StreamPart!Block)
         /\ WordedView(kind, at, p, v, d) \in Views
         /\ Seen(WordedView(kind, at, p, v, d), Worded(kind, at, p, d))
         /\ Len(Worded(kind, at, p, d)) <= Len(p) + 1
<1> DEFINE p2 == Worded(kind, at, p, d)
           v2 == WordedView(kind, at, p, v, d)
<1>0. /\ at = 0 => p2 = Append(p, StreamPart!TextBlock(kind, d))
      /\ at # 0 => p2 = [p EXCEPT ![at].body = @ \o d]
      /\ d = <<>> => v2 = v
      /\ d # <<>> =>
           v2 = StreamPart!Absorb(v, StreamPart!Delta(kind, IF at = 0 THEN Len(p) + 1 ELSE at,
                                                      NoId, NoId, d))
  BY DEF Worded, WordedView
<1> HIDE DEF p2, v2
<1> SUFFICES p2 \in Seq(StreamPart!Block) /\ v2 \in Views /\ Seen(v2, p2) /\ Len(p2) <= Len(p) + 1
  BY DEF p2, v2
<1>1. /\ Len(p) \in Nat /\ (at # 0 => at \in 1..Len(p) /\ at \in 1..MaxChunks)
      /\ Len(p) + 1 \in 1..MaxChunks /\ Len(p) <= MaxChunks
  BY DEF Written
<1>2. \A b \in StreamPart!Block :
          b.body \in Pieces /\ b.body \o d \in Pieces /\ (d = <<>> => b.body \o d = b.body)
  BY BodyType DEF Pieces
<1>3. CASE at = 0
  <2> DEFINE f == StreamPart!TextBlock(kind, d)
  <2>1. f \in StreamPart!Block
    BY DEF StreamPart!TextBlock, StreamPart!Block, Pieces
  <2>2. f = [kind |-> kind, id |-> NoId, name |-> NoId, body |-> d]
    BY DEF StreamPart!TextBlock
  <2> HIDE DEF f
  <2>3. p2 = Append(p, f)
    BY <1>3, <1>0 DEF f
  <2>4. /\ Seen([v EXCEPT ![Len(p) + 1] = f], Append(p, f))
        /\ [v EXCEPT ![Len(p) + 1] = f] \in Views
        /\ f = StreamPart!TextBlock("thinking", <<>>) => Seen(v, Append(p, f))
        /\ v[Len(p) + 1] = StreamPart!NoBlock
    BY <2>1, SeenNew
  <2>5. p2 \in Seq(StreamPart!Block) /\ Len(p2) <= Len(p) + 1
    BY <1>1, <2>1, <2>3
  <2>6. CASE d = <<>>
    <3>1. f = StreamPart!TextBlock("thinking", <<>>) /\ v2 = v
      BY <2>6, <1>0 DEF f
    <3> QED BY <2>3, <2>4, <2>5, <3>1
  <2>7. CASE d # <<>>
    <3>1. StreamPart!Absorb(v, StreamPart!Delta(kind, Len(p) + 1, NoId, NoId, d)) =
              [v EXCEPT ![Len(p) + 1] = f]
      BY <1>1, <2>2, <2>4, AbsorbNew
    <3>2. v2 = [v EXCEPT ![Len(p) + 1] = f]
      BY <1>3, <1>0, <2>7, <3>1
    <3> QED BY <2>3, <2>4, <2>5, <3>2
  <2> QED BY <2>6, <2>7
<1>4. CASE at # 0
  <2> DEFINE g == [kind |-> kind, id |-> p[at].id, name |-> p[at].name, body |-> p[at].body \o d]
  <2>1. p[at] \in StreamPart!Block /\ p[at].kind = kind
    BY <1>1, <1>4 DEF Written
  <2>2. g \in StreamPart!Block /\ [p[at] EXCEPT !.body = @ \o d] = g /\ (d = <<>> => g = p[at])
    <3>1. g \in StreamPart!Block
      BY <1>2, <2>1 DEF StreamPart!Block, Pieces
    <3>2. [p[at] EXCEPT !.body = @ \o d] = g
      BY <2>1, BodyMore
    <3>3. d = <<>> => g = p[at]
      <4>1. d = <<>> => p[at].body \o d = p[at].body
        BY <1>2, <2>1
      <4>2. p[at] = [kind |-> p[at].kind, id |-> p[at].id, name |-> p[at].name, body |-> p[at].body]
        BY <2>1, BodyMore
      <4> QED BY <2>1, <4>1, <4>2
    <3> QED BY <3>1, <3>2, <3>3
  <2>3. p2 = [p EXCEPT ![at] = g]
    BY <1>1, <1>4, <1>0, <2>2
  <2>4. CASE d = <<>>
    <3>1. p2 = p /\ v2 = v
      <4>1. g = p[at]
        BY <2>2, <2>4
      <4> HIDE DEF g
      <4> QED BY <1>1, <1>4, <1>0, <2>3, <2>4, <4>1
    <3> QED BY <1>1, <3>1
  <2>5. CASE d # <<>>
    <3>1. StreamPart!Absorb(v, StreamPart!Delta(kind, at, NoId, NoId, d)) = [v EXCEPT ![at] = g]
      <4>1. CASE v[at] = p[at]
        <5>1. StreamPart!Absorb(v, StreamPart!Delta(kind, at, NoId, NoId, d)) =
                [v EXCEPT ![at] = [kind |-> kind, id |-> v[at].id, name |-> v[at].name,
                                   body |-> v[at].body \o d]]
          BY <1>1, <1>4, <2>1, <4>1 DEF StreamPart!Absorb, StreamPart!Delta
        <5> QED BY <4>1, <5>1
      <4>2. CASE p[at] = StreamPart!TextBlock("thinking", <<>>) /\ v[at] = StreamPart!NoBlock
        <5>1. StreamPart!Absorb(v, StreamPart!Delta(kind, at, NoId, NoId, d)) =
                [v EXCEPT ![at] = [kind |-> kind, id |-> NoId, name |-> NoId, body |-> d]]
          BY <1>1, <1>4, <4>2, AbsorbNew
        <5>2. p[at].id = NoId /\ p[at].name = NoId /\ p[at].body = <<>> /\ <<>> \o d = d
          BY <4>2 DEF StreamPart!TextBlock, Pieces
        <5>3. g = [kind |-> kind, id |-> NoId, name |-> NoId, body |-> d]
          BY <5>2
        <5> QED BY <5>1, <5>3
      <4> QED BY <1>1, <1>4, <4>1, <4>2 DEF Seen
    <3>2. v2 = [v EXCEPT ![at] = g]
      BY <1>4, <1>0, <2>5, <3>1
    <3> HIDE DEF g
    <3>3. Seen([v EXCEPT ![at] = g], [p EXCEPT ![at] = g]) /\ [v EXCEPT ![at] = g] \in Views
      BY <1>1, <1>4, <2>2, SeenMore
    <3>4. p2 \in Seq(StreamPart!Block) /\ Len(p2) <= Len(p) + 1
      BY <1>1, <1>4, <2>2, <2>3
    <3> QED BY <2>3, <3>2, <3>3, <3>4
  <2> QED BY <2>4, <2>5
<1> QED BY <1>3, <1>4

\* Where the piece goes, and where text and thinking go after it.
GoesTo(kind, at, p, x, y, x2, y2) ==
  /\ at = IF kind = "text" THEN x ELSE y
  /\ x2 = IF kind = "text" THEN (IF at = 0 THEN Len(p) + 1 ELSE at) ELSE x
  /\ y2 = IF kind = "text" THEN y ELSE (IF at = 0 THEN Len(p) + 1 ELSE at)

LEMMA WordCore ==
  ASSUME MaxChunks \in Nat, NEW a, NEW c, NEW s, NEW p, NEW v, NEW x, NEW y, NEW keys, NEW idx,
         Core(a, c, s, p, v, x, y, keys, idx), c < MaxChunks,
         NEW kind \in {"text", "thinking"}, NEW at, NEW x2,
         NEW y2, GoesTo(kind, at, p, x, y, x2, y2),
         NEW d \in Pieces, d = <<>> => kind = "thinking",
         NEW e \in StreamPart!Block, e.kind \in {kind, "redacted"},
         StreamPart!Text(kind, Append(s, e)) = StreamPart!Text(kind, s) \o d
  PROVE  Core(a, c + 1, Append(s, e), Worded(kind, at, p, d), WordedView(kind, at, p, v, d),
              x2, y2, keys, idx)
<1> DEFINE p2 == Worded(kind, at, p, d)
           v2 == WordedView(kind, at, p, v, d)
           s2 == Append(s, e)
           at2 == IF at = 0 THEN Len(p) + 1 ELSE at
           other == IF kind = "text" THEN "thinking" ELSE "text"
           at3 == IF kind = "text" THEN y ELSE x
<1>1. /\ s \in Seq(StreamPart!Block) /\ p \in Seq(StreamPart!Block) /\ v \in Views /\ Seen(v, p)
      /\ c \in 0..MaxChunks /\ Len(p) <= c
      /\ \A k \in 1..Len(s) : s[k].kind = "server" => a = "anthropic"
      /\ Written("text", x, s, p) /\ Written("thinking", y, s, p)
  BY DEF Core
<1>2. Written(kind, at, s, p) /\ Written(other, at3, s, p)
  BY <1>1 DEF GoesTo
<1>3. Len(p) \in Nat /\ Len(p) < MaxChunks /\ c \in Nat /\ c + 1 \in 0..MaxChunks /\ c <= c + 1
      /\ at \in 0..Len(p) /\ kind # other /\ other # "call" /\ kind # "call" /\ other # "redacted"
  <2>1. Len(p) \in Nat /\ Len(p) < MaxChunks /\ c \in Nat /\ c + 1 \in 0..MaxChunks /\ c <= c + 1
    BY <1>1
  <2> QED BY <1>2, <2>1 DEF Written
<1>4. p2 \in Seq(StreamPart!Block) /\ v2 \in Views /\ Seen(v2, p2) /\ Len(p2) <= Len(p) + 1
  BY <1>1, <1>2, <1>3, WordSeen
<1>5. s2 \in Seq(StreamPart!Block) /\ \A k \in 1..Len(s2) : s2[k].kind = "server" => a = "anthropic"
  <2>1. s2 \in Seq(StreamPart!Block) /\ Len(s2) = Len(s) + 1 /\ Len(s) \in Nat /\ s2[Len(s) + 1] = e
        /\ \A k \in 1..Len(s) : s2[k] = s[k]
    BY <1>1
  <2>2. e.kind # "server"
    OBVIOUS
  <2> HIDE DEF s2
  <2>3. \A k \in 1..Len(s2) : k = Len(s) + 1 \/ k \in 1..Len(s)
    BY <2>1
  <2> QED BY <1>1, <2>1, <2>2, <2>3
<1>6. StreamPart!Text(other, s2) = StreamPart!Text(other, s)
  BY <1>1, <1>3, TextAppend
<1>7. Written(kind, at2, s2, p2)
  BY <1>1, <1>2, WrittenMore DEF Worded
\* Of the other blocks the content has what it had.
<1>8. \/ \E f \in StreamPart!Block : p2 = Append(p, f) /\ f.kind = kind
      \/ /\ Len(p2) = Len(p)
         /\ \A k \in 1..Len(p) : p2[k] = p[k] \/ (p2[k].kind = kind /\ p[k].kind = kind)
  <2>1. CASE at = 0
    <3>1. /\ StreamPart!TextBlock(kind, d) \in StreamPart!Block
          /\ StreamPart!TextBlock(kind, d).kind = kind
      BY DEF StreamPart!TextBlock, StreamPart!Block, Pieces
    <3> QED BY <2>1, <3>1 DEF Worded
  <2>2. CASE at # 0
    <3>1. at \in 1..Len(p) /\ p[at].kind = kind /\ p[at] \in StreamPart!Block
      BY <1>1, <1>2, <1>3, <2>2 DEF Written
    <3>2. [p[at] EXCEPT !.body = p[at].body \o d].kind = kind
      BY <3>1 DEF StreamPart!Block
    <3>3. p2 = [p EXCEPT ![at] = [p[at] EXCEPT !.body = p[at].body \o d]]
      BY <2>2 DEF Worded
    <3> DEFINE g == [p[at] EXCEPT !.body = p[at].body \o d]
    <3> HIDE DEF g
    <3>4. Len([p EXCEPT ![at] = g]) = Len(p) /\ [p EXCEPT ![at] = g][at] = g
          /\ \A k \in 1..Len(p) : k # at => [p EXCEPT ![at] = g][k] = p[k]
      BY <1>1, <3>1
    <3> QED BY <3>1, <3>2, <3>3, <3>4 DEF g
  <2> QED BY <2>1, <2>2
<1> HIDE DEF p2, v2
<1>9. Written(other, at3, s2, p2)
  <2>1. CASE \E f \in StreamPart!Block : p2 = Append(p, f) /\ f.kind = kind
    <3>1. PICK f \in StreamPart!Block : p2 = Append(p, f) /\ f.kind = kind
      BY <2>1
    <3>2. f.kind # other
      BY <1>3, <3>1
    <3> HIDE DEF s2, other, at3
    <3>3. Written(other, at3, s2, Append(p, f))
      BY <1>1, <1>2, <1>6, <3>2, WrittenStays
    <3> QED BY <3>1, <3>3
  <2>2. CASE /\ Len(p2) = Len(p)
             /\ \A k \in 1..Len(p) : p2[k] = p[k] \/ (p2[k].kind = kind /\ p[k].kind = kind)
    <3>1. \A k \in 1..Len(p) : p2[k] = p[k] \/ (p2[k].kind # other /\ p[k].kind # other)
      BY <1>3, <2>2
    <3> HIDE DEF s2, other, at3
    <3> QED BY <1>1, <1>2, <1>4, <1>6, <2>2, <3>1, WrittenStays
  <2> QED BY <1>8, <2>1, <2>2
<1>14. ASSUME a = "gemini_streaming" PROVE Found(a, c + 1, s2, p2, keys, idx)
  <2>1. idx = {} /\ \A q \in keys : q[2] \in 1..Len(p) /\ p[q[2]].kind = "call"
    BY <1>14 DEF Core, Found
  <2>2. Len(p) <= Len(p2) /\ \A k \in 1..Len(p) : p[k].kind = "call" => p2[k] = p[k]
    <3>1. CASE \E f \in StreamPart!Block : p2 = Append(p, f) /\ f.kind = kind
      BY <1>1, <3>1
    <3>2. CASE /\ Len(p2) = Len(p)
               /\ \A k \in 1..Len(p) : p2[k] = p[k] \/ (p2[k].kind = kind /\ p[k].kind = kind)
      <4>1. Len(p) \in Nat /\ kind # "call"
        BY <1>1, <1>3
      <4> HIDE DEF s2
      <4> QED BY <3>2, <4>1
    <3> QED BY <1>8, <3>1, <3>2
  <2>3. Len(p2) \in Nat
    BY <1>4
  <2> QED BY <1>3, <1>14, <2>1, <2>2, <2>3 DEF Found
<1>10. ASSUME a # "gemini_streaming"
       PROVE  \E pos, places : Matched(pos, places, s2, p2) /\ Keyed(a, places, p2, c + 1, keys, idx)
  <2>1. PICK pos, places : Matched(pos, places, s, p) /\ Keyed(a, places, p, c, keys, idx)
    BY <1>10 DEF Core, Found
  <2>2. Matched(pos, places, s2, p)
    <3>1. e.kind \notin StreamPart!CallKinds
      BY DEF StreamPart!CallKinds
    <3> QED BY <1>1, <2>1, <3>1, MatchedStays
  <2>3. \A r \in 1..Len(places) : places[r] \in 1..Len(p) /\ p[places[r]].kind = "call"
    BY <1>1, <2>1, MatchedTypes DEF MatchedFacts
  <2> HIDE DEF s2
  <2>4. Matched(pos, places, s2, p2) /\ \A r \in 1..Len(places) : p2[places[r]] = p[places[r]]
    <3>1. CASE \E f \in StreamPart!Block : p2 = Append(p, f) /\ f.kind = kind
      <4>1. PICK f \in StreamPart!Block : p2 = Append(p, f) /\ f.kind = kind
        BY <3>1
      <4>2. \A k \in 1..Len(p) : Append(p, f)[k] = p[k]
        BY <1>1
      <4>3. Matched(pos, places, s2, Append(p, f))
        BY <1>1, <1>3, <1>5, <2>2, <4>1, MatchedStays
      <4> QED BY <2>3, <4>1, <4>2, <4>3
    <3>2. CASE /\ Len(p2) = Len(p)
               /\ \A k \in 1..Len(p) : p2[k] = p[k] \/ (p2[k].kind = kind /\ p[k].kind = kind)
      <4>1. \A k \in 1..Len(p) : p2[k] = p[k] \/ (p2[k].kind # "call" /\ p[k].kind # "call")
        BY <1>3, <3>2
      <4>2. Matched(pos, places, s2, p2)
        BY <1>1, <1>4, <1>5, <2>2, <3>2, <4>1, MatchedStays
      <4> QED BY <2>3, <4>1, <4>2
    <3> QED BY <1>8, <3>1, <3>2
  <2>5. Keyed(a, places, p2, c + 1, keys, idx)
    <3>1. \A r \in 1..Len(places) : p2[places[r]].id = p[places[r]].id
                                    /\ p2[places[r]].name = p[places[r]].name
      BY <2>4
    <3>2. c \in Nat /\ c + 1 \in Nat /\ c <= c + 1 /\ Keyed(a, places, p, c, keys, idx)
      BY <1>3, <2>1
    <3> QED BY <3>1, <3>2, KeyedAlike
  <2> QED BY <2>4, <2>5
<1>11. Len(p2) <= c + 1
  <2>1. Len(p2) \in Nat
    BY <1>4
  <2> QED BY <1>1, <1>3, <1>4, <2>1
<1>12. Written("text", x2, s2, p2) /\ Written("thinking", y2, s2, p2)
  <2>1. CASE kind = "text"
    BY <1>7, <1>9, <2>1 DEF GoesTo
  <2>2. CASE kind = "thinking"
    BY <1>7, <1>9, <2>2 DEF GoesTo
  <2> QED BY <2>1, <2>2
<1> HIDE DEF s2
<1>15. Found(a, c + 1, s2, p2, keys, idx)
  BY <1>10, <1>14 DEF Found
<1>13. Core(a, c + 1, s2, p2, v2, x2, y2, keys, idx)
  BY <1>3, <1>4, <1>5, <1>11, <1>12, <1>15 DEF Core
<1> QED BY <1>13 DEF s2, p2, v2

\* The indexes once they have the call that is new.
Indexed(a, idx, s, m) ==
  IF a = "openai" THEN idx \cup {<<Len(StreamPart!Of(StreamPart!CallKinds, s)) + 1, m>>} ELSE idx

LEMMA NewCallCore ==
  ASSUME StreamPart!StreamAssumption,
         NEW a, a # "gemini_streaming", NEW c, NEW s, NEW p, NEW v, NEW x, NEW y, NEW keys, NEW idx,
         Core(a, c, s, p, v, x, y, keys, idx), c < MaxChunks,
         NEW i \in {c + 1, NoId}, a = "anthropic" => i # NoId, NEW n \in Names, NEW d \in Pieces,
         NEW e \in StreamPart!Block, e.kind \in StreamPart!CallKinds,
         e.kind = "server" => a = "anthropic",
         SameCall(e, StreamPart!CallBlock(i, n, d))
  PROVE  Core(a, c + 1, Append(s, e), Append(p, StreamPart!CallBlock(i, n, d)),
              [v EXCEPT ![Len(p) + 1] = StreamPart!CallBlock(i, n, d)], x, y,
              keys \cup (StreamPart!Key(i, n, Len(p) + 1) \X {Len(p) + 1}),
              Indexed(a, idx, s, Len(p) + 1))
<1> DEFINE f == StreamPart!CallBlock(i, n, d)
           s2 == Append(s, e)
           p2 == Append(p, f)
           v2 == [v EXCEPT ![Len(p) + 1] = f]
           keys2 == keys \cup (StreamPart!Key(i, n, Len(p) + 1) \X {Len(p) + 1})
           idx2 == Indexed(a, idx, s, Len(p) + 1)
<1>1. /\ s \in Seq(StreamPart!Block) /\ p \in Seq(StreamPart!Block) /\ v \in Views /\ Seen(v, p)
      /\ c \in 0..MaxChunks /\ Len(p) <= c
      /\ \A k \in 1..Len(s) : s[k].kind = "server" => a = "anthropic"
      /\ Written("text", x, s, p) /\ Written("thinking", y, s, p)
  BY DEF Core
<1>2. /\ MaxChunks \in Nat /\ NoId \notin Nat
      /\ Len(p) \in Nat /\ Len(p) < MaxChunks /\ c \in Nat /\ c + 1 \in 0..MaxChunks
  BY <1>1 DEF StreamPart!StreamAssumption
<1>3. f \in StreamPart!Block /\ f.kind = "call"
  BY <1>2 DEF StreamPart!CallBlock, StreamPart!Block, Pieces
<1>4. v2 \in Views /\ Seen(v2, p2)
  <2> HIDE DEF f
  <2> QED BY <1>1, <1>2, <1>3, SeenNew
<1>5. /\ s2 \in Seq(StreamPart!Block)
      /\ \A k \in 1..Len(s2) : s2[k].kind = "server" => a = "anthropic"
      /\ p2 \in Seq(StreamPart!Block) /\ Len(p2) <= c + 1
  <2> HIDE DEF f
  <2>1. s2 \in Seq(StreamPart!Block) /\ Len(s2) = Len(s) + 1 /\ Len(s) \in Nat /\ s2[Len(s) + 1] = e
        /\ \A k \in 1..Len(s) : s2[k] = s[k]
    BY <1>1
  <2>2. p2 \in Seq(StreamPart!Block) /\ Len(p2) = Len(p) + 1
    BY <1>1, <1>3
  <2> HIDE DEF s2, p2
  <2>3. \A k \in 1..Len(s2) : k = Len(s) + 1 \/ k \in 1..Len(s)
    BY <2>1
  <2> QED BY <1>1, <1>2, <2>1, <2>2, <2>3
<1>6. e.kind \notin {"text", "thinking"}
  BY DEF StreamPart!CallKinds
<1>7. /\ StreamPart!Text("text", s2) = StreamPart!Text("text", s)
      /\ StreamPart!Text("thinking", s2) = StreamPart!Text("thinking", s)
  BY <1>1, <1>6, TextAppend
<1>8. Written("text", x, s2, p2) /\ Written("thinking", y, s2, p2)
  <2> HIDE DEF f, s2
  <2> QED BY <1>1, <1>3, <1>7, WrittenStays
<1>9. PICK pos, at : Matched(pos, at, s, p) /\ Keyed(a, at, p, c, keys, idx)
  BY DEF Core, Found
<1>10. Matched(Append(pos, Len(s) + 1), Append(at, Len(p) + 1), s2, p2)
  <2> HIDE DEF f
  <2>1. SameCall(e, f)
    BY DEF f
  <2> QED BY <1>1, <1>3, <1>9, <2>1, MatchedNew
<1>11. Keyed(a, Append(at, Len(p) + 1), p2, c + 1, keys2, idx2)
  <2>1. at \in Seq(1..Len(p)) /\ Len(StreamPart!Of(StreamPart!CallKinds, s)) = Len(at)
    BY <1>1, <1>9, MatchedTypes, MatchedMeans DEF MatchedFacts
  <2> QED BY <1>1, <1>2, <1>9, <2>1, KeyedNew DEF Indexed
<1> HIDE DEF f, s2, p2, v2, keys2, idx2
<1>12. Core(a, c + 1, s2, p2, v2, x, y, keys2, idx2)
  BY <1>2, <1>4, <1>5, <1>8, <1>10, <1>11 DEF Core, Found
<1> QED BY <1>12 DEF f, s2, p2, v2, keys2, idx2

LEMMA BlockChanges ==
  ASSUME NEW s \in Seq(StreamPart!Block), NEW k \in 1..Len(s), NEW e \in StreamPart!Block
  PROVE  /\ [s EXCEPT ![k] = e] \in Seq(StreamPart!Block) /\ Len([s EXCEPT ![k] = e]) = Len(s)
         /\ [s EXCEPT ![k] = e][k] = e
         /\ \A j \in 1..Len(s) : j # k => [s EXCEPT ![k] = e][j] = s[j]
OBVIOUS

\* More of a call that the builder has.
LEMMA MoreCallCore ==
  ASSUME StreamPart!StreamAssumption,
         NEW a, a # "gemini_streaming", NEW c, NEW s, NEW p, NEW v, NEW x, NEW y, NEW keys, NEW idx,
         Core(a, c, s, p, v, x, y, keys, idx), c < MaxChunks,
         NEW pos, NEW at, Matched(pos, at, s, p), Keyed(a, at, p, c, keys, idx),
         NEW r \in 1..Len(at), NEW d \in Pieces,
         NEW b \in StreamPart!Block, b.kind = "call", b.id = p[at[r]].id, b.name = p[at[r]].name,
         b.body = p[at[r]].body \o d
  PROVE  Core(a, c + 1, [s EXCEPT ![pos[r]].body = @ \o d], [p EXCEPT ![at[r]] = b],
              [v EXCEPT ![at[r]] = b], x, y,
              keys \cup (StreamPart!Key(b.id, b.name, at[r]) \X {at[r]}), idx)
<1> DEFINE e == [s[pos[r]] EXCEPT !.body = @ \o d]
           s2 == [s EXCEPT ![pos[r]] = e]
           p2 == [p EXCEPT ![at[r]] = b]
           v2 == [v EXCEPT ![at[r]] = b]
           keys2 == keys \cup (StreamPart!Key(b.id, b.name, at[r]) \X {at[r]})
<1>1. /\ s \in Seq(StreamPart!Block) /\ p \in Seq(StreamPart!Block) /\ v \in Views /\ Seen(v, p)
      /\ c \in 0..MaxChunks /\ Len(p) <= c
      /\ \A k \in 1..Len(s) : s[k].kind = "server" => a = "anthropic"
      /\ Written("text", x, s, p) /\ Written("thinking", y, s, p)
  BY DEF Core
<1>2. /\ MaxChunks \in Nat /\ Len(p) \in Nat /\ Len(p) <= MaxChunks
      /\ c \in Nat /\ c + 1 \in 0..MaxChunks /\ c <= c + 1 /\ Len(p) <= c + 1
  BY <1>1 DEF StreamPart!StreamAssumption
<1>3. MatchedFacts(pos, at, s, p)
  BY <1>1, MatchedTypes
<1>4. /\ pos[r] \in 1..Len(s) /\ at[r] \in 1..Len(p)
      /\ s[pos[r]] \in StreamPart!Block /\ s[pos[r]].kind \in StreamPart!CallKinds
      /\ p[at[r]] \in StreamPart!Block /\ p[at[r]].kind = "call"
      /\ SameCall(s[pos[r]], p[at[r]])
  BY <1>3 DEF MatchedFacts
<1>6. e.kind = s[pos[r]].kind /\ e \in StreamPart!Block /\ SameCall(e, b)
  <2>1. s[pos[r]].body \o d \in Pieces
    BY <1>4, BodyType DEF Pieces
  <2>2. e = [kind |-> s[pos[r]].kind, id |-> s[pos[r]].id, name |-> s[pos[r]].name,
             body |-> s[pos[r]].body \o d]
    BY <1>4, BodyMore
  <2>3. e \in StreamPart!Block
    BY <1>4, <2>1, <2>2 DEF StreamPart!Block, Pieces
  <2> QED BY <1>4, <2>2, <2>3 DEF SameCall
<1> HIDE DEF e
<1>7. /\ s2 \in Seq(StreamPart!Block) /\ Len(s2) = Len(s) /\ s2[pos[r]] = e
      /\ \A k \in 1..Len(s) : k # pos[r] => s2[k] = s[k]
      /\ p2 \in Seq(StreamPart!Block) /\ Len(p2) = Len(p) /\ p2[at[r]] = b
      /\ \A k \in 1..Len(p) : k # at[r] => p2[k] = p[k]
  <2>1. /\ s2 \in Seq(StreamPart!Block) /\ Len(s2) = Len(s) /\ s2[pos[r]] = e
        /\ \A k \in 1..Len(s) : k # pos[r] => s2[k] = s[k]
    BY <1>1, <1>4, <1>6, BlockChanges
  <2>2. /\ p2 \in Seq(StreamPart!Block) /\ Len(p2) = Len(p) /\ p2[at[r]] = b
        /\ \A k \in 1..Len(p) : k # at[r] => p2[k] = p[k]
    BY <1>1, <1>4, BlockChanges
  <2> QED BY <2>1, <2>2
<1>8. v2 \in Views /\ Seen(v2, p2)
  BY <1>1, <1>2, <1>4, SeenMore
<1>9. Matched(pos, at, s2, p2)
  BY <1>1, <1>6, MatchedMore
<1> HIDE DEF s2, p2, v2
<1>10. \A k \in 1..Len(s2) : s2[k].kind = "server" => a = "anthropic"
  BY <1>1, <1>4, <1>6, <1>7
<1>11. ASSUME NEW kind \in {"text", "thinking"}
       PROVE  /\ StreamPart!Text(kind, s2) = StreamPart!Text(kind, s)
              /\ \A k \in 1..Len(p) : p2[k] = p[k] \/ (p2[k].kind # kind /\ p[k].kind # kind)
  <2>1. \A k \in 1..Len(s) : s[k] = s2[k] \/ (s[k].kind # kind /\ s2[k].kind # kind)
    BY <1>4, <1>6, <1>7 DEF StreamPart!CallKinds
  <2>2. StreamPart!Text(kind, s) = StreamPart!Text(kind, s2)
    BY <1>1, <1>7, <2>1, TextAlike
  <2>3. \A k \in 1..Len(p) : p2[k] = p[k] \/ (p2[k].kind # kind /\ p[k].kind # kind)
    BY <1>4, <1>7
  <2> QED BY <2>2, <2>3
<1>12. Written("text", x, s2, p2) /\ Written("thinking", y, s2, p2)
  BY <1>1, <1>7, <1>11, WrittenStays
<1>13. Keyed(a, at, p2, c + 1, keys2, idx)
  <2>1. Keyed(a, at, p, c, keys2, idx)
    BY KeyedMore
  <2>2. \A q \in 1..Len(at) : p2[at[q]].id = p[at[q]].id /\ p2[at[q]].name = p[at[q]].name
    BY <1>3, <1>7 DEF MatchedFacts
  <2> HIDE DEF keys2
  <2> QED BY <1>2, <2>1, <2>2, KeyedAlike
<1> HIDE DEF keys2
<1>14. Core(a, c + 1, s2, p2, v2, x, y, keys2, idx)
  BY <1>2, <1>7, <1>8, <1>9, <1>10, <1>12, <1>13 DEF Core, Found
<1> QED BY <1>14 DEF e, s2, p2, v2, keys2

\* To what it takes for a piece of a call, the builder gives a block of its own or adds
\* it to a call that it has.
LEMMA LooseCore ==
  ASSUME StreamPart!StreamAssumption,
         NEW a, a = "gemini_streaming", NEW c, NEW s, NEW p, NEW v, NEW x, NEW y, NEW keys, NEW idx,
         Core(a, c, s, p, v, x, y, keys, idx), c < MaxChunks,
         NEW t \in Seq(StreamPart!Block), \A k \in 1..Len(t) : t[k].kind # "server",
         StreamPart!Text("text", t) = StreamPart!Text("text", s),
         StreamPart!Text("thinking", t) = StreamPart!Text("thinking", s),
         NEW b \in StreamPart!Block, b.kind = "call", NEW K
  PROVE  /\ Core(a, c + 1, t, Append(p, b), [v EXCEPT ![Len(p) + 1] = b], x, y,
                 keys \cup (K \X {Len(p) + 1}), idx)
         /\ \A m \in 1..Len(p) : p[m].kind = "call" =>
              Core(a, c + 1, t, [p EXCEPT ![m] = b], [v EXCEPT ![m] = b], x, y,
                   keys \cup (K \X {m}), idx)
<1>1. /\ p \in Seq(StreamPart!Block) /\ v \in Views /\ Seen(v, p)
      /\ c \in 0..MaxChunks /\ Len(p) <= c
      /\ Written("text", x, s, p) /\ Written("thinking", y, s, p)
      /\ idx = {} /\ \A q \in keys : q[2] \in 1..Len(p) /\ p[q[2]].kind = "call"
  BY DEF Core, Found
<1>2. /\ MaxChunks \in Nat /\ Len(p) \in Nat /\ Len(p) < MaxChunks /\ Len(p) <= MaxChunks
      /\ c \in Nat /\ c + 1 \in 0..MaxChunks /\ Len(p) + 1 <= c + 1 /\ Len(p) <= c + 1
  BY <1>1 DEF StreamPart!StreamAssumption
<1>3. Core(a, c + 1, t, Append(p, b), [v EXCEPT ![Len(p) + 1] = b], x, y,
           keys \cup (K \X {Len(p) + 1}), idx)
  <2> DEFINE q2 == Append(p, b)
             v2 == [v EXCEPT ![Len(p) + 1] = b]
             keys2 == keys \cup (K \X {Len(p) + 1})
  <2>1. Seen(v2, q2) /\ v2 \in Views
    BY <1>1, <1>2, SeenNew
  <2>2. Written("text", x, t, q2) /\ Written("thinking", y, t, q2)
    BY <1>1, WrittenStays
  <2>3. /\ q2 \in Seq(StreamPart!Block) /\ Len(q2) = Len(p) + 1 /\ q2[Len(p) + 1] = b
        /\ \A k \in 1..Len(p) : q2[k] = p[k]
    BY <1>1
  <2>4. \A q \in keys2 : q \in keys \/ q[2] = Len(p) + 1
    OBVIOUS
  <2> HIDE DEF q2, v2, keys2
  <2>5. ASSUME NEW q \in keys2 PROVE q[2] \in 1..Len(q2) /\ q2[q[2]].kind = "call"
    BY <1>1, <1>2, <2>3, <2>4
  <2>6. Found(a, c + 1, t, q2, keys2, idx)
    BY <1>1, <2>5 DEF Found
  <2>7. Core(a, c + 1, t, q2, v2, x, y, keys2, idx)
    BY <1>1, <1>2, <2>1, <2>2, <2>3, <2>6 DEF Core
  <2> QED BY <2>7 DEF q2, v2, keys2
<1>4. ASSUME NEW m \in 1..Len(p), p[m].kind = "call"
      PROVE  Core(a, c + 1, t, [p EXCEPT ![m] = b], [v EXCEPT ![m] = b], x, y,
                  keys \cup (K \X {m}), idx)
  <2> DEFINE q2 == [p EXCEPT ![m] = b]
             v2 == [v EXCEPT ![m] = b]
             keys2 == keys \cup (K \X {m})
  <2>1. Seen(v2, q2) /\ v2 \in Views
    BY <1>1, <1>2, <1>4, SeenMore
  <2>2. /\ q2 \in Seq(StreamPart!Block) /\ Len(q2) = Len(p) /\ q2[m] = b
        /\ \A k \in 1..Len(p) : k # m => q2[k] = p[k]
    BY <1>1, BlockChanges
  <2>3. \A q \in keys2 : q \in keys \/ q[2] = m
    OBVIOUS
  <2> HIDE DEF q2, v2, keys2
  <2>4. Written("text", x, t, q2) /\ Written("thinking", y, t, q2)
    <3>1. \A k \in 1..Len(p) : q2[k] = p[k] \/ (q2[k].kind = "call" /\ p[k].kind = "call")
      BY <1>4, <2>2
    <3>2. ASSUME NEW kind \in {"text", "thinking"}
          PROVE  \A k \in 1..Len(p) : q2[k] = p[k] \/ (q2[k].kind # kind /\ p[k].kind # kind)
      BY <3>1
    <3> QED BY <1>1, <2>2, <3>2, WrittenStays
  <2>5. ASSUME NEW q \in keys2 PROVE q[2] \in 1..Len(q2) /\ q2[q[2]].kind = "call"
    BY <1>1, <1>2, <1>4, <2>2, <2>3
  <2>6. Found(a, c + 1, t, q2, keys2, idx)
    BY <1>1, <2>5 DEF Found
  <2>7. Core(a, c + 1, t, q2, v2, x, y, keys2, idx)
    BY <1>1, <1>2, <2>1, <2>2, <2>4, <2>6 DEF Core
  <2> QED BY <2>7 DEF q2, v2, keys2
<1> QED BY <1>3, <1>4

-----------------------------------------------------------------------------
\* The inductive invariant of Stream.
StreamInv ==
  phase # "stopped" =>
    /\ Core(adapter, chunks, said, partial, view, textAt, thinkingAt, byKey, byIndex)
    /\ phase = "done" => final = StreamPart!FinalContent

LEMMA StreamFirst ==
  ASSUME StreamPart!StreamAssumption, StreamPart!Init
  PROVE  StreamInv
<1>1. /\ MaxChunks \in Nat /\ chunks = 0 /\ said = <<>> /\ partial = <<>> /\ textAt = 0
      /\ thinkingAt = 0
      /\ byKey = {} /\ byIndex = {} /\ view = [k \in 1..MaxChunks |-> StreamPart!NoBlock]
      /\ phase = "idle"
  BY DEF StreamPart!Init, StreamPart!StreamAssumption
<1>2. StreamPart!NoBlock \in StreamPart!Block
  BY DEF StreamPart!NoBlock, StreamPart!TextBlock, StreamPart!Block
<1>3. view \in Views /\ Seen(view, partial)
  <2>1. view \in Views /\ \A k \in 1..MaxChunks : view[k] = StreamPart!NoBlock
    BY <1>1, <1>2 DEF Views
  <2> QED BY <1>1, <2>1 DEF Seen
<1>4. /\ said \in Seq(StreamPart!Block) /\ partial \in Seq(StreamPart!Block) /\ Len(partial) = 0
      /\ Len(said) = 0
  BY <1>1
<1>5. ASSUME NEW kind PROVE Written(kind, 0, said, partial)
  <2> DEFINE none == 0
  <2>1. none \in 0..Len(said) /\ \A k \in 1..Len(said) : said[k].kind = kind <=> k = none
    BY <1>4
  <2>2. none = 0
    OBVIOUS
  <2> HIDE DEF none
  <2>3. StreamPart!Text(kind, said) = <<>>
    <3>1. \A a \in 0..Len(said) :
            (\A k \in 1..Len(said) : said[k].kind = kind <=> k = a) =>
              StreamPart!Text(kind, said) = IF a = 0 THEN <<>> ELSE said[a].body
      BY <1>4, TextOfOne
    <3> QED BY <2>1, <2>2, <3>1
  <2> QED BY <1>4, <2>3 DEF Written
<1>6. \E pos, at :
          Matched(pos, at, said, partial) /\ Keyed(adapter, at, partial, chunks, byKey, byIndex)
  <2> DEFINE none == <<>>
  <2>1. none \in Seq(1..0) /\ Len(none) = 0 /\ DOMAIN none = {}
    OBVIOUS
  <2> HIDE DEF none
  <2>2. \A T : Enumerates(none, said, T) /\ Enumerates(none, partial, T)
    BY <1>4, <2>1 DEF Enumerates
  <2>3. Matched(none, none, said, partial)
    BY <2>1, <2>2 DEF Matched
  <2>4. byIndex = IF adapter = "openai" THEN {<<r, none[r]>> : r \in 1..Len(none)} ELSE {}
    BY <1>1, <2>1
  <2>5. Keyed(adapter, none, partial, chunks, byKey, byIndex)
    BY <1>1, <2>1, <2>4 DEF Keyed
  <2> QED BY <2>3, <2>5
<1>7. Found(adapter, chunks, said, partial, byKey, byIndex)
  BY <1>1, <1>6 DEF Found
<1> QED BY <1>1, <1>3, <1>4, <1>5, <1>7 DEF StreamInv, Core

\* What it is for.
LEMMA StreamMeans ==
  ASSUME StreamPart!StreamAssumption, StreamInv
  PROVE  StreamPart!DeltasSayWhatIsSaid /\ StreamPart!FinalIsWhatWasSaid
<1>1. MaxChunks \in Nat
  BY DEF StreamPart!StreamAssumption
<1>2. phase # "stopped" =>
          /\ StreamPart!SameWords(view, said) /\ StreamPart!SameWords(partial, said)
          /\ StreamPart!SameCalls(partial, view, {"call"})
          /\ adapter # "gemini_streaming" =>
               /\ StreamPart!SameCalls(view, said, StreamPart!CallKinds)
               /\ StreamPart!SameCalls(partial, said, StreamPart!CallKinds)
  BY <1>1, CoreMeans DEF StreamInv
<1>4. ASSUME phase = "done", adapter = "gemini_streaming"
      PROVE  StreamPart!SameWords(final, said) /\ StreamPart!SameCalls(final, view, {"call"})
  <2>1. final = partial
    BY <1>4 DEF StreamInv, StreamPart!FinalContent
  <2> QED BY <1>2, <1>4, <2>1
<1>3. ASSUME phase = "done", adapter # "gemini_streaming"
      PROVE  StreamPart!SameWords(final, said) /\ StreamPart!SameCalls(final, said, {"call"})
  <2>1. /\ final = StreamPart!FinalContent /\ said \in Seq(StreamPart!Block)
        /\ \A k \in 1..Len(said) : said[k].kind = "server" => adapter = "anthropic"
    BY <1>3 DEF StreamInv, Core
  <2>2. CASE adapter = "anthropic"
    <3>1. final = StreamPart!AnthropicContent
      BY <2>1, <2>2 DEF StreamPart!FinalContent
    <3>2. /\ StreamPart!Of({"text"}, final) = StreamPart!Of({"text"}, said)
          /\ StreamPart!Of({"thinking"}, final) = StreamPart!Of({"thinking"}, said)
          /\ StreamPart!Of({"call"}, final) = StreamPart!Of({"call"}, said)
      BY <2>1, <3>1, OfOf DEF StreamPart!AnthropicContent
    <3> QED BY <3>2 DEF StreamPart!SameWords, StreamPart!SameCalls, StreamPart!Text,
                        StreamPart!ToolCalls
  <2>3. CASE adapter # "anthropic"
    <3>1. /\ final = partial /\ StreamPart!SameWords(partial, said)
          /\ StreamPart!SameCalls(partial, said, StreamPart!CallKinds)
      BY <1>2, <1>3, <2>1, <2>3 DEF StreamPart!FinalContent
    <3>2. \A k \in 1..Len(said) : said[k] \in OfKinds(StreamPart!CallKinds) <=>
              said[k] \in OfKinds({"call"})
      BY <2>1, <2>3 DEF OfKinds, StreamPart!CallKinds
    <3>3. OfKinds(StreamPart!CallKinds) \cap ElementsOf(said) =
              OfKinds({"call"}) \cap ElementsOf(said)
      <4>1. DOMAIN said = 1..Len(said)
        BY <2>1
      <4> QED BY <3>2, <4>1 DEF ElementsOf
    <3>4. StreamPart!Of(StreamPart!CallKinds, said) = StreamPart!Of({"call"}, said)
      BY <2>1, <3>3, KeepSame, OfIsKept
    <3> QED BY <3>1, <3>4 DEF StreamPart!SameCalls, StreamPart!ToolCalls
  <2> QED BY <2>2, <2>3
<1> QED BY <1>2, <1>3, <1>4 DEF StreamPart!DeltasSayWhatIsSaid, StreamPart!FinalIsWhatWasSaid

-----------------------------------------------------------------------------
LEMMA OneOrTwo ==
  ASSUME NEW one, NEW two
  PROVE  <<one>> \o <<>> = <<one>> /\ <<>> \o <<two>> = <<two>> /\ <<one>> \o <<two>> = <<one, two>>
<1> DEFINE S == {one, two}
<1>1. <<one>> \in Seq(S) /\ <<two>> \in Seq(S) /\ <<>> \in Seq(S) /\ <<one, two>> \in Seq(S)
  OBVIOUS
<1>2. <<one>> \o <<>> = <<one>> /\ <<>> \o <<two>> = <<two>>
  BY <1>1
<1> DEFINE both == <<one>> \o <<two>>
           pair == <<one, two>>
<1>3. both \in Seq(S) /\ Len(both) = 2 /\ both[1] = one /\ both[2] = two
  BY <1>1
<1>4. pair \in Seq(S) /\ Len(pair) = 2 /\ pair[1] = one /\ pair[2] = two
  BY <1>1
<1> HIDE DEF both, pair, S
<1>5. \A i \in 1..2 : both[i] = pair[i]
  <2>1. \A i \in 1..2 : i = 1 \/ i = 2
    OBVIOUS
  <2> QED BY <1>3, <1>4, <2>1
<1>6. both = pair
  BY <1>3, <1>4, <1>5
<1> QED BY <1>2, <1>6 DEF both, pair

\* What the builder does with a piece of a call, new or not.
CallComes(m, index, b) ==
  /\ phase' = phase /\ textAt' = textAt /\ thinkingAt' = thinkingAt
  /\ partial' = Append(partial, b)
  /\ view' = [view EXCEPT ![m] = b]
  /\ byKey' = byKey \cup (StreamPart!Key(b.id, b.name, m) \X {m})
  /\ byIndex' = IF index = 0 THEN byIndex ELSE byIndex \cup {<<index, m>>}

CallGrows(m, index, b) ==
  /\ phase' = phase /\ textAt' = textAt /\ thinkingAt' = thinkingAt
  /\ partial' = [partial EXCEPT ![m] = b]
  /\ view' = [view EXCEPT ![m] = b]
  /\ byKey' = byKey \cup (StreamPart!Key(b.id, b.name, m) \X {m})
  /\ byIndex' = IF index = 0 THEN byIndex ELSE byIndex \cup {<<index, m>>}

LEMMA NewCallDelta ==
  ASSUME MaxChunks \in Nat, partial \in Seq(StreamPart!Block), view \in Views, Seen(view, partial),
         Len(partial) < MaxChunks,
         NEW index, NEW i \in Nat \cup {NoId}, NEW n \in Names \cup {NoId}, NEW d \in Pieces,
         StreamPart!Lookup(index, i, n) = {}, StreamPart!ToolCallDelta(index, i, n, d),
         phase' # "stopped"
  PROVE  CallComes(Len(partial) + 1, index, StreamPart!CallBlock(i, n, d))
<1> DEFINE m == Len(partial) + 1
           known == StreamPart!Lookup(index, i, n)
           at == IF known = {} THEN m ELSE CHOOSE k \in known : TRUE
           old == IF known = {} THEN StreamPart!CallBlock(i, n, <<>>) ELSE partial[at]
           new == StreamPart!CallBlock(IF old.id = NoId THEN i ELSE old.id,
                            IF old.name = NoId THEN n ELSE old.name, old.body \o d)
           one == StreamPart!Delta("call", m, i, n, <<>>)
           two == StreamPart!Delta("call", m, i, n, d)
           events == (IF known = {} THEN <<one>> ELSE <<>>) \o (IF d = <<>> THEN <<>> ELSE <<two>>)
<1>1. /\ partial' = IF known = {} THEN Append(partial, new) ELSE [partial EXCEPT ![at] = new]
      /\ byKey' = byKey \cup (StreamPart!Key(new.id, new.name, at) \X {at})
      /\ byIndex' = IF index = 0 THEN byIndex ELSE byIndex \cup {<<index, at>>}
      /\ textAt' = textAt /\ thinkingAt' = thinkingAt
  BY DEF StreamPart!ToolCallDelta
<1>2. StreamPart!Yield((IF known = {} THEN <<StreamPart!Delta("call", at, i, n, <<>>)>>
                        ELSE <<>>) \o
            (IF d = <<>> THEN <<>> ELSE <<StreamPart!Delta("call", at, i, n, d)>>))
  BY DEF StreamPart!ToolCallDelta
<1>3. known = {} /\ at = m
  OBVIOUS
<1>4. old.id = i /\ old.name = n /\ old.body = <<>> /\ <<>> \o d = d
  BY <1>3 DEF StreamPart!CallBlock, Pieces
<1>5. new = StreamPart!CallBlock(i, n, d)
  BY <1>4
<1>6. new.id = i /\ new.name = n
  BY <1>5 DEF StreamPart!CallBlock
<1>7. phase' = phase /\ view' = StreamPart!AbsorbAll(view, events)
  BY <1>2, <1>3 DEF StreamPart!Yield
<1>8. view' = [view EXCEPT ![m] = StreamPart!CallBlock(i, n, d)]
  <2>1. m \in 1..MaxChunks /\ view[m] = StreamPart!NoBlock
    <3>1. Len(partial) \in Nat /\ m \in 1..MaxChunks
      OBVIOUS
    <3> QED BY <3>1 DEF Seen
  <2>2. StreamPart!Absorb(view, one) = [view EXCEPT ![m] = StreamPart!CallBlock(i, n, <<>>)]
        /\ StreamPart!Absorb(StreamPart!Absorb(view, one), two) =
               [view EXCEPT ![m] = StreamPart!CallBlock(i, n, d)]
    <3> HIDE DEF m
    <3> QED BY <2>1, AbsorbCall
  <2> HIDE DEF one, two, known, at, m
  <2>3. CASE d = <<>>
    <3>1. events = <<one>>
      BY <1>3, <2>3, OneOrTwo
    <3> HIDE DEF events
    <3>2. StreamPart!AbsorbAll(view, <<one>>) = StreamPart!Absorb(view, one)
      BY AbsorbEvents
    <3> QED BY <1>7, <2>2, <2>3, <3>1, <3>2
  <2>4. CASE d # <<>>
    <3>1. events = <<one>> \o <<two>>
      BY <1>3, <2>4
    <3>2. <<one>> \o <<two>> = <<one, two>>
      BY OneOrTwo
    <3> HIDE DEF events
    <3>3. StreamPart!AbsorbAll(view, <<one, two>>) =
              StreamPart!Absorb(StreamPart!Absorb(view, one), two)
      BY DEF StreamPart!AbsorbAll
    <3> QED BY <1>7, <2>2, <3>1, <3>2, <3>3
  <2> QED BY <2>3, <2>4
<1>9. StreamPart!CallBlock(i, n, d).id = i /\ StreamPart!CallBlock(i, n, d).name = n
  BY DEF StreamPart!CallBlock
<1> HIDE DEF new, old, known, at
<1> QED BY <1>1, <1>3, <1>5, <1>6, <1>7, <1>8, <1>9 DEF CallComes

LEMMA MoreCallDelta ==
  ASSUME MaxChunks \in Nat, partial \in Seq(StreamPart!Block), view \in Views, Seen(view, partial),
         Len(partial) <= MaxChunks,
         NEW index, NEW i, NEW n, NEW d \in Pieces, d # <<>>,
         NEW a \in 1..Len(partial), partial[a].kind = "call",
         i \in {NoId, partial[a].id}, n \in {NoId, partial[a].name},
         StreamPart!Lookup(index, i, n) = {a}, StreamPart!ToolCallDelta(index, i, n, d),
         phase' # "stopped"
  PROVE  CallGrows(a, index,
                   StreamPart!CallBlock(partial[a].id, partial[a].name, partial[a].body \o d))
<1> DEFINE b == StreamPart!CallBlock(partial[a].id, partial[a].name, partial[a].body \o d)
           known == StreamPart!Lookup(index, i, n)
           at == IF known = {} THEN Len(partial) + 1 ELSE CHOOSE k \in known : TRUE
           old == IF known = {} THEN StreamPart!CallBlock(i, n, <<>>) ELSE partial[at]
           new == StreamPart!CallBlock(IF old.id = NoId THEN i ELSE old.id,
                            IF old.name = NoId THEN n ELSE old.name, old.body \o d)
           ev == StreamPart!Delta("call", a, i, n, d)
           events == (IF known = {} THEN <<StreamPart!Delta("call", at, i, n, <<>>)>> ELSE <<>>) \o
                     (IF d = <<>> THEN <<>> ELSE <<StreamPart!Delta("call", at, i, n, d)>>)
<1>1. /\ partial' = IF known = {} THEN Append(partial, new) ELSE [partial EXCEPT ![at] = new]
      /\ byKey' = byKey \cup (StreamPart!Key(new.id, new.name, at) \X {at})
      /\ byIndex' = IF index = 0 THEN byIndex ELSE byIndex \cup {<<index, at>>}
      /\ textAt' = textAt /\ thinkingAt' = thinkingAt
  BY DEF StreamPart!ToolCallDelta
<1>2. StreamPart!Yield(events)
  BY DEF StreamPart!ToolCallDelta
<1>3. known = {a} /\ known # {}
  OBVIOUS
<1> HIDE DEF known
<1>4. at = a
  BY <1>3
<1>5. old = partial[a]
  BY <1>3, <1>4
<1>6. new = b
  BY <1>5
<1>7. phase' = phase /\ view' = StreamPart!AbsorbAll(view, events)
  BY <1>2 DEF StreamPart!Yield
<1>8. view' = [view EXCEPT ![a] = b]
  <2>1. events = <<>> \o <<ev>>
    BY <1>3, <1>4
  <2>2. view' = StreamPart!Absorb(view, ev)
    <3> HIDE DEF events, ev
    <3>1. /\ <<>> \o <<ev>> = <<ev>>
          /\ StreamPart!AbsorbAll(view, <<ev>>) = StreamPart!Absorb(view, ev)
      BY OneOrTwo, AbsorbEvents
    <3> QED BY <1>7, <2>1, <3>1
  <2>3. view[a] = partial[a] /\ a \in 1..MaxChunks
    BY DEF Seen, StreamPart!TextBlock
  <2>4. ev.kind = "call" /\ ev.at = a /\ ev.id = i /\ ev.name = n /\ ev.delta = d
    BY DEF StreamPart!Delta
  <2> HIDE DEF ev
  <2>5. [kind |-> ev.kind,
         id |-> IF view[a].id = NoId THEN ev.id ELSE view[a].id,
         name |-> IF view[a].name = NoId THEN ev.name ELSE view[a].name,
         body |-> view[a].body \o ev.delta] = b
    BY <2>3, <2>4 DEF StreamPart!CallBlock
  <2> HIDE DEF b
  <2> QED BY <2>2, <2>4, <2>5 DEF StreamPart!Absorb
<1> HIDE DEF new, old, at, b
<1>9. /\ partial' = [partial EXCEPT ![a] = b]
      /\ byKey' = byKey \cup (StreamPart!Key(b.id, b.name, a) \X {a})
  BY <1>1, <1>3, <1>4, <1>6
<1> QED BY <1>1, <1>4, <1>7, <1>8, <1>9 DEF b, CallGrows

-----------------------------------------------------------------------------
\* The chunks, one by one.
StreamCore == Core(adapter, chunks, said, partial, view, textAt, thinkingAt, byKey, byIndex)

LEMMA NowFacts ==
  ASSUME StreamPart!StreamAssumption, StreamCore, chunks < MaxChunks
  PROVE  /\ MaxChunks \in Nat /\ NoId \notin Nat /\ Names \cap Nat = {}
         /\ said \in Seq(StreamPart!Block) /\ partial \in Seq(StreamPart!Block) /\ view \in Views
         /\ Seen(view, partial)
         /\ chunks \in Nat /\ Len(partial) \in Nat /\ Len(partial) < MaxChunks
         /\ Len(partial) <= MaxChunks
         /\ Len(said) \in Nat /\ DOMAIN said = 1..Len(said)
         /\ Len(StreamPart!Of(StreamPart!CallKinds, said)) \in Nat
<1>1. /\ MaxChunks \in Nat /\ NoId \notin Nat /\ Names \cap Nat = {}
      /\ said \in Seq(StreamPart!Block) /\ partial \in Seq(StreamPart!Block) /\ view \in Views
      /\ Seen(view, partial)
      /\ chunks \in 0..MaxChunks /\ Len(partial) <= chunks
  BY DEF StreamPart!StreamAssumption, StreamCore, Core
<1>2. /\ chunks \in Nat /\ Len(partial) \in Nat /\ Len(partial) < MaxChunks
      /\ Len(partial) <= MaxChunks
      /\ Len(said) \in Nat /\ DOMAIN said = 1..Len(said)
  BY <1>1
<1>3. StreamPart!Of(StreamPart!CallKinds, said) \in Seq(StreamPart!Block)
  BY <1>1, OfType
<1>4. Len(StreamPart!Of(StreamPart!CallKinds, said)) \in Nat
  BY <1>3
<1> QED BY <1>1, <1>2, <1>4

LEMMA PieceType ==
  ASSUME chunks \in Nat
  PROVE  StreamPart!Piece \in Pieces /\ StreamPart!Piece # <<>>
BY DEF StreamPart!Piece, Pieces

LEMMA RestType ==
  ASSUME NEW n \in Nat, NEW body \in Pieces
  PROVE  /\ StreamPart!Arguments(n) \in Pieces
         /\ \A d \in StreamPart!Rest(n, body) : d \in Pieces /\ d # <<>>
<1>1. StreamPart!Arguments(n) \in Pieces /\ Len(StreamPart!Arguments(n)) = 2
  BY DEF StreamPart!Arguments, Pieces
<1>2. ASSUME NEW d \in StreamPart!Rest(n, body) PROVE d \in Pieces /\ d # <<>>
  <2>1. PICK m \in Len(body) + 1 .. 2 : d = SubSeq(StreamPart!Arguments(n), Len(body) + 1, m)
    BY DEF StreamPart!Rest
  <2>2. Len(body) \in Nat
    BY DEF Pieces
  <2> DEFINE args == StreamPart!Arguments(n)
             l == Len(body) + 1
  <2>3. l \in 1..Len(args) /\ m \in 1..Len(args) /\ l <= m /\ args \in Pieces
    BY <1>1, <2>1, <2>2
  <2>4. d = SubSeq(args, l, m)
    BY <2>1
  <2> HIDE DEF args, l
  <2>5. SubSeq(args, l, m) \in Pieces /\ Len(SubSeq(args, l, m)) = m - l + 1
    BY <2>3 DEF Pieces
  <2>6. Len(d) # 0 /\ d \in Pieces
    BY <2>3, <2>4, <2>5
  <2> QED BY <2>6
<1> QED BY <1>1, <1>2

LEMMA WordStep ==
  ASSUME StreamPart!StreamAssumption, StreamCore, chunks < MaxChunks,
         adapter' = adapter, chunks' = chunks + 1, UNCHANGED <<byKey, byIndex>>,
         NEW kind \in {"text", "thinking"}, NEW at,
         GoesTo(kind, at, partial, textAt, thinkingAt, textAt', thinkingAt'),
         NEW d \in Pieces, d = <<>> => kind = "thinking",
         NEW e \in StreamPart!Block, e.kind \in {kind, "redacted"},
         StreamPart!Text(kind, Append(said, e)) = StreamPart!Text(kind, said) \o d,
         said' = Append(said, e),
         StreamPart!Yield(IF d = <<>> THEN <<>>
               ELSE <<StreamPart!Delta(kind, IF at = 0 THEN Len(partial) + 1 ELSE at,
                                       NoId, NoId, d)>>),
         partial' = Worded(kind, at, partial, d), phase' # "stopped"
  PROVE  phase' = phase /\ StreamCore'
<1> DEFINE at2 == IF at = 0 THEN Len(partial) + 1 ELSE at
           ev == StreamPart!Delta(kind, at2, NoId, NoId, d)
<1>1. phase' = phase /\ view' = StreamPart!AbsorbAll(view, IF d = <<>> THEN <<>> ELSE <<ev>>)
  BY DEF StreamPart!Yield
<1>2. view' = WordedView(kind, at, partial, view, d)
  <2>1. CASE d = <<>>
    <3>1. view' = StreamPart!AbsorbAll(view, <<>>)
      BY <1>1, <2>1
    <3> QED BY <2>1, <3>1, AbsorbEvents DEF WordedView
  <2>2. CASE d # <<>>
    <3>1. view' = StreamPart!AbsorbAll(view, <<ev>>)
      BY <1>1, <2>2
    <3> HIDE DEF ev
    <3>2. view' = StreamPart!Absorb(view, ev)
      BY <3>1, AbsorbEvents
    <3> QED BY <2>2, <3>2 DEF WordedView, ev
  <2> QED BY <2>1, <2>2
<1>3. Core(adapter, chunks + 1, Append(said, e), Worded(kind, at, partial, d),
           WordedView(kind, at, partial, view, d), textAt', thinkingAt', byKey, byIndex)
  <2>1. MaxChunks \in Nat
    BY NowFacts
  <2> QED BY <2>1, WordCore DEF StreamCore
<1> QED BY <1>1, <1>2, <1>3 DEF StreamCore

LEMMA TextChunkStep ==
  ASSUME StreamPart!StreamAssumption, StreamCore, StreamPart!TextChunk, phase' # "stopped"
  PROVE  phase' = phase /\ phase = "open" /\ StreamCore'
<1> DEFINE e == StreamPart!TextBlock("text", StreamPart!Piece)
<1>1. /\ phase = "open" /\ chunks < MaxChunks /\ chunks' = chunks + 1 /\ adapter' = adapter
      /\ said' = Append(said, e) /\ StreamPart!TextDelta(StreamPart!Piece)
  BY DEF StreamPart!TextChunk, StreamPart!Chunk
<1>2. StreamPart!Piece \in Pieces /\ StreamPart!Piece # <<>> /\ said \in Seq(StreamPart!Block)
  BY <1>1, NowFacts, PieceType
<1>3. e \in StreamPart!Block /\ e.kind = "text" /\ e.body = StreamPart!Piece
  BY <1>2 DEF StreamPart!TextBlock, StreamPart!Block, Pieces
<1>4. StreamPart!Text("text", Append(said, e)) = StreamPart!Text("text", said) \o StreamPart!Piece
  <2> HIDE DEF e
  <2> QED BY <1>2, <1>3, TextAppend
<1>5. /\ textAt' = IF textAt = 0 THEN Len(partial) + 1 ELSE textAt
      /\ thinkingAt' = thinkingAt /\ byKey' = byKey /\ byIndex' = byIndex
      /\ partial' = Worded("text", textAt, partial, StreamPart!Piece)
      /\ StreamPart!Yield(<<StreamPart!Delta("text", textAt', NoId, NoId, StreamPart!Piece)>>)
  BY <1>1 DEF StreamPart!TextDelta, Worded
<1>6. GoesTo("text", textAt, partial, textAt, thinkingAt, textAt', thinkingAt')
  BY <1>5 DEF GoesTo
<1> HIDE DEF e
<1> QED BY <1>1, <1>2, <1>3, <1>4, <1>5, <1>6, WordStep

LEMMA ThinkingSteps ==
  ASSUME StreamPart!StreamAssumption, StreamCore,
         StreamPart!ThinkingChunk \/ StreamPart!AnthropicRedacted, phase' # "stopped"
  PROVE  phase' = phase /\ phase = "open" /\ StreamCore'
<1>1. /\ phase = "open" /\ chunks < MaxChunks /\ chunks' = chunks + 1 /\ adapter' = adapter
  BY DEF StreamPart!ThinkingChunk, StreamPart!AnthropicRedacted, StreamPart!Chunk
<1>2. /\ StreamPart!Piece \in Pieces /\ StreamPart!Piece # <<>> /\ said \in Seq(StreamPart!Block)
      /\ <<>> \in Pieces
  BY <1>1, NowFacts, PieceType DEF Pieces
<1>3. PICK e \in StreamPart!Block, d \in Pieces :
        /\ said' = Append(said, e) /\ StreamPart!ThinkingDelta(d)
        /\ e.kind \in {"thinking", "redacted"}
        /\ StreamPart!Text("thinking", Append(said, e)) = StreamPart!Text("thinking", said) \o d
  <2>1. CASE StreamPart!ThinkingChunk
    <3> DEFINE e == StreamPart!TextBlock("thinking", StreamPart!Piece)
    <3>1. e \in StreamPart!Block /\ e.kind = "thinking" /\ e.body = StreamPart!Piece
      BY <1>2 DEF StreamPart!TextBlock, StreamPart!Block, Pieces
    <3>2. said' = Append(said, e) /\ StreamPart!ThinkingDelta(StreamPart!Piece)
      BY <2>1 DEF StreamPart!ThinkingChunk
    <3> HIDE DEF e
    <3>3. StreamPart!Text("thinking", Append(said, e)) =
              StreamPart!Text("thinking", said) \o StreamPart!Piece
      BY <1>2, <3>1, TextAppend
    <3> QED BY <1>2, <3>1, <3>2, <3>3
  <2>2. CASE StreamPart!AnthropicRedacted
    <3> DEFINE e == StreamPart!TextBlock("redacted", <<>>)
               none == <<>>
    <3>1. e \in StreamPart!Block /\ e.kind = "redacted"
      BY <1>2 DEF StreamPart!TextBlock, StreamPart!Block, Pieces
    <3>2. said' = Append(said, e) /\ StreamPart!ThinkingDelta(none)
      BY <2>2 DEF StreamPart!AnthropicRedacted
    <3>3. StreamPart!Text("thinking", said) \o none = StreamPart!Text("thinking", said)
      <4>1. Written("thinking", thinkingAt, said, partial) /\ partial \in Seq(StreamPart!Block)
        BY DEF StreamCore, Core
      <4>2. StreamPart!Text("thinking", said) \in Pieces
        <5>1. CASE thinkingAt = 0
          BY <1>2, <4>1, <5>1 DEF Written
        <5>2. CASE thinkingAt # 0
          <6>1. thinkingAt \in 1..Len(partial)
            BY <4>1, <5>2 DEF Written
          <6> QED BY <4>1, <5>2, <6>1, BodyType DEF Written
        <5> QED BY <5>1, <5>2
      <4> QED BY <4>2 DEF Pieces
    <3> HIDE DEF e
    <3>4. StreamPart!Text("thinking", Append(said, e)) = StreamPart!Text("thinking", said)
      BY <1>2, <3>1, TextAppend
    <3>5. none \in Pieces
      BY <1>2
    <3> HIDE DEF none
    <3> QED BY <3>1, <3>2, <3>3, <3>4, <3>5
  <2> QED BY <2>1, <2>2
<1>4. /\ thinkingAt' = IF thinkingAt = 0 THEN Len(partial) + 1 ELSE thinkingAt
      /\ textAt' = textAt /\ byKey' = byKey /\ byIndex' = byIndex
      /\ partial' = Worded("thinking", thinkingAt, partial, d)
      /\ StreamPart!Yield(IF d = <<>> THEN <<>>
                          ELSE <<StreamPart!Delta("thinking", thinkingAt', NoId, NoId, d)>>)
  BY <1>3 DEF StreamPart!ThinkingDelta, Worded
<1>5. GoesTo("thinking", thinkingAt, partial, textAt, thinkingAt, textAt', thinkingAt')
  BY <1>4 DEF GoesTo
<1> QED BY <1>1, <1>3, <1>4, <1>5, WordStep

\* A call that is new, which only gemini's may be without an id.
LEMMA NewCallStep ==
  ASSUME StreamPart!StreamAssumption, StreamCore, adapter # "gemini_streaming", chunks < MaxChunks, adapter' = adapter,
         chunks' = chunks + 1,
         NEW i \in {chunks + 1, NoId}, i = NoId => adapter = "gemini", NEW n \in Names,
         NEW d \in Pieces,
         NEW e \in StreamPart!Block, e.kind \in StreamPart!CallKinds,
         e.kind = "server" => adapter = "anthropic",
         SameCall(e, StreamPart!CallBlock(i, n, d)), said' = Append(said, e),
         NEW index, index = IF adapter = "openai" THEN StreamPart!NextCall ELSE 0,
         StreamPart!ToolCallDelta(index, i, n, d), phase' # "stopped"
  PROVE  phase' = phase /\ StreamCore'
<1> DEFINE m == Len(partial) + 1
           f == StreamPart!CallBlock(i, n, d)
<1>1. /\ MaxChunks \in Nat /\ NoId \notin Nat
      /\ said \in Seq(StreamPart!Block) /\ partial \in Seq(StreamPart!Block) /\ view \in Views
      /\ Seen(view, partial)
      /\ chunks \in Nat /\ Len(partial) \in Nat /\ Len(partial) < MaxChunks
      /\ Len(StreamPart!Of(StreamPart!CallKinds, said)) \in Nat
  BY NowFacts
<1>2. PICK pos, at : /\ Matched(pos, at, said, partial)
                     /\ Keyed(adapter, at, partial, chunks, byKey, byIndex)
  BY DEF StreamCore, Core, Found
<1>3. Len(at) \in Nat /\ Len(StreamPart!Of(StreamPart!CallKinds, said)) = Len(at)
  BY <1>1, <1>2, MatchedMeans, MatchedTypes DEF MatchedFacts
<1>4. index \in Nat /\ index \notin 1..Len(at) /\ (index = 0 <=> adapter # "openai")
      /\ (adapter = "openai" => index = Len(StreamPart!Of(StreamPart!CallKinds, said)) + 1)
  BY <1>3 DEF StreamPart!NextCall
<1>5. /\ i \in Nat \cup {NoId} /\ i \notin 1..chunks /\ n \in Names \cup {NoId}
      /\ i = NoId => index = 0
      /\ adapter = "anthropic" => i # NoId
  BY <1>1, <1>4
<1>6. StreamPart!Lookup(index, i, n) = {}
  BY <1>2, <1>4, <1>5, LookupNew
<1>7. CallComes(m, index, f) /\ f.id = i /\ f.name = n
  <2>1. f.id = i /\ f.name = n
    BY DEF StreamPart!CallBlock
  <2> QED BY <1>1, <1>5, <1>6, <2>1, NewCallDelta
<1> HIDE DEF f
<1>8. Core(adapter, chunks + 1, Append(said, e), Append(partial, f), [view EXCEPT ![m] = f],
           textAt, thinkingAt, byKey \cup (StreamPart!Key(i, n, m) \X {m}),
           Indexed(adapter, byIndex, said, m))
  BY <1>5, NewCallCore DEF StreamCore, f
<1>9. byIndex' = Indexed(adapter, byIndex, said, m)
  BY <1>4, <1>7 DEF Indexed, CallComes
<1> QED BY <1>7, <1>8, <1>9 DEF StreamCore, CallComes

\* More of a call: anthropic's goes by its id, openai's by its number.
LEMMA MoreCallStep ==
  ASSUME StreamPart!StreamAssumption, StreamCore, adapter # "gemini_streaming", chunks < MaxChunks, adapter' = adapter,
         chunks' = chunks + 1,
         NEW k \in 1..Len(said), said[k].kind \in StreamPart!CallKinds,
         NEW m \in Nat,
         NEW d \in StreamPart!Rest(m, said[k].body), said' = [said EXCEPT ![k].body = @ \o d],
         NEW index, NEW i, NEW n, StreamPart!ToolCallDelta(index, i, n, d), phase' # "stopped",
         \/ adapter = "anthropic" /\ index = 0 /\ i = said[k].id /\ n = said[k].name
         \/ /\ adapter = "openai" /\ index =
                   Len(StreamPart!Of(StreamPart!CallKinds, SubSeq(said, 1, k)))
            /\ i = NoId /\ n = NoId
  PROVE  phase' = phase /\ StreamCore'
<1>1. /\ MaxChunks \in Nat /\ NoId \notin Nat
      /\ said \in Seq(StreamPart!Block) /\ partial \in Seq(StreamPart!Block) /\ view \in Views
      /\ Seen(view, partial)
      /\ chunks \in Nat /\ Len(partial) \in Nat /\ Len(partial) <= MaxChunks
  BY NowFacts
<1>2. PICK pos, at : /\ Matched(pos, at, said, partial)
                     /\ Keyed(adapter, at, partial, chunks, byKey, byIndex)
  BY DEF StreamCore, Core, Found
<1>3. PICK r \in 1..Len(at) :
               pos[r] = k /\ Len(StreamPart!Of(StreamPart!CallKinds, SubSeq(said, 1, k))) = r
  BY <1>1, <1>2, MatchedRank
<1> DEFINE a == at[r]
<1>4. /\ a \in 1..Len(partial) /\ partial[a] \in StreamPart!Block /\ partial[a].kind = "call"
      /\ said[k] \in StreamPart!Block /\ said[k].id = partial[a].id
      /\ said[k].name = partial[a].name
      /\ Len(at) \in Nat
  <2>1. MatchedFacts(pos, at, said, partial)
    BY <1>1, <1>2, MatchedTypes
  <2> QED BY <1>3, <2>1 DEF MatchedFacts, SameCall
<1>5. d \in Pieces /\ d # <<>>
  BY <1>4, RestType, BodyType
<1>6. StreamPart!Lookup(index, i, n) = {a}
  <2>1. CASE adapter = "anthropic" /\ index = 0 /\ i = said[k].id
    <3>1. i = partial[at[r]].id /\ i # NoId
      BY <1>2, <1>4, <2>1 DEF Keyed
    <3>2. StreamPart!Lookup(0, i, n) = {at[r]}
      <4>1. chunks \in Nat /\ Keyed(adapter, at, partial, chunks, byKey, byIndex)
        BY <1>1, <1>2
      <4>2. \A o : \A q \in 1..Len(at) :
              partial[at[q]].id # NoId => StreamPart!Lookup(0, partial[at[q]].id, o) = {at[q]}
        BY <4>1, LookupId
      <4> QED BY <3>1, <4>2
    <3> QED BY <2>1, <3>2
  <2>2. CASE adapter = "openai" /\ index = r
    BY <1>2, <2>2, LookupIndex
  <2> QED BY <1>3, <2>1, <2>2
<1> DEFINE b == StreamPart!CallBlock(partial[a].id, partial[a].name, partial[a].body \o d)
<1>7. /\ b \in StreamPart!Block /\ b.kind = "call" /\ b.id = partial[a].id
      /\ b.name = partial[a].name
      /\ b.body = partial[a].body \o d
  <2>1. partial[a].body \o d \in Pieces
    BY <1>4, <1>5, BodyType DEF Pieces
  <2> QED BY <1>4, <2>1 DEF StreamPart!CallBlock, StreamPart!Block, Pieces
<1>8. CallGrows(a, index, b)
  <2>1. i \in {NoId, partial[a].id} /\ n \in {NoId, partial[a].name}
    BY <1>4
  <2> HIDE DEF a
  <2> QED BY <1>1, <1>4, <1>5, <1>6, <2>1, MoreCallDelta
<1> HIDE DEF b
<1>9. Core(adapter, chunks + 1, [said EXCEPT ![k].body = @ \o d], [partial EXCEPT ![a] = b],
           [view EXCEPT ![a] = b], textAt, thinkingAt,
           byKey \cup (StreamPart!Key(b.id, b.name, a) \X {a}), byIndex)
  <2>1. Core(adapter, chunks, said, partial, view, textAt, thinkingAt, byKey, byIndex)
    BY DEF StreamCore
  <2>2. Core(adapter, chunks + 1, [said EXCEPT ![pos[r]].body = @ \o d],
             [partial EXCEPT ![at[r]] = b], [view EXCEPT ![at[r]] = b], textAt, thinkingAt,
             byKey \cup (StreamPart!Key(b.id, b.name, at[r]) \X {at[r]}), byIndex)
    BY <1>2, <1>5, <1>7, <2>1, MoreCallCore
  <2> QED BY <1>3, <2>2
<1>10. byIndex' = byIndex
  <2>1. byIndex' = IF index = 0 THEN byIndex ELSE byIndex \cup {<<index, a>>}
    BY <1>8 DEF CallGrows
  <2>2. CASE adapter = "openai" /\ index = r
    <3>1. <<r, at[r]>> \in byIndex
      BY <1>2, <2>2 DEF Keyed
    <3> QED BY <2>1, <2>2, <3>1
  <2> QED BY <1>3, <2>1, <2>2
<1> HIDE DEF a
<1> QED BY <1>8, <1>9, <1>10 DEF StreamCore, CallGrows

LEMMA CallStartSteps ==
  ASSUME StreamPart!StreamAssumption, StreamCore, adapter # "gemini_streaming",
         StreamPart!GeminiCall \/ StreamPart!AnthropicCallStart \/ StreamPart!OpenAICallStart,
         phase' # "stopped"
  PROVE  phase' = phase /\ phase = "open" /\ StreamCore'
<1>1. /\ phase = "open" /\ chunks < MaxChunks /\ chunks' = chunks + 1 /\ adapter' = adapter
  BY DEF StreamPart!GeminiCall, StreamPart!AnthropicCallStart, StreamPart!OpenAICallStart,
         StreamPart!Chunk
<1>2. StreamPart!NextCall \in Nat /\ chunks \in Nat /\ <<>> \in Pieces
  BY <1>1, NowFacts DEF StreamPart!NextCall, Pieces
<1>3. PICK i \in {chunks + 1, NoId}, n \in Names, d \in Pieces,
           kind \in StreamPart!CallKinds, index \in Nat :
        /\ (i = NoId => adapter = "gemini") /\ (kind = "server" => adapter = "anthropic")
        /\ said' = Append(said, [kind |-> kind, id |-> i, name |-> n, body |-> d])
        /\ index = IF adapter = "openai" THEN StreamPart!NextCall ELSE 0
        /\ StreamPart!ToolCallDelta(index, i, n, d)
  <2>1. CASE StreamPart!GeminiCall
    <3>1. adapter = "gemini" /\ StreamPart!Arguments(StreamPart!NextCall) \in Pieces
      BY <1>2, <2>1, RestType DEF StreamPart!GeminiCall, StreamPart!Chunk, StreamPart!Gemini, Pieces
    <3> QED BY <2>1, <3>1 DEF StreamPart!GeminiCall, StreamPart!NewId, StreamPart!CallBlock,
                              StreamPart!CallKinds
  <2>2. CASE StreamPart!AnthropicCallStart
    <3>1. PICK i \in {chunks + 1}, n \in Names, kind \in StreamPart!CallKinds :
            /\ said' = Append(said, [StreamPart!CallBlock(i, n, <<>>) EXCEPT !.kind = kind])
            /\ StreamPart!ToolCallDelta(0, i, n, <<>>)
      BY <2>2 DEF StreamPart!AnthropicCallStart, StreamPart!NewId, StreamPart!CallKinds
    <3>2. [StreamPart!CallBlock(i, n, <<>>) EXCEPT !.kind = kind] =
            [kind |-> kind, id |-> i, name |-> n, body |-> <<>>]
      BY DEF StreamPart!CallBlock
    <3>3. i # NoId /\ adapter = "anthropic"
      BY <1>2, <2>2 DEF StreamPart!StreamAssumption, StreamPart!AnthropicCallStart, StreamPart!Chunk
    <3> QED BY <1>2, <3>1, <3>2, <3>3
  <2>3. CASE StreamPart!OpenAICallStart
    <3>1. PICK i \in {chunks + 1}, n \in Names,
               d \in StreamPart!Rest(StreamPart!NextCall, <<>>) \cup {<<>>} :
            /\ said' = Append(said, StreamPart!CallBlock(i, n, d))
            /\ StreamPart!ToolCallDelta(StreamPart!NextCall, i, n, d)
      BY <2>3 DEF StreamPart!OpenAICallStart, StreamPart!NewId
    <3>2. d \in Pieces
      BY <1>2, <3>1, RestType
    <3>3. i # NoId /\ adapter = "openai"
      BY <1>2, <2>3 DEF StreamPart!StreamAssumption, StreamPart!OpenAICallStart, StreamPart!Chunk
    <3> QED BY <1>2, <3>1, <3>2, <3>3 DEF StreamPart!CallBlock, StreamPart!CallKinds
  <2> QED BY <2>1, <2>2, <2>3
<1> DEFINE e == [kind |-> kind, id |-> i, name |-> n, body |-> d]
<1>4. /\ e \in StreamPart!Block /\ e.kind = kind /\ SameCall(e, StreamPart!CallBlock(i, n, d))
      /\ said' = Append(said, e)
  <2>1. i \in Nat \cup {NoId} /\ kind \in {"call", "server"}
    BY <1>2 DEF StreamPart!CallKinds
  <2> QED BY <1>3, <2>1 DEF StreamPart!Block, Pieces, SameCall, StreamPart!CallBlock
<1> HIDE DEF e
<1> QED BY <1>1, <1>3, <1>4, NewCallStep

LEMMA CallPieceSteps ==
  ASSUME StreamPart!StreamAssumption, StreamCore, adapter # "gemini_streaming",
         StreamPart!AnthropicJSON \/ StreamPart!OpenAICallPiece, phase' # "stopped"
  PROVE  phase' = phase /\ phase = "open" /\ StreamCore'
<1>1. /\ phase = "open" /\ chunks < MaxChunks /\ chunks' = chunks + 1 /\ adapter' = adapter
  BY DEF StreamPart!AnthropicJSON, StreamPart!OpenAICallPiece, StreamPart!Chunk
<1>2. DOMAIN said = 1..Len(said) /\ Len(said) \in Nat /\ said \in Seq(StreamPart!Block)
  BY <1>1, NowFacts
<1>3. \A k \in 1..Len(said) : Len(StreamPart!Of(StreamPart!CallKinds, SubSeq(said, 1, k))) \in Nat
  <2>1. \A k \in 1..Len(said) : SubSeq(said, 1, k) \in Seq(StreamPart!Block)
    BY <1>2
  <2>2. \A k \in 1..Len(said) :
            StreamPart!Of(StreamPart!CallKinds, SubSeq(said, 1, k)) \in Seq(StreamPart!Block)
    BY <2>1, OfType
  <2> QED BY <2>2
<1>4. CASE StreamPart!AnthropicJSON
  <2> DEFINE k == Len(said)
             m == Len(StreamPart!Of(StreamPart!CallKinds, said))
  <2>1. /\ k \in 1..Len(said) /\ said[k].kind \in StreamPart!CallKinds /\ adapter = "anthropic"
        /\ m \in Nat
        /\ StreamPart!NextCall - 1 = m
    <3>1. /\ Len(said) \in DOMAIN said /\ said[k].kind \in StreamPart!CallKinds
          /\ adapter = "anthropic"
      BY <1>4 DEF StreamPart!AnthropicJSON, StreamPart!CallsIn, StreamPart!Chunk
    <3>2. m \in Nat
      BY <1>1, NowFacts
    <3> QED BY <1>2, <3>1, <3>2 DEF StreamPart!NextCall
  <2>2. PICK d \in StreamPart!Rest(m, said[k].body) :
          /\ said' = [said EXCEPT ![k].body = @ \o d]
          /\ StreamPart!ToolCallDelta(0, said[k].id, said[k].name, d)
    BY <1>4, <2>1 DEF StreamPart!AnthropicJSON
  <2> HIDE DEF k, m
  <2> QED BY <1>1, <2>1, <2>2, MoreCallStep
<1>5. CASE StreamPart!OpenAICallPiece
  <2>1. PICK k \in StreamPart!CallsIn(said) :
          \E d \in StreamPart!Rest(Len(StreamPart!Of(StreamPart!CallKinds, SubSeq(said, 1, k))),
                                   said[k].body) :
            /\ said' = [said EXCEPT ![k].body = @ \o d]
            /\ StreamPart!ToolCallDelta(
                 Len(StreamPart!Of(StreamPart!CallKinds, SubSeq(said, 1, k))), NoId, NoId, d)
    BY <1>5 DEF StreamPart!OpenAICallPiece
  <2> DEFINE index == Len(StreamPart!Of(StreamPart!CallKinds, SubSeq(said, 1, k)))
  <2>2. /\ k \in 1..Len(said) /\ said[k].kind \in StreamPart!CallKinds /\ adapter = "openai"
        /\ index \in Nat
    BY <1>2, <1>3, <1>5, <2>1 DEF StreamPart!OpenAICallPiece, StreamPart!CallsIn, StreamPart!Chunk
  <2>3. PICK d \in StreamPart!Rest(index, said[k].body) :
          said' = [said EXCEPT ![k].body = @ \o d] /\ StreamPart!ToolCallDelta(index, NoId, NoId, d)
    BY <2>1
  <2>4. index = Len(StreamPart!Of(StreamPart!CallKinds, SubSeq(said, 1, k)))
    OBVIOUS
  <2> HIDE DEF index
  <2> QED BY <1>1, <2>2, <2>3, <2>4, MoreCallStep
<1> QED BY <1>4, <1>5

\* A piece of a call that goes to one the builder has, whichever that is.
LEMMA LooseDelta ==
  ASSUME MaxChunks \in Nat, partial \in Seq(StreamPart!Block), view \in Views, Seen(view, partial),
         Len(partial) <= MaxChunks,
         NEW i \in Nat \cup {NoId}, NEW n \in Names \cup {NoId}, NEW d \in Pieces, d # <<>>,
         StreamPart!Lookup(0, i, n) # {},
         \A k \in StreamPart!Lookup(0, i, n) : k \in 1..Len(partial) /\ partial[k].kind = "call",
         StreamPart!ToolCallDelta(0, i, n, d), phase' # "stopped"
  PROVE  \E m \in 1..Len(partial), b \in StreamPart!Block :
           partial[m].kind = "call" /\ b.kind = "call" /\ CallGrows(m, 0, b)
<1> DEFINE known == StreamPart!Lookup(0, i, n)
           a == CHOOSE k \in known : TRUE
           at == IF known = {} THEN Len(partial) + 1 ELSE CHOOSE k \in known : TRUE
           old == IF known = {} THEN StreamPart!CallBlock(i, n, <<>>) ELSE partial[at]
           new == StreamPart!CallBlock(IF old.id = NoId THEN i ELSE old.id,
                            IF old.name = NoId THEN n ELSE old.name, old.body \o d)
           b == StreamPart!CallBlock(IF partial[a].id = NoId THEN i ELSE partial[a].id,
                          IF partial[a].name = NoId THEN n ELSE partial[a].name, partial[a].body \o d)
           ev == StreamPart!Delta("call", a, i, n, d)
           events == (IF known = {} THEN <<StreamPart!Delta("call", at, i, n, <<>>)>> ELSE <<>>) \o
                     (IF d = <<>> THEN <<>> ELSE <<StreamPart!Delta("call", at, i, n, d)>>)
<1>1. /\ partial' = IF known = {} THEN Append(partial, new) ELSE [partial EXCEPT ![at] = new]
      /\ byKey' = byKey \cup (StreamPart!Key(new.id, new.name, at) \X {at})
      /\ byIndex' = IF 0 = 0 THEN byIndex ELSE byIndex \cup {<<0, at>>}
      /\ textAt' = textAt /\ thinkingAt' = thinkingAt
  BY DEF StreamPart!ToolCallDelta
<1>2. StreamPart!Yield(events)
  BY DEF StreamPart!ToolCallDelta
<1>3. known # {} /\ a \in known /\ \A k \in known : k \in 1..Len(partial) /\ partial[k].kind = "call"
  OBVIOUS
<1> HIDE DEF known
<1>4. at = a /\ a \in 1..Len(partial) /\ partial[a].kind = "call" /\ partial[a] \in StreamPart!Block
  BY <1>3
<1> HIDE DEF a
<1>5. old = partial[a]
  BY <1>3, <1>4
<1>6. new = b
  BY <1>4, <1>5
<1>7. phase' = phase /\ view' = StreamPart!AbsorbAll(view, events)
  BY <1>2 DEF StreamPart!Yield
<1>8. /\ b \in StreamPart!Block /\ b.kind = "call"
      /\ b.id = (IF partial[a].id = NoId THEN i ELSE partial[a].id)
      /\ b.name = (IF partial[a].name = NoId THEN n ELSE partial[a].name)
      /\ b.body = partial[a].body \o d
  <2>1. partial[a].body \o d \in Pieces
    BY <1>4, BodyType DEF Pieces
  <2> QED BY <1>4, <2>1 DEF StreamPart!CallBlock, StreamPart!Block, Pieces
<1>9. view' = [view EXCEPT ![a] = b]
  <2>1. events = <<>> \o <<ev>>
    BY <1>3, <1>4
  <2>2. view' = StreamPart!Absorb(view, ev)
    <3> HIDE DEF events, ev
    <3>1. /\ <<>> \o <<ev>> = <<ev>>
          /\ StreamPart!AbsorbAll(view, <<ev>>) = StreamPart!Absorb(view, ev)
      BY OneOrTwo, AbsorbEvents
    <3> QED BY <1>7, <2>1, <3>1
  <2>3. view[a] = partial[a] /\ a \in 1..MaxChunks
    BY <1>4 DEF Seen, StreamPart!TextBlock
  <2>4. ev.kind = "call" /\ ev.at = a /\ ev.id = i /\ ev.name = n /\ ev.delta = d
    BY DEF StreamPart!Delta
  <2> HIDE DEF ev
  <2>5. [kind |-> ev.kind,
         id |-> IF view[a].id = NoId THEN ev.id ELSE view[a].id,
         name |-> IF view[a].name = NoId THEN ev.name ELSE view[a].name,
         body |-> view[a].body \o ev.delta] = b
    BY <2>3, <2>4 DEF StreamPart!CallBlock
  <2> HIDE DEF b
  <2> QED BY <2>2, <2>4, <2>5 DEF StreamPart!Absorb
<1> HIDE DEF new, old, at, b
<1>10. CallGrows(a, 0, b)
  BY <1>1, <1>3, <1>4, <1>6, <1>7, <1>9 DEF CallGrows
<1> QED BY <1>4, <1>8, <1>10

\* The chunks of calls from gemini when it may stream arguments.
LEMMA LooseStep ==
  ASSUME StreamPart!StreamAssumption, StreamCore, adapter = "gemini_streaming", chunks < MaxChunks,
         adapter' = adapter, chunks' = chunks + 1,
         said' \in Seq(StreamPart!Block), \A k \in 1..Len(said') : said'[k].kind # "server",
         StreamPart!Text("text", said') = StreamPart!Text("text", said),
         StreamPart!Text("thinking", said') = StreamPart!Text("thinking", said),
         NEW i \in Nat \cup {NoId}, NEW n \in Names \cup {NoId}, NEW d \in Pieces, d # <<>>,
         StreamPart!ToolCallDelta(0, i, n, d), phase' # "stopped"
  PROVE  phase' = phase /\ StreamCore'
<1>1. /\ MaxChunks \in Nat
      /\ partial \in Seq(StreamPart!Block) /\ view \in Views /\ Seen(view, partial)
      /\ Len(partial) \in Nat /\ Len(partial) < MaxChunks /\ Len(partial) <= MaxChunks
  BY NowFacts
<1>2. byIndex = {} /\ \A q \in byKey : q[2] \in 1..Len(partial) /\ partial[q[2]].kind = "call"
  BY DEF StreamCore, Core, Found
<1>3. \A k \in StreamPart!Lookup(0, i, n) : k \in 1..Len(partial) /\ partial[k].kind = "call"
  BY <1>2 DEF StreamPart!Lookup
<1>4. Core(adapter, chunks, said, partial, view, textAt, thinkingAt, byKey, byIndex)
  BY DEF StreamCore
<1>5. CASE StreamPart!Lookup(0, i, n) = {}
  <2> DEFINE b == StreamPart!CallBlock(i, n, d)
             m == Len(partial) + 1
  <2>1. CallComes(m, 0, b)
    BY <1>1, <1>5, NewCallDelta
  <2>2. b \in StreamPart!Block /\ b.kind = "call"
    BY DEF StreamPart!CallBlock, StreamPart!Block, Pieces
  <2> HIDE DEF b
  <2>3. Core(adapter, chunks + 1, said', Append(partial, b), [view EXCEPT ![m] = b],
             textAt, thinkingAt, byKey \cup (StreamPart!Key(b.id, b.name, m) \X {m}), byIndex)
    BY <1>4, <2>2, LooseCore
  <2> HIDE DEF m
  <2> QED BY <2>1, <2>3 DEF CallComes, StreamCore
<1>6. CASE StreamPart!Lookup(0, i, n) # {}
  <2>1. PICK m \in 1..Len(partial), b \in StreamPart!Block :
          partial[m].kind = "call" /\ b.kind = "call" /\ CallGrows(m, 0, b)
    BY <1>1, <1>3, <1>6, LooseDelta
  <2>2. Core(adapter, chunks + 1, said', [partial EXCEPT ![m] = b], [view EXCEPT ![m] = b],
             textAt, thinkingAt, byKey \cup (StreamPart!Key(b.id, b.name, m) \X {m}), byIndex)
    BY <1>4, <2>1, LooseCore
  <2> QED BY <2>1, <2>2 DEF CallGrows, StreamCore
<1> QED BY <1>5, <1>6

LEMMA LooseSteps ==
  ASSUME StreamPart!StreamAssumption, StreamCore, adapter = "gemini_streaming",
         StreamPart!GeminiCall \/ StreamPart!GeminiCallStart \/ StreamPart!GeminiCallPiece,
         phase' # "stopped"
  PROVE  phase' = phase /\ phase = "open" /\ StreamCore'
<1>1. /\ phase = "open" /\ chunks < MaxChunks /\ chunks' = chunks + 1 /\ adapter' = adapter
  BY DEF StreamPart!GeminiCall, StreamPart!GeminiCallStart, StreamPart!GeminiCallPiece,
         StreamPart!Chunk
<1>2. /\ NoId \notin Nat /\ chunks \in Nat /\ said \in Seq(StreamPart!Block)
      /\ Len(said) \in Nat /\ DOMAIN said = 1..Len(said)
      /\ \A k \in 1..Len(said) : said[k].kind # "server"
  BY <1>1, NowFacts DEF StreamCore, Core
<1>3. Len(StreamPart!Of(StreamPart!CallKinds, said)) \in Nat
  BY <1>1, NowFacts
<1>4. StreamPart!NoArguments \in Pieces /\ StreamPart!NoArguments # <<>>
  BY DEF StreamPart!NoArguments, Pieces
<1>5. CASE StreamPart!GeminiCall \/ StreamPart!GeminiCallStart
  <2>1. PICK i \in {chunks + 1, NoId}, n \in Names, w \in Pieces, d \in Pieces :
          /\ d # <<>> /\ said' = Append(said, StreamPart!CallBlock(i, n, w))
          /\ StreamPart!ToolCallDelta(0, i, n, d)
    <3>1. CASE StreamPart!GeminiCall
      <4> DEFINE w == StreamPart!Arguments(StreamPart!NextCall)
      <4>1. StreamPart!NextCall \in Nat
        BY <1>3 DEF StreamPart!NextCall
      <4>2. w \in Pieces /\ w # <<>>
        BY <4>1 DEF StreamPart!Arguments, Pieces
      <4>3. PICK i \in {chunks + 1, NoId}, n \in Names :
              /\ said' = Append(said, StreamPart!CallBlock(i, n, w))
              /\ StreamPart!ToolCallDelta(0, i, n, w)
        BY <3>1 DEF StreamPart!GeminiCall, StreamPart!NewId
      <4> HIDE DEF w
      <4> QED BY <4>2, <4>3
    <3>2. CASE StreamPart!GeminiCallStart
      <4>1. <<>> \in Pieces
        BY DEF Pieces
      <4> QED BY <1>4, <3>2, <4>1 DEF StreamPart!GeminiCallStart, StreamPart!NewId
    <3> QED BY <1>5, <3>1, <3>2
  <2> DEFINE e == StreamPart!CallBlock(i, n, w)
  <2>2. e \in StreamPart!Block /\ e.kind = "call" /\ i \in Nat \cup {NoId}
    BY <1>2 DEF StreamPart!CallBlock, StreamPart!Block, Pieces
  <2>3. said' = Append(said, e)
    BY <2>1
  <2> HIDE DEF e
  <2>4. /\ StreamPart!Text("text", said') = StreamPart!Text("text", said)
        /\ StreamPart!Text("thinking", said') = StreamPart!Text("thinking", said)
    BY <1>2, <2>2, <2>3, TextAppend
  <2>5. said' \in Seq(StreamPart!Block) /\ \A k \in 1..Len(said') : said'[k].kind # "server"
    <3>1. /\ said' \in Seq(StreamPart!Block) /\ Len(said') = Len(said) + 1
          /\ said'[Len(said) + 1] = e /\ \A k \in 1..Len(said) : said'[k] = said[k]
      BY <1>2, <2>2, <2>3
    <3>2. \A k \in 1..Len(said') : k = Len(said) + 1 \/ k \in 1..Len(said)
      BY <1>2, <3>1
    <3> QED BY <1>2, <2>2, <3>1, <3>2
  <2> QED BY <1>1, <2>1, <2>2, <2>4, <2>5, LooseStep
<1>6. CASE StreamPart!GeminiCallPiece
  <2> DEFINE k == Len(said)
             m == Len(StreamPart!Of(StreamPart!CallKinds, said))
  <2>1. k \in 1..Len(said) /\ said[k].kind \in StreamPart!CallKinds
        /\ StreamPart!NextCall - 1 = m /\ m \in Nat
    BY <1>2, <1>3, <1>6 DEF StreamPart!GeminiCallPiece, StreamPart!CallsIn, StreamPart!NextCall
  <2>2. PICK d \in StreamPart!Rest(m, said[k].body), again \in BOOLEAN :
          /\ said' = [said EXCEPT ![k].body = @ \o d]
          /\ StreamPart!ToolCallDelta(0, IF again THEN said[k].id ELSE NoId,
                IF again THEN said[k].name ELSE NoId, StreamPart!NoArguments)
    BY <1>6, <2>1 DEF StreamPart!GeminiCallPiece
  <2> HIDE DEF k, m
  <2>3. said[k] \in StreamPart!Block /\ said[k].kind = "call"
    BY <1>2, <2>1 DEF StreamPart!CallKinds
  <2>4. said[k].body \in Pieces /\ d \in Pieces /\ said[k].body \o d \in Pieces
    <3>1. said[k].body \in Pieces
      BY <2>3, BodyType
    <3>2. d \in Pieces
      BY <2>1, <2>2, <3>1, RestType
    <3> QED BY <3>1, <3>2 DEF Pieces
  <2> DEFINE e == [said[k] EXCEPT !.body = @ \o d]
  <2>5. e \in StreamPart!Block /\ e.kind = "call"
    <3>1. e = [kind |-> said[k].kind, id |-> said[k].id, name |-> said[k].name,
               body |-> said[k].body \o d]
      BY <2>3, BodyMore
    <3> HIDE DEF e
    <3> QED BY <2>3, <2>4, <3>1 DEF StreamPart!Block, Pieces
  <2>6. said' = [said EXCEPT ![k] = e]
    BY <2>2
  <2> HIDE DEF e
  <2>7. /\ said' \in Seq(StreamPart!Block) /\ Len(said') = Len(said) /\ said'[k] = e
        /\ \A j \in 1..Len(said) : j # k => said'[j] = said[j]
    BY <1>2, <2>1, <2>5, <2>6, BlockChanges
  <2>8. /\ \A j \in 1..Len(said') : said'[j].kind # "server"
        /\ \A j \in 1..Len(said) : said[j] = said'[j] \/ (said[j].kind = "call" /\ said'[j].kind = "call")
    BY <1>2, <2>3, <2>5, <2>7
  <2>9. ASSUME NEW kind \in {"text", "thinking"}
        PROVE  StreamPart!Text(kind, said') = StreamPart!Text(kind, said)
    <3>1. \A j \in 1..Len(said) : said[j] = said'[j] \/ (said[j].kind # kind /\ said'[j].kind # kind)
      BY <2>8
    <3> QED BY <1>2, <2>7, <3>1, TextAlike
  <2>10. /\ (IF again THEN said[k].id ELSE NoId) \in Nat \cup {NoId}
         /\ (IF again THEN said[k].name ELSE NoId) \in Names \cup {NoId}
    BY <2>3 DEF StreamPart!Block
  <2> QED BY <1>1, <1>4, <2>2, <2>7, <2>8, <2>9, <2>10, LooseStep
<1> QED BY <1>1, <1>5, <1>6

\* A step of Stream.
LEMMA StreamStep ==
  ASSUME StreamPart!StreamAssumption, StreamInv, [StreamPart!Next]_(StreamPart!vars)
  PROVE  StreamInv'
<1>1. CASE phase = "stopped"
  <2>1. phase' = "stopped"
    BY <1>1 DEF StreamPart!Next, StreamPart!vars, StreamPart!Open, StreamPart!Generate,
                StreamPart!Chunk, StreamPart!TextChunk, StreamPart!ThinkingChunk,
                StreamPart!GeminiCall, StreamPart!GeminiNoCandidate,
                StreamPart!GeminiCallStart, StreamPart!GeminiCallPiece,
                StreamPart!AnthropicCallStart, StreamPart!AnthropicRedacted,
                StreamPart!AnthropicJSON, StreamPart!OpenAICallStart,
                StreamPart!OpenAICallPiece, StreamPart!Fails, StreamPart!Finish
  <2> QED BY <2>1 DEF StreamInv
<1>2. CASE phase # "stopped"
  <2>1. StreamCore /\ (phase = "done" => final = StreamPart!FinalContent)
    BY <1>2 DEF StreamInv, StreamCore
  <2>2. SUFFICES ASSUME phase' # "stopped"
                 PROVE  StreamCore' /\ (phase' = "done" => final' = StreamPart!FinalContent')
    BY DEF StreamInv, StreamCore
  <2>3. CASE \/ StreamPart!TextChunk \/ StreamPart!ThinkingChunk
             \/ StreamPart!AnthropicRedacted \/ StreamPart!GeminiCall
             \/ StreamPart!AnthropicCallStart \/ StreamPart!OpenAICallStart
             \/ StreamPart!AnthropicJSON \/ StreamPart!OpenAICallPiece
             \/ StreamPart!GeminiCallStart \/ StreamPart!GeminiCallPiece
    <3>1. phase' = phase /\ phase = "open" /\ StreamCore'
      <4>1. CASE adapter # "gemini_streaming"
        <5>1. ~StreamPart!GeminiCallStart /\ ~StreamPart!GeminiCallPiece
          BY <4>1 DEF StreamPart!GeminiCallStart, StreamPart!GeminiCallPiece, StreamPart!Chunk
        <5> QED BY <2>1, <2>2, <2>3, <4>1, <5>1, TextChunkStep, ThinkingSteps, CallStartSteps,
                   CallPieceSteps
      <4>2. CASE adapter = "gemini_streaming"
        <5>1. /\ ~StreamPart!AnthropicCallStart /\ ~StreamPart!OpenAICallStart
              /\ ~StreamPart!AnthropicJSON /\ ~StreamPart!OpenAICallPiece
          BY <4>2 DEF StreamPart!AnthropicCallStart, StreamPart!OpenAICallStart,
                      StreamPart!AnthropicJSON, StreamPart!OpenAICallPiece, StreamPart!Chunk
        <5> QED BY <2>1, <2>2, <2>3, <4>2, <5>1, TextChunkStep, ThinkingSteps, LooseSteps
      <4> QED BY <4>1, <4>2
    <3> QED BY <3>1
  <2>4. CASE StreamPart!GeminiNoCandidate
    <3>1. /\ phase' = phase /\ phase = "open" /\ adapter' = adapter /\ said' = said /\ view' = view
          /\ partial' = partial /\ textAt' = textAt /\ thinkingAt' = thinkingAt
          /\ byKey' = byKey /\ byIndex' = byIndex /\ chunks' = chunks + 1 /\ chunks < MaxChunks
      BY <2>4 DEF StreamPart!GeminiNoCandidate, StreamPart!Chunk, StreamPart!builder
    <3>2. Core(adapter, chunks + 1, said, partial, view, textAt, thinkingAt, byKey, byIndex)
      BY <2>1, <3>1, CoreLater DEF StreamCore, StreamPart!StreamAssumption
    <3> QED BY <3>1, <3>2 DEF StreamCore
  <2>5. CASE \/ StreamPart!Open \/ StreamPart!Generate \/ StreamPart!Fails \/ StreamPart!Finish
             \/ UNCHANGED StreamPart!vars
    <3>1. /\ adapter' = adapter /\ said' = said /\ view' = view /\ chunks' = chunks
          /\ partial' = partial /\ textAt' = textAt /\ thinkingAt' = thinkingAt
          /\ byKey' = byKey /\ byIndex' = byIndex
      BY <2>5 DEF StreamPart!Open, StreamPart!Generate, StreamPart!Fails,
                    StreamPart!Finish, StreamPart!vars, StreamPart!builder
    <3>2. StreamCore'
      BY <2>1, <3>1 DEF StreamCore
    <3>3. StreamPart!FinalContent' = StreamPart!FinalContent
      BY <3>1 DEF StreamPart!FinalContent, StreamPart!AnthropicContent
    <3>4. phase' = "done" => final' = StreamPart!FinalContent
      BY <2>1, <2>5 DEF StreamPart!Open, StreamPart!Generate, StreamPart!Fails,
                          StreamPart!Finish, StreamPart!vars
    <3> QED BY <3>2, <3>3, <3>4
  <2> QED BY <2>3, <2>4, <2>5 DEF StreamPart!Next
<1> QED BY <1>1, <1>2
=============================================================================
