------------------------------- MODULE Hooks -------------------------------
(* The extensions that an embedding program puts around a run of one llm agent
   (agent/extension.go): before and after the run (runner/invocation.go), on
   every event, and before and after each call of the model and of a tool
   (internal/llminternal/base_flow.go).  A behaviour is a session whose runs take
   turns; when a call is pending, the next run resumes it.

   An extension may answer anything: what is decided here is whose answer counts,
   what it skips, and what then becomes of the tool calls.  A message is the
   number of the call it makes, 0 for none; those of 0 are not kept.  Whether a
   tool's result is the tool's or that of an extension makes no difference, and
   AfterToolCall, which can only replace it, is left out.  TurnExtensions are in
   Turns, batches of calls and transfers in Runner. *)
EXTENDS Naturals, Sequences, FiniteSetsExt

CONSTANTS
  Extensions,  \* how many there are
  MaxStarts, MaxSpoken,
  None

VARIABLES
  stage,     \* the hook or call that is due, "idle" between runs
  starts,    \* how many runs there were
  spoken,    \* how many messages the model and the model extensions gave
  written,   \* the session's messages that make or answer a call
  checkpoint,
  resumeRun, wroteInterruptCheckpoint,   \* of the invocation
  call,      \* the call that the run has in hand, 0 for none
  event,     \* the event that OnEvent is to see, and what follows it
  refused,   \* the calls an extension has refused
  halted,    \* the calls an extension has paused
  executed, twice,   \* the calls whose tool was executed, and was so again
  meddled,   \* the calls of which an extension dropped an event, or a resume
  broken     \* the calls a run had in hand when it failed or was stopped
vars ==
  <<stage, starts, spoken, written, checkpoint, resumeRun, wroteInterruptCheckpoint, call,
    event, refused, halted, executed, twice, meddled, broken>>

HooksAssumption ==
  /\ Extensions \in Nat /\ MaxStarts \in Nat \ {0} /\ MaxSpoken \in Nat \ {0}
  /\ None \notin [call : Nat, found : BOOLEAN]

Answers(words) == [1 .. Extensions -> words]

\* As it would be if an extension could take back what one before it has answered.
FirstWordIsLast(answers) ==
  LET said == {e \in 1 .. Extensions : answers[e] # "pass"}
  IN IF said = {} THEN "pass" ELSE answers[Max(said)]

\* ForEach, for the hooks that stop at the first extension with an answer.
FirstWord(answers) ==
  LET said == {e \in 1 .. Extensions : answers[e] # "pass"}
  IN IF said = {} THEN "pass" ELSE answers[Min(said)]

\* ForEach, for the hooks that go on with a replacement and stop at `stops'.
LastWord(answers, stops) ==
  LET said == {e \in 1 .. Extensions : answers[e] # "pass"}
      halt == {e \in said : answers[e] \in stops}
  IN IF said = {} THEN "pass" ELSE answers[IF halt = {} THEN Max(said) ELSE Min(halt)]

Init ==
  /\ stage = "idle" /\ starts = 0 /\ spoken = 0 /\ written = <<>> /\ checkpoint = None
  /\ resumeRun = FALSE /\ wroteInterruptCheckpoint = FALSE /\ call = 0 /\ event = None
  /\ refused = {} /\ halted = {} /\ executed = {} /\ twice = {} /\ meddled = {} /\ broken = {}

storeVars == <<written, checkpoint, wroteInterruptCheckpoint>>
historyVars == <<refused, halted, executed, twice, meddled>>
\* What a step leaves alone that neither writes nor decides on a call.
rest == <<starts, spoken, storeVars, resumeRun, historyVars>>

\* The run is over: it ends with an error, or its consumer stops.
Over ==
  /\ stage' = "idle" /\ event' = None /\ call' = 0
  /\ broken' = broken \cup
       (({call} \cup IF resumeRun /\ ~wroteInterruptCheckpoint THEN {checkpoint.call} ELSE {})
          \ {0})

Fails == Over /\ UNCHANGED rest

\* An event of the agent, or of a hook in its place; `next' is due when it is yielded.
Emit(kind, c, next) ==
  /\ stage' = "OnEvent" /\ event' = [kind |-> kind, call |-> c, next |-> next]

GoTo(next) == stage' = next /\ UNCHANGED <<call, event, broken, rest>>

Start ==
  /\ stage = "idle" /\ starts < MaxStarts
  /\ stage' = "BeforeRun" /\ starts' = starts + 1
  /\ resumeRun' = (checkpoint # None) /\ wroteInterruptCheckpoint' = FALSE
  /\ UNCHANGED <<spoken, written, checkpoint, call, event, broken, historyVars>>

BeforeRun ==
  /\ stage = "BeforeRun"
  /\ \E answers \in Answers({"pass", "message", "error"}) :
       LET word == FirstWord(answers)
       IN \/ word = "pass" /\ GoTo(IF resumeRun THEN "resume" ELSE "BeforeModelCall")
          \/ word = "error" /\ Fails
          \/ /\ word = "message" /\ Emit("message", 0, "AfterRun")
             /\ meddled' = meddled \cup (IF resumeRun THEN {checkpoint.call} ELSE {})
             /\ UNCHANGED <<starts, spoken, storeVars, resumeRun, call, refused, halted, executed,
                            twice, broken>>

\* The events of a step: persistEvent, the checkpoint of an interrupt, and yield.
\* A redacted message or interrupt is another event in its place.
Record(redacted) ==
  LET c == IF redacted THEN 0 ELSE event.call
      paused == event.kind = "interrupt" /\ ~redacted
      logged == event.kind # "interrupt" /\ c # 0
  IN /\ written' = IF logged THEN Append(written, [kind |-> event.kind, call |-> c]) ELSE written
     /\ checkpoint' =
          IF ~paused THEN checkpoint
          ELSE [call |-> c,
                found |-> \E i \in DOMAIN written : written[i] = [kind |-> "message", call |-> c]]
     /\ wroteInterruptCheckpoint' = (wroteInterruptCheckpoint \/ paused)

\* What is in hand when the event is out.
After == IF event.kind = "message" THEN call ELSE 0

OnEvent ==
  /\ stage = "OnEvent"
  /\ \E answers \in Answers({"pass", "redact", "filter", "error"}) :
       LET word == IF LastWord(answers, {"filter", "error"}) \in {"filter", "error"}
                   THEN LastWord(answers, {"filter", "error"})
                   ELSE IF \E e \in DOMAIN answers : answers[e] = "redact" THEN "redact"
                   ELSE "pass"
           dropped == IF word \in {"redact", "filter"} THEN {event.call} \ {0} ELSE {}
       IN \/ word = "error" /\ Fails
          \/ /\ word = "filter" /\ meddled' = meddled \cup dropped
             /\ stage' = event.next /\ event' = None /\ call' = After
             /\ UNCHANGED <<starts, spoken, storeVars, resumeRun, refused, halted, executed, twice,
                            broken>>
          \/ word \in {"pass", "redact"} /\ Fails   \* a write fails
          \/ /\ word \in {"pass", "redact"} /\ Record(word = "redact")
             /\ meddled' = meddled \cup dropped
             /\ \/ /\ stage' = event.next /\ event' = None /\ call' = After
                   /\ UNCHANGED broken
                \/ /\ stage' = "idle" /\ event' = None /\ call' = 0   \* the consumer stops
                   /\ broken' = broken \cup
                        (({After} \cup IF resumeRun /\ ~wroteInterruptCheckpoint'
                                       THEN {checkpoint.call} ELSE {}) \ {0})
             /\ UNCHANGED <<starts, spoken, resumeRun, refused, halted, executed, twice>>

\* A message of the model, or of an extension in its place.
Speaks(word) ==
  LET c == IF word = "call" THEN spoken + 1 ELSE 0
  IN /\ spoken' = spoken + 1 /\ call' = c
     /\ Emit("message", c, IF c = 0 THEN "AfterRun" ELSE "BeforeToolCall")
     /\ UNCHANGED <<starts, storeVars, resumeRun, historyVars, broken>>

BeforeModelCall ==
  /\ stage = "BeforeModelCall" /\ spoken < MaxSpoken
  /\ \E answers \in Answers({"pass", "call", "answer", "error"}) :
       LET word == FirstWord(answers)
       IN \/ word = "pass" /\ GoTo("model")
          \/ word = "error" /\ Fails
          \/ word \in {"call", "answer"} /\ Speaks(word)

\* The model's answer goes through AfterModelCall, its error does not.
AfterModelCall ==
  /\ stage = "model"
  /\ \/ Fails
     \/ \E said \in {"call", "answer"},
           answers \in Answers({"pass", "call", "answer", "error"}) :
          LET word == LastWord(answers, {"error"})
          IN \/ word = "error" /\ Fails
             \/ word # "error" /\ Speaks(IF word = "pass" THEN said ELSE word)

\* A result without content is none: the tool is executed.  An error that is an
\* interrupt, with the address of the call, pauses it, as the tool could.
BeforeToolCall ==
  /\ stage = "BeforeToolCall"
  /\ \E answers \in Answers({"pass", "result", "empty", "pause", "error"}) :
       LET word == FirstWord(answers)
           first(words) == \E e \in 1 .. Extensions :
                             answers[e] \in words /\ \A d \in 1 .. e - 1 : answers[d] = "pass"
       IN /\ refused' = refused \cup (IF first({"result", "error"}) THEN {call} ELSE {})
          /\ halted' = halted \cup (IF first({"pause"}) THEN {call} ELSE {})
          /\ \/ word \in {"pass", "empty"} /\ stage' = "tool" /\ UNCHANGED event
             \/ word \in {"result", "error"} /\ Emit("result", call, "BeforeModelCall")
             \/ word = "pause" /\ Emit("interrupt", call, "AfterRun")
          /\ UNCHANGED <<starts, spoken, storeVars, resumeRun, call, executed, twice, meddled,
                         broken>>

Executes(c) ==
  /\ executed' = executed \cup {c} /\ twice' = twice \cup (executed \cap {c})
  /\ Emit("result", c, "BeforeModelCall")
  /\ UNCHANGED <<starts, spoken, storeVars, resumeRun, refused, halted, meddled, broken>>

Tool ==
  /\ stage = "tool"
  /\ \/ Executes(call) /\ UNCHANGED call
     \/ Emit("interrupt", call, "AfterRun") /\ UNCHANGED <<call, broken, rest>>

\* The pending call, which has been through BeforeToolCall: no extension is asked
\* again, whoever paused it.
Resume ==
  /\ stage = "resume"
  /\ \/ checkpoint.found /\ Executes(checkpoint.call) /\ call' = checkpoint.call
     \/ Fails   \* nothing found to resume, no answer, or a pause again

Finalize ==
  checkpoint' = IF resumeRun /\ ~wroteInterruptCheckpoint THEN None ELSE checkpoint

AfterRun ==
  /\ stage = "AfterRun"
  /\ \/ Fails   \* a hook, or the write of the checkpoint
     \/ /\ Finalize /\ stage' = "idle"
        /\ UNCHANGED <<starts, spoken, written, wroteInterruptCheckpoint, resumeRun, call,
                       event, broken, historyVars>>

Next ==
  \/ Start \/ BeforeRun \/ OnEvent \/ BeforeModelCall \/ AfterModelCall \/ BeforeToolCall
  \/ Tool \/ Resume \/ AfterRun

Spec == Init /\ [][Next]_vars

-----------------------------------------------------------------------------
CallNumbers == 1 .. MaxSpoken

(* The type invariant. *)
TypeOK ==
  /\ stage \in {"idle", "BeforeRun", "OnEvent", "BeforeModelCall", "model", "BeforeToolCall",
               "tool", "resume", "AfterRun"}
  /\ starts \in 0 .. MaxStarts /\ spoken \in 0 .. MaxSpoken
  /\ written \in Seq([kind : {"message", "result"}, call : CallNumbers])
  /\ checkpoint \in {None} \cup [call : CallNumbers, found : BOOLEAN]
  /\ resumeRun \in BOOLEAN /\ wroteInterruptCheckpoint \in BOOLEAN
  /\ call \in {0} \cup CallNumbers
  /\ event \in {None} \cup [kind : {"message", "result", "interrupt"}, call : {0} \cup CallNumbers,
                           next : {"BeforeModelCall", "BeforeToolCall", "AfterRun"}]
  /\ \A calls \in {refused, halted, executed, twice, meddled, broken} : calls \subseteq CallNumbers

Numbers(kind) == {written[i].call : i \in {j \in DOMAIN written : written[j].kind = kind}}

(* Extensions decide, and the calls they leave alone are safe from them: a call
   that one refused, with a result or with an error that is no interrupt, is not
   executed, in that run or by a resume; one that an extension paused is not
   executed by that run, but by its resume, which does not ask the extension again;
   one is executed again only when a run that had it in hand did not end well; and
   unless an extension dropped the event, or took the place of the resume, every
   result follows its call, what is pending can be resumed, and no run ends well
   with a call that is neither answered nor pending. *)
HooksDecide ==
  /\ executed \cap refused = {}
  /\ stage = "tool" => call \notin halted
  /\ twice \subseteq broken
  /\ \A i \in DOMAIN written :
       \/ written[i].kind = "message" \/ written[i].call \in meddled
       \/ \E j \in 1 .. i - 1 : written[j] = [kind |-> "message", call |-> written[i].call]
  /\ checkpoint # None => checkpoint.found \/ checkpoint.call \in meddled
  /\ stage = "idle" =>
       \A c \in Numbers("message") \ (meddled \cup broken) :
         \/ c \in Numbers("result")
         \/ checkpoint # None /\ checkpoint.call = c
=============================================================================
