------------------------------- MODULE Turns -------------------------------
(***************************************************************************)
(* The turns of an llm agent (agent/llmagent, run) and the extensions that *)
(* take part in them, the steering extension (tool/steering) above all:    *)
(* callers queue messages while the agent runs, and the turn that ends     *)
(* takes them.  The extension outlives the runs that it is given to.  What *)
(* others inject, before a turn or after it, is yielded with these.        *)
(*                                                                         *)
(* A step of the flow is one action here; Runner has its steps.            *)
(***************************************************************************)
EXTENDS Naturals, Sequences, Kept

CONSTANTS
  MaxMessages,  \* bounds the messages that are queued or injected
  MaxTurns,     \* bounds the turns of a run that do not answer one
  MaxRuns       \* bounds the runs

TurnsAssumption == MaxMessages \in Nat /\ MaxTurns \in Nat /\ MaxRuns \in Nat

VARIABLES
  pending,     \* the steering messages
  followUp,    \* the follow-up messages
  pc,          \* where the run is
  resumed,     \* its first step resumes a tool, and has no model call
  turn,        \* turnIndex
  continue,    \* stepResult.Continue
  ctrl,        \* beforeCtrl or afterCtrl, with the messages not yielded yet
  injected,    \* afterInjected
  persisted,   \* the messages that were persisted to the session
  \* history
  runs,        \* the runs there were
  verdict,     \* how the last one ended
  sent,        \* the messages that were queued or injected
  shown,       \* the messages that were yielded
  lost,        \* the messages that a turn took, and could not yield
  unheard      \* the messages that this run yielded, and no request has had yet

extension == <<pending, followUp>>
locals == <<resumed, turn, continue, ctrl, injected>>
history == <<runs, verdict, sent, shown, lost, unheard>>
vars == <<extension, pc, locals, persisted, history>>

Message == [n : 1..MaxMessages, how : {"steer", "followUp", "hook"}, role : {"user", "assistant"}]
NoControl == [Messages |-> <<>>, Continue |-> FALSE, EndInvocation |-> FALSE]
Members(s) == {s[k] : k \in DOMAIN s}

Init ==
  /\ pending = <<>> /\ followUp = <<>> /\ pc = "over"
  /\ resumed = FALSE /\ turn = 0 /\ continue = FALSE /\ ctrl = NoControl /\ injected = FALSE
  /\ persisted = {}
  /\ runs = 0 /\ verdict = "none" /\ sent = <<>> /\ shown = <<>> /\ lost = {} /\ unheard = {}

-----------------------------------------------------------------------------
(* The callers of the extension *)

NewMessage(how) == {[n |-> Len(sent) + 1, how |-> how, role |-> r] : r \in {"user", "assistant"}}

Steer ==
  /\ Len(sent) < MaxMessages
  /\ \E m \in NewMessage("steer") : pending' = Append(pending, m) /\ sent' = Append(sent, m)
  /\ UNCHANGED <<followUp, pc, locals, persisted, runs, verdict, shown, lost, unheard>>

FollowUp ==
  /\ Len(sent) < MaxMessages
  /\ \E m \in NewMessage("followUp") : followUp' = Append(followUp, m) /\ sent' = Append(sent, m)
  /\ UNCHANGED <<pending, pc, locals, persisted, runs, verdict, shown, lost, unheard>>

-----------------------------------------------------------------------------
(* The run *)

Start ==
  /\ pc = "over" /\ runs < MaxRuns
  /\ pc' = "turn" /\ runs' = runs + 1 /\ verdict' = "none"
  /\ resumed' \in BOOLEAN /\ turn' = 0 /\ unheard' = {}
  /\ UNCHANGED <<extension, continue, ctrl, injected, persisted, sent, shown, lost>>

\* The run ends: by itself, at an extension's wish, for an interrupt or a
\* transfer, by an error, or because nobody takes its events any more.
End(how) == pc' = "over" /\ verdict' = how /\ ctrl' = NoControl

\* What the other extensions may inject at a time.
Injections ==
  {<<>>} \cup {<<m>> : m \in IF Len(sent) < MaxMessages THEN NewMessage("hook") ELSE {}}

\* TurnStart, and the BeforeTurn hooks.
BeginTurn ==
  /\ pc = "turn"
  /\ \/ (\E how \in {"failed", "gone"} : End(how)) /\ UNCHANGED sent
     \/ \E messages \in Injections, end \in BOOLEAN :
          /\ pc' = "before" /\ sent' = sent \o messages
          /\ ctrl' = [Messages |-> messages, Continue |-> FALSE, EndInvocation |-> end]
          /\ UNCHANGED verdict
  /\ UNCHANGED <<extension, resumed, turn, continue, injected, persisted, runs, shown, lost, unheard>>

\* The messages are yielded, and on the first turn the user's.
BeginStep ==
  /\ pc = "before" /\ ctrl.Messages = <<>>
  /\ IF ctrl.EndInvocation THEN End("ended")
     ELSE \/ pc' = "step" /\ ctrl' = NoControl /\ UNCHANGED verdict
          \/ turn = 0 /\ ~resumed /\ End("gone")
  /\ UNCHANGED <<extension, resumed, turn, continue, injected, persisted, runs, sent, shown, lost, unheard>>

\* A resume has no model call in its first step.
ResumesTools == resumed /\ turn = 0

\* Flow.Step: a model call, or the tools that the run resumes; and whether the
\* agent would go on.  The request is made of what was persisted.
Step ==
  /\ pc = "step" /\ pc' = "after"
  /\ continue' \in (IF turn < MaxTurns THEN BOOLEAN ELSE {FALSE})
  /\ unheard' = IF ResumesTools THEN unheard ELSE unheard \ persisted
  /\ UNCHANGED <<extension, resumed, turn, ctrl, injected, persisted, runs, verdict, sent, shown, lost>>

StepLeaves ==
  /\ pc = "step" /\ \E how \in {"interrupted", "transferred", "failed", "gone"} : End(how)
  /\ UNCHANGED <<extension, resumed, turn, continue, injected, persisted, runs, sent, shown, lost, unheard>>

\* Mutant: follow-ups go with the steering messages.
TakeClearsBoth ==
  IF pending # <<>>
  THEN [pending |-> <<>>, followUp |-> <<>>, Messages |-> pending, Continue |-> FALSE]
  ELSE [pending |-> <<>>, followUp |-> <<>>, Messages |-> followUp, Continue |-> followUp # <<>>]

\* AfterTurn of the steering extension: its queues, and what is in ctrl, after.
Take ==
  IF pending # <<>>
  THEN [pending |-> <<>>, followUp |-> followUp, Messages |-> pending, Continue |-> FALSE]
  ELSE [pending |-> <<>>, followUp |-> <<>>, Messages |-> followUp, Continue |-> followUp # <<>>]

\* The AfterTurn hooks: of the extensions listed before this one, of this one,
\* and of those after.  An error ends the run, with what was taken.
AfterTurn ==
  /\ pc = "after"
  /\ \E before, after \in {"nil", "continue", "end", "error"} :
       IF before = "error"
       THEN End("failed") /\ UNCHANGED <<extension, injected, sent, lost>>
       ELSE /\ pending' = Take.pending /\ followUp' = Take.followUp
            /\ IF after = "error"
               THEN /\ End("failed") /\ lost' = lost \cup Members(Take.Messages)
                    /\ UNCHANGED <<injected, sent>>
               ELSE /\ turn < MaxTurns \/ "continue" \notin {before, after}
                    /\ pc' = "yield" /\ injected' = FALSE
                    /\ \E messages \in Injections, first \in BOOLEAN :
                         /\ sent' = sent \o messages
                         /\ ctrl' = [Messages |-> IF first THEN messages \o Take.Messages
                                                  ELSE Take.Messages \o messages,
                                     Continue |-> Take.Continue \/ "continue" \in {before, after},
                                     EndInvocation |-> "end" \in {before, after}]
                    /\ UNCHANGED <<verdict, lost>>
  /\ UNCHANGED <<resumed, turn, continue, persisted, runs, shown, unheard>>

\* yieldMessage; the persistor leaves the user's messages out.
Yield ==
  /\ pc \in {"before", "yield"} /\ ctrl.Messages # <<>>
  /\ LET m == ctrl.Messages[1]
     IN  /\ shown' = Append(shown, m)
         /\ persisted' = IF m.role = "user" THEN persisted ELSE persisted \cup {m}
         /\ unheard' = unheard \cup {m}
  /\ ctrl' = [ctrl EXCEPT !.Messages = Tail(@)]
  /\ injected' = IF pc = "yield" THEN TRUE ELSE injected
  /\ UNCHANGED <<extension, pc, resumed, turn, continue, runs, verdict, sent, lost>>

YieldStops ==
  /\ pc \in {"before", "yield"} /\ ctrl.Messages # <<>>
  /\ End("gone") /\ lost' = lost \cup Members(ctrl.Messages)
  /\ UNCHANGED <<extension, resumed, turn, continue, injected, persisted, runs, sent, shown, unheard>>

\* Mutant: only a follow-up makes another turn.
GoesOnIfAsked == continue \/ ctrl.Continue

GoesOn == injected \/ continue \/ ctrl.Continue

NextTurn ==
  /\ pc = "yield" /\ ctrl.Messages = <<>>
  /\ IF ctrl.EndInvocation THEN End("ended") /\ UNCHANGED turn
     ELSE IF ~GoesOn THEN End("ok") /\ UNCHANGED turn
     ELSE pc' = "turn" /\ turn' = turn + 1 /\ ctrl' = NoControl /\ UNCHANGED verdict
  /\ UNCHANGED <<extension, resumed, continue, injected, persisted, runs, sent, shown, lost, unheard>>

Next ==
  \/ Steer \/ FollowUp \/ Start
  \/ BeginTurn \/ BeginStep \/ Step \/ StepLeaves \/ AfterTurn \/ Yield \/ YieldStops \/ NextTurn

Spec == Init /\ [][Next]_vars

-----------------------------------------------------------------------------
(* Properties *)

(* Type invariant: the queues, the run and its control. *)
TypeOK ==
  /\ UNION {Members(q) : q \in {pending, followUp, ctrl.Messages, sent, shown}} \subseteq Message
  /\ persisted \cup lost \cup unheard \subseteq Message
  /\ pc \in {"over", "turn", "before", "step", "after", "yield"}
  /\ ctrl.Messages # <<>> => pc \in {"before", "yield"}
  /\ turn \in 0..(MaxTurns + MaxMessages) /\ runs \in 0..MaxRuns
  /\ {resumed, continue, injected, ctrl.Continue, ctrl.EndInvocation} \subseteq BOOLEAN
  /\ verdict \in {"none", "ok", "ended", "interrupted", "transferred", "failed", "gone"}

Sent(how) == {m \in Message : m.how = how}

(* However the callers, the turns and the runs interleave, and whatever else is
   injected between: the steering messages are yielded once each, in the order in
   which they were queued, and so are the follow-ups; the ones left out are those
   that a turn had taken when the run failed or lost its consumer. *)
QueuedAreShown ==
  \A how \in {"steer", "followUp"} :
    LET queue == IF how = "steer" THEN pending ELSE followUp
    IN  Keep(shown \o ctrl.Messages \o queue, Sent(how)) = Keep(sent, Sent(how) \ lost)

(* When a run ends by itself, a request to the model has had every message that
   it yielded, before a turn or after one, but for those in the role of the user,
   which the persistor leaves out and no request has.  A resume that ends with its
   tools has made no request. *)
ShownAreAnswered ==
  verdict = "ok" /\ ~ResumesTools => \A m \in unheard : m.role = "user"
=============================================================================
