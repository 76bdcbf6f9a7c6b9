-------------------------------- MODULE Tui --------------------------------
(***************************************************************************)
(* The terminal UI (cmd/tui/app): the model that Update changes for a key  *)
(* and for an event, and the run in the background that sends the events.  *)
(* Sending one waits for Update, so that an event is a joint step of both. *)
(*                                                                         *)
(* The run is that of Runner, as far as the UI can tell: it says texts,    *)
(* saves a checkpoint before the interrupt that it then sends, and always  *)
(* ends with AgentEnd.  Tools are approvals only; their blocks, thinking,  *)
(* models and what is drawn are left out.                                  *)
(***************************************************************************)
EXTENDS Naturals, FiniteSets, Sequences, Kept

CONSTANTS
  SessionIds, \* the sessions
  None,       \* no session
  MaxTexts,   \* bounds the messages
  MaxAsked    \* bounds the interrupts

TuiAssumption == None \notin SessionIds /\ MaxTexts \in Nat /\ MaxAsked \in Nat

VARIABLES
  \* the store
  entries,     \* the messages of each session, in order; no entry: not created
  pending,     \* the pending interrupts of each session's checkpoint
  \* Model
  currentSession, modal, runActive,
  approvalQueue,      \* the interrupts still to decide, by their ids
  approvalDecisions,  \* the interrupts decided on
  transcript,         \* its blocks: messages, user's or assistant's
  currentTextBlock,   \* the index of the block that texts go to, or 0 for -1
  \* the run
  pc,          \* where it is
  on,          \* its session
  input,       \* its user message, or 0
  resumeData,  \* the interrupts that it was given decisions for
  saying,      \* the message whose deltas are coming, or 0
  \* history
  texts,       \* the messages there were: numbers, in the order of their first sight
  asked,       \* the interrupts there were
  last,        \* the last message of the run that was saved, or 0
  kept         \* the messages that must not be lost from sight

store == <<entries, pending>>
ui == <<currentSession, modal, runActive, approvalQueue, approvalDecisions, transcript, currentTextBlock>>
run == <<pc, on, input, resumeData, saying>>
history == <<texts, asked, last, kept>>
vars == <<store, ui, run, history>>

Nowhere == <<0>>  \* the entries of a session that is not created

Init ==
  /\ entries = [s \in SessionIds |-> Nowhere] /\ pending = [s \in SessionIds |-> {}]
  /\ currentSession = None /\ modal = "none" /\ runActive = FALSE
  /\ approvalQueue = <<>> /\ approvalDecisions = {} /\ transcript = <<>> /\ currentTextBlock = 0
  /\ pc = "none" /\ on = None /\ input = 0 /\ resumeData = {} /\ saying = 0
  /\ texts = 0 /\ asked = 0 /\ last = 0 /\ kept = {}

Created == {s \in SessionIds : entries[s] # Nowhere}

Members(q) == {q[k] : k \in DOMAIN q}
\* Its members, each once and in order.
Sorted(S) ==
  CHOOSE q \in [1..Cardinality(S) -> S] :
    Members(q) = S /\ \A i, j \in DOMAIN q : i < j => q[i] < q[j]

\* Mutant: the texts of a run go where those of the one before went.
StreamingStateKept == currentTextBlock

\* resetStreamingState.
StreamingState == 0

-----------------------------------------------------------------------------
(* Keys *)

\* createSession, after /new, or for the first message.
CreateSession(s) ==
  /\ s \notin Created
  /\ entries' = [entries EXCEPT ![s] = <<>>] /\ currentSession' = s

Launch(s, message, data) ==
  /\ runActive' = TRUE /\ pc' = "start" /\ on' = s /\ input' = message /\ resumeData' = data
  /\ saying' = 0 /\ last' = 0

\* submitMessage.
SubmitMessage ==
  /\ modal = "none" /\ ~runActive /\ texts < MaxTexts
  /\ \/ currentSession # None /\ UNCHANGED <<entries, currentSession>>
     \/ currentSession = None /\ \E s \in SessionIds : CreateSession(s)
  /\ texts' = texts + 1 /\ transcript' = Append(transcript, texts')
  /\ currentTextBlock' = StreamingState
  /\ Launch(currentSession', texts', {})
  /\ UNCHANGED <<pending, modal, approvalQueue, approvalDecisions, asked, kept>>

\* handleSlash: /new.
New ==
  /\ modal = "none" /\ ~runActive
  /\ \E s \in SessionIds : CreateSession(s)
  /\ transcript' = <<>> /\ currentTextBlock' = StreamingState
  /\ approvalQueue' = <<>> /\ approvalDecisions' = {}
  /\ UNCHANGED <<pending, modal, runActive, run, history>>

\* loadPendingApprovals; the checkpoint may be unreadable.
LoadPendingApprovals(s, readable) ==
  /\ approvalQueue' = IF readable THEN Sorted(pending[s]) ELSE <<>>
  /\ approvalDecisions' = {}
  /\ modal' = IF approvalQueue' = <<>> THEN "none" ELSE "approval"

\* handleSlash: /sessions, which a suggestion offers while a run is active too.
OpenSessions ==
  /\ modal = "none" /\ modal' = "sessions"
  /\ UNCHANGED <<store, currentSession, runActive, approvalQueue, approvalDecisions,
                 transcript, currentTextBlock, run, history>>

\* rebuildTranscriptFromSession: a block for each message with a text.
RebuiltTranscript(s) == entries[s]

\* loadSession, from the list of sessions, with /resume <id>, or when it starts.
LoadSession(s, readable) ==
  /\ currentSession' = s
  /\ transcript' = RebuiltTranscript(s) /\ currentTextBlock' = StreamingState
  /\ LoadPendingApprovals(s, readable)

PickSession ==
  /\ modal = "sessions" /\ ~runActive
  /\ \E s \in Created, readable \in BOOLEAN : LoadSession(s, readable)
  /\ UNCHANGED <<store, runActive, run, history>>

\* handleSlash: /resume.
Resume ==
  /\ modal = "none" /\ ~runActive /\ currentSession # None
  /\ \E readable \in BOOLEAN : LoadPendingApprovals(currentSession, readable)
  /\ UNCHANGED <<store, currentSession, runActive, transcript, currentTextBlock, run, history>>

\* Esc closes what is open; an approval is kept pending.
CloseModal ==
  /\ modal # "none" /\ modal' = "none"
  /\ UNCHANGED <<store, currentSession, runActive, approvalQueue, approvalDecisions,
                 transcript, currentTextBlock, run, history>>

\* resolveApproval: the last decision starts the run that resumes, unless its
\* checkpoint cannot be prepared.
ResolveApproval ==
  /\ modal = "approval" /\ ~runActive /\ approvalQueue # <<>>
  /\ approvalQueue' = Tail(approvalQueue)
  /\ LET decided == approvalDecisions \cup {approvalQueue[1]}
     IN  IF Len(approvalQueue) > 1
         THEN /\ approvalDecisions' = decided
              /\ UNCHANGED <<modal, runActive, currentTextBlock, run, last>>
         ELSE /\ modal' = "none" /\ currentTextBlock' = StreamingState
              /\ \/ Launch(currentSession, 0, decided) /\ approvalDecisions' = {}
                 \/ approvalDecisions' = decided /\ UNCHANGED <<runActive, run, last>>
  /\ UNCHANGED <<store, currentSession, transcript, texts, asked, kept>>

-----------------------------------------------------------------------------
(* The run, and the events that it sends *)

\* The run fails before it has started, the agent or the store fails, or Esc
\* cancels it.
Fails ==
  /\ pc \in {"start", "loop"} /\ pc' = "failed"
  /\ UNCHANGED <<store, ui, on, input, resumeData, saying, history>>

\* The user's message is saved, or the calls that the data is for are run.
Starts ==
  /\ pc = "start" /\ (input # 0 \/ pending[on] \subseteq resumeData) /\ pc' = "loop"
  /\ entries' = IF input = 0 THEN entries ELSE [entries EXCEPT ![on] = Append(@, input)]
  /\ kept' = IF input = 0 THEN kept ELSE kept \cup {input}
  /\ UNCHANGED <<pending, ui, on, input, resumeData, saying, texts, asked, last>>

\* upsertAssistantText.
UpsertAssistantText(n) ==
  IF currentTextBlock = 0
  THEN transcript' = Append(transcript, n) /\ currentTextBlock' = Len(transcript')
  ELSE transcript' = [transcript EXCEPT ![currentTextBlock] = n] /\ UNCHANGED currentTextBlock

\* TextDelta.
Says ==
  /\ pc = "loop" /\ saying = 0 /\ texts < MaxTexts
  /\ texts' = texts + 1 /\ saying' = texts' /\ UpsertAssistantText(texts')
  /\ UNCHANGED <<store, currentSession, modal, runActive, approvalQueue, approvalDecisions,
                 pc, on, input, resumeData, asked, last, kept>>

\* MessageEnd, once the message is saved.
HasSaid ==
  /\ pc = "loop" /\ saying # 0 /\ saying' = 0 /\ last' = saying
  /\ entries' = [entries EXCEPT ![on] = Append(@, saying)] /\ UpsertAssistantText(saying)
  /\ UNCHANGED <<pending, currentSession, modal, runActive, approvalQueue, approvalDecisions,
                 pc, on, input, resumeData, texts, asked, kept>>

\* The calls of a message wait for approval: the checkpoint is saved.
Pauses ==
  /\ pc = "loop" /\ saying = 0 /\ pc' = "paused"
  /\ \E n \in 1..2 :
       /\ asked + n <= MaxAsked /\ asked' = asked + n
       /\ pending' = [pending EXCEPT ![on] = asked + 1 .. asked + n]
  /\ UNCHANGED <<entries, ui, on, input, resumeData, saying, texts, last, kept>>

\* Mutant: decisions on an earlier pause are left.
InterruptEventKeeps ==
  /\ pc = "paused" /\ pc' = "ended"
  /\ approvalQueue' = Sorted(pending[on]) /\ modal' = "approval"
  /\ UNCHANGED <<store, currentSession, runActive, approvalDecisions, transcript,
                 currentTextBlock, on, input, resumeData, saying, history>>

\* Interrupt.
InterruptEvent ==
  /\ pc = "paused" /\ pc' = "ended"
  /\ approvalQueue' = Sorted(pending[on]) /\ approvalDecisions' = {} /\ modal' = "approval"
  /\ UNCHANGED <<store, currentSession, runActive, transcript, currentTextBlock,
                 on, input, resumeData, saying, history>>

\* The run completes; finalize clears the checkpoint that it resumed.
Completes ==
  /\ pc = "loop" /\ saying = 0 /\ pc' = "ended"
  /\ pending' = IF input = 0 THEN [pending EXCEPT ![on] = {}] ELSE pending
  /\ UNCHANGED <<entries, ui, on, input, resumeData, saying, history>>

\* AgentEnd.
AgentEnd ==
  /\ pc \in {"ended", "failed"} /\ pc' = "none"
  /\ runActive' = FALSE /\ currentTextBlock' = StreamingState
  /\ kept' = IF pc = "ended" THEN kept \cup ({last} \ {0}) ELSE kept
  /\ UNCHANGED <<store, currentSession, modal, approvalQueue, approvalDecisions, transcript,
                 on, input, resumeData, saying, texts, asked, last>>

\* The program ends, wherever its run is, and is started with a session.
Restart ==
  /\ runActive' = FALSE /\ pc' = "none"
  /\ \E s \in Created : LoadSession(s, TRUE)
  /\ UNCHANGED <<store, on, input, resumeData, saying, history>>

Keys == SubmitMessage \/ New \/ OpenSessions \/ PickSession \/ Resume \/ CloseModal \/ ResolveApproval
Events == Fails \/ Starts \/ Says \/ HasSaid \/ Pauses \/ InterruptEvent \/ Completes \/ AgentEnd

Next == Keys \/ Events \/ Restart

Spec == Init /\ [][Next]_vars

-----------------------------------------------------------------------------
(* Properties *)

(* Type invariant: the store, the model and the run. *)
TypeOK ==
  /\ \A s \in SessionIds : entries[s] = Nowhere \/ Members(entries[s]) \subseteq 1..texts
  /\ UNION {pending[s] : s \in SessionIds} \cup Members(approvalQueue) \cup approvalDecisions \cup resumeData
       \subseteq 1..asked
  /\ currentSession \in SessionIds \cup {None} /\ on \in SessionIds \cup {None}
  /\ modal \in {"none", "approval", "sessions"} /\ runActive \in BOOLEAN
  /\ Members(transcript) \subseteq 1..texts /\ currentTextBlock \in 0..Len(transcript)
  /\ pc \in {"none", "start", "loop", "paused", "ended", "failed"} /\ (pc = "none" <=> ~runActive)
  /\ texts \in 0..MaxTexts /\ asked \in 0..MaxAsked
  /\ {input, saying, last} \subseteq 0..texts /\ kept \subseteq 1..texts

(* The decisions that a resume sends are the user's on the very interrupts that
   the session is pending on, all of them and no other: whatever was decided
   before of another pause, in another session, or in a list that was closed,
   decides nothing. *)
DecisionsFitTheCheckpoint ==
  pc = "start" /\ input = 0 => on = currentSession /\ resumeData = pending[on]

(* What was said stays in sight, in the order of the session: every message of
   the user that was saved, and the last answer of every run that succeeded. *)
LastWordsStay ==
  ~runActive /\ currentSession # None =>
    Keep(transcript, kept) = Keep(entries[currentSession], kept)
=============================================================================
