------------------------------ MODULE MCParts ------------------------------
(* Instances for TLC of the components that have no state in common with one
   another: a behaviour is one of one of them, of each in turn.  The variables
   of the others are Off. *)
EXTENDS Naturals, Parts

CONSTANTS
  Off,
  Stores, MaxStreams, Branch, VendorOf, MaxActive, MaxEntries, MaxBorn,  \* Sessions
  Managers, MaxIds, MaxFaults                                            \* EntryTree

VARIABLES
  part,  \* the component
  \* of Sessions
  store, born, exists, log, updateTime, state, now, agent, of, snapshot, draft, todo,
  mixed,
  \* of EntryTree
  file, torn, memory, leaf, faults, told

streamVars ==
  <<adapter, phase, chunks, said, blocked, partial, textAt, thinkingAt, byKey, byIndex, view,
    final, stop>>
sessionsVars ==
  <<store, born, exists, log, updateTime, state, now, agent, of, snapshot, draft, todo,
    mixed>>
entryTreeVars ==
  <<file, torn, memory, leaf, faults, told>>
durableToolVars ==
  <<wpc, status, data, attempt, signals, cancel, found, signaled, segments, apart>>
turnsVars ==
  <<followUp, resumed, turn, continue, ctrl, injected, persisted, runs, verdict, sent, shown,
    unheard>>
tuiVars ==
  <<entries, currentSession, modal, runActive, approvalQueue, approvalDecisions, transcript,
    currentTextBlock, on, input, resumeData, saying, texts, asked, last, kept>>
interruptsVars ==
  <<stepPhase, calls, nested, signal, results, tried>>
mcpClientVars ==
  <<session, alive, made, canceled, op, held, cursor, tools, hasReconnected, overtaken,
    foundClosed, ended>>
uiStreamVars ==
  <<converted, streamState, clientView>>
codecVars ==
  <<entry, row, read>>
hooksVars ==
  <<stage, starts, spoken, written, resumeRun, wroteInterruptCheckpoint, call, event, refused,
    halted, executed, twice, meddled, broken>>
restVars == <<interruptsVars, mcpClientVars, uiStreamVars, codecVars, hooksVars>>
vars ==
  <<part, checkpoint, pc, ids, lost, pending,
    streamVars, sessionsVars, entryTreeVars, durableToolVars, turnsVars, tuiVars,
    restVars>>

SessionsPart == INSTANCE Sessions
EntryTreePart == INSTANCE EntryTreeProofs

ASSUME Assumptions ==
  /\ SessionsPart!SessionsAssumption
  /\ EntryTreePart!EntryTreeAssumption

-----------------------------------------------------------------------------
StreamOff ==
  /\ adapter = Off /\ phase = Off /\ chunks = Off /\ said = Off /\ blocked = Off
  /\ partial = Off /\ textAt = Off /\ thinkingAt = Off /\ byKey = Off /\ byIndex = Off
  /\ view = Off /\ final = Off /\ stop = Off
SessionsOff ==
  /\ store = Off /\ born = Off /\ exists = Off /\ log = Off /\ updateTime = Off
  /\ state = Off /\ now = Off /\ agent = Off /\ of = Off /\ snapshot = Off
  /\ draft = Off /\ todo = Off /\ mixed = Off
EntryTreeOff ==
  /\ file = Off /\ torn = Off /\ memory = Off /\ leaf = Off /\ faults = Off /\ told = Off
DurableToolOff ==
  /\ wpc = Off /\ status = Off /\ data = Off /\ attempt = Off /\ signals = Off
  /\ cancel = Off /\ found = Off /\ signaled = Off /\ segments = Off /\ apart = Off
TurnsOff ==
  /\ followUp = Off /\ resumed = Off /\ turn = Off /\ continue = Off /\ ctrl = Off
  /\ injected = Off /\ persisted = Off /\ runs = Off /\ verdict = Off /\ sent = Off
  /\ shown = Off /\ unheard = Off
TuiOff ==
  /\ entries = Off /\ currentSession = Off /\ modal = Off /\ runActive = Off
  /\ approvalQueue = Off /\ approvalDecisions = Off /\ transcript = Off
  /\ currentTextBlock = Off /\ on = Off /\ input = Off /\ resumeData = Off /\ saying = Off
  /\ texts = Off /\ asked = Off /\ last = Off /\ kept = Off
InterruptsOff ==
  /\ stepPhase = Off /\ calls = Off /\ nested = Off /\ signal = Off /\ results = Off
  /\ tried = Off
McpClientOff ==
  /\ session = Off /\ alive = Off /\ made = Off /\ canceled = Off /\ op = Off /\ held = Off
  /\ cursor = Off /\ tools = Off /\ hasReconnected = Off /\ overtaken = Off
  /\ foundClosed = Off /\ ended = Off
UIStreamOff ==
  /\ converted = Off /\ streamState = Off /\ clientView = Off
CodecOff ==
  /\ entry = Off /\ row = Off /\ read = Off
HooksOff ==
  /\ stage = Off /\ starts = Off /\ spoken = Off /\ written = Off /\ resumeRun = Off
  /\ wroteInterruptCheckpoint = Off /\ call = Off /\ event = Off /\ refused = Off
  /\ halted = Off /\ executed = Off /\ twice = Off /\ meddled = Off /\ broken = Off
RestOff == InterruptsOff /\ McpClientOff /\ UIStreamOff /\ CodecOff /\ HooksOff
FirstOff ==
  /\ StreamOff /\ SessionsOff /\ EntryTreeOff /\ DurableToolOff /\ TurnsOff /\ TuiOff
  /\ ids = Off /\ lost = Off /\ pending = Off

Init ==
  \/ /\ part = "Stream" /\ StreamPart!Init
     /\ RestOff /\ SessionsOff /\ EntryTreeOff /\ DurableToolOff /\ TurnsOff /\ TuiOff
     /\ checkpoint = Off /\ pc = Off /\ ids = Off /\ lost = Off /\ pending = Off
  \/ /\ part = "Sessions" /\ SessionsPart!Init
     /\ RestOff /\ StreamOff /\ EntryTreeOff /\ DurableToolOff /\ TurnsOff /\ TuiOff
     /\ ids = Off /\ lost = Off /\ pending = Off
  \/ /\ part = "EntryTree" /\ EntryTreePart!Init
     /\ RestOff /\ StreamOff /\ SessionsOff /\ DurableToolOff /\ TurnsOff /\ TuiOff
     /\ checkpoint = Off /\ pc = Off /\ pending = Off
  \/ /\ part = "DurableTool" /\ DurableToolPart!Init
     /\ RestOff /\ StreamOff /\ SessionsOff /\ EntryTreeOff /\ TurnsOff /\ TuiOff
     /\ lost = Off
  \/ /\ part = "Turns" /\ TurnsPart!Init
     /\ RestOff /\ StreamOff /\ SessionsOff /\ EntryTreeOff /\ DurableToolOff /\ TuiOff
     /\ checkpoint = Off /\ ids = Off
  \/ /\ part = "Tui" /\ TuiPart!Init
     /\ RestOff /\ StreamOff /\ SessionsOff /\ EntryTreeOff /\ DurableToolOff /\ TurnsOff
     /\ checkpoint = Off /\ ids = Off /\ lost = Off
  \/ /\ part = "Interrupts" /\ InterruptsPart!Init
     /\ FirstOff /\ HooksOff /\ McpClientOff /\ UIStreamOff /\ CodecOff /\ pc = Off
  \/ /\ part = "McpClient" /\ McpClientPart!Init
     /\ FirstOff /\ HooksOff /\ InterruptsOff /\ UIStreamOff /\ CodecOff /\ checkpoint = Off
  \/ /\ part = "UIStream" /\ UIStreamPart!Init
     /\ FirstOff /\ HooksOff /\ InterruptsOff /\ McpClientOff /\ CodecOff
     /\ checkpoint = Off /\ pc = Off
  \/ /\ part = "Codec" /\ CodecPart!Init
     /\ FirstOff /\ HooksOff /\ InterruptsOff /\ McpClientOff /\ UIStreamOff
     /\ checkpoint = Off /\ pc = Off
  \/ /\ part = "Hooks" /\ HooksPart!Init
     /\ FirstOff /\ InterruptsOff /\ McpClientOff /\ UIStreamOff /\ CodecOff
     /\ pc = Off

OthersStream ==
  UNCHANGED
    <<part, checkpoint, pc, ids, lost, pending, sessionsVars, entryTreeVars,
    durableToolVars, turnsVars, tuiVars, restVars>>
OthersSessions ==
  UNCHANGED
    <<part, ids, lost, pending, streamVars, entryTreeVars, durableToolVars, turnsVars,
    tuiVars, restVars>>
OthersEntryTree ==
  UNCHANGED
    <<part, checkpoint, pc, pending, streamVars, sessionsVars, durableToolVars, turnsVars,
    tuiVars, restVars>>
OthersDurableTool ==
  UNCHANGED
    <<part, lost, streamVars, sessionsVars, entryTreeVars, turnsVars, tuiVars, restVars>>
OthersTurns ==
  UNCHANGED
    <<part, checkpoint, ids, streamVars, sessionsVars, entryTreeVars, durableToolVars,
    tuiVars, restVars>>
OthersTui ==
  UNCHANGED
    <<part, checkpoint, ids, lost, streamVars, sessionsVars, entryTreeVars, durableToolVars,
    turnsVars, restVars>>
OthersFirst ==
  UNCHANGED
    <<part, ids, lost, pending, streamVars, sessionsVars, entryTreeVars, durableToolVars,
    turnsVars, tuiVars>>
OthersInterrupts ==
  OthersFirst /\ UNCHANGED <<pc, mcpClientVars, uiStreamVars, codecVars, hooksVars>>
OthersMcpClient ==
  OthersFirst /\ UNCHANGED <<checkpoint, interruptsVars, uiStreamVars, codecVars, hooksVars>>
OthersUIStream ==
  OthersFirst
  /\ UNCHANGED <<checkpoint, pc, interruptsVars, mcpClientVars, codecVars, hooksVars>>
OthersCodec ==
  OthersFirst
  /\ UNCHANGED <<checkpoint, pc, interruptsVars, mcpClientVars, uiStreamVars, hooksVars>>
OthersHooks ==
  OthersFirst /\ UNCHANGED <<pc, interruptsVars, mcpClientVars, uiStreamVars, codecVars>>

\* Bounds the sessions: the first of the in-memory store has all the entries, the
\* database and a second session of a name one less, and that is of fewer streams.
SessionsBound ==
  \/ store = "memory" /\ born = 1
  \/ now < MaxEntries /\ (born = 1 \/ pc[MaxStreams] = "idle")

Next ==
  \/ part = "Stream" /\ StreamPart!Next /\ OthersStream
  \/ part = "Sessions" /\ SessionsPart!Next /\ SessionsBound' /\ OthersSessions
  \/ part = "EntryTree" /\ EntryTreePart!Next /\ OthersEntryTree
  \/ part = "DurableTool" /\ DurableToolPart!Next /\ OthersDurableTool
  \/ part = "Turns" /\ TurnsPart!Next /\ OthersTurns
  \/ part = "Tui" /\ TuiPart!Next /\ OthersTui
  \/ part = "Interrupts" /\ InterruptsPart!Next /\ OthersInterrupts
  \/ part = "McpClient" /\ McpClientPart!Next /\ OthersMcpClient
  \/ part = "UIStream" /\ UIStreamPart!Next /\ OthersUIStream
  \/ part = "Codec" /\ CodecPart!Next /\ OthersCodec
  \/ part = "Hooks" /\ HooksPart!Next /\ OthersHooks

\* The fairness of DurableTool.
Fairness ==
  /\ WF_vars(part = "DurableTool" /\ DurableToolPart!Worker /\ OthersDurableTool)
  /\ \A r \in Runs :
       WF_vars(part = "DurableTool" /\ DurableToolPart!Attends(r) /\ OthersDurableTool)

Spec == Init /\ [][Next]_vars /\ Fairness

-----------------------------------------------------------------------------
\* A root agent, and the sub-agents of a parallel agent.
MCBranch == [root |-> <<>>, w1 |-> <<"p", "w1">>, w2 |-> <<"p", "w2">>]
\* Texts that grow, shrink and change, with and without reasoning.
MCSayings ==
  {<<<<>>, <<>>>>, <<<<1>>, <<>>>>, <<<<2, 1>>, <<1>>>>, <<<<1>>, <<2, 1>>>>, <<<<2, 1>>, <<>>>>}
MCVendorOf == <<"anthropic", "openai", "gemini">>

(* The type invariant of the component at work. *)
TypeOK ==
  /\ part = "Stream" => StreamPart!TypeOK
  /\ part = "Sessions" => SessionsPart!TypeOK
  /\ part = "EntryTree" => EntryTreePart!TypeOK
  /\ part = "DurableTool" => DurableToolPart!TypeOK
  /\ part = "Turns" => TurnsPart!TypeOK
  /\ part = "Tui" => TuiPart!TypeOK
  /\ part = "Interrupts" => InterruptsPart!TypeOK
  /\ part = "McpClient" => McpClientPart!TypeOK
  /\ part = "UIStream" => UIStreamPart!TypeOK
  /\ part = "Codec" => CodecPart!TypeOK
  /\ part = "Hooks" => HooksPart!TypeOK

(* Stream: a consumer who puts the deltas of model/assistant_event_builder.go
   together has what the vendor has said so far, and the message at the end of an
   adapter's Stream is what the vendor said: words, thinking and calls.  Of calls
   whose arguments gemini is asked to stream, the message has what the deltas had,
   which is not what the vendor said. *)
StreamSaysWhatIsSaid ==
  part = "Stream" => StreamPart!DeltasSayWhatIsSaid /\ StreamPart!FinalIsWhatWasSaid

(* Sessions: the requests built from the in-memory store (contents.go,
   message_transform.go) are whole, and ones that the vendor accepts. *)
RequestIsAcceptable == part = "Sessions" => SessionsPart!RequestIsAcceptable

(* Sessions: no entry is stored in the midst of those that a Get of the database
   has returned (session/database AppendEntry, Get). *)
SnapshotIsPrefix == part = "Sessions" => SessionsPart!SnapshotIsPrefix

(* Sessions: while a session is deleted nothing is stored in its name, but for the
   agent states of the in-memory store; when it is made again its checkpoint is of
   its own log, unless streams overlapped or worked on the one that was deleted, and
   an agent state of the database was saved since (AppendEntry, SaveCheckpoint,
   SaveAgentState). *)
NothingIsLeft == part = "Sessions" => SessionsPart!NothingIsLeft

(* EntryTree: the context that BuildSessionContext makes of a branch is what was
   told on it. *)
ContextIsWhatWasTold == part = "EntryTree" => EntryTreePart!ContextIsWhatWasTold

(* DurableTool: after its first segment the body runs again only on a signal of its
   own, with an answer to an interrupt that is pending or to the call itself
   (RunSegment). *)
RunsOnAnswersOnly == part = "DurableTool" => DurableToolPart!RunsOnAnswersOnly

(* DurableTool: the session waits for what the workflow waits for. *)
CheckpointIsThePause == part = "DurableTool" => DurableToolPart!CheckpointIsThePause

(* DurableTool: every execution of the tool returns (Execute's polling ends).  The
   runs are alike: what holds of one of them holds of all. *)
ExecutionEnds ==
  LET r == CHOOSE s \in Runs : TRUE
  IN  (part = "DurableTool" /\ pc[r] # "idle") ~> (part = "DurableTool" /\ pc[r] = "ended")

(* Turns: what callers of the steering extension queue is yielded once, in order. *)
QueuedAreShown == part = "Turns" => TurnsPart!QueuedAreShown

(* Turns: when a run ends by itself the model has been sent every message that it
   yielded, but for those in the role of the user. *)
ShownAreAnswered == part = "Turns" => TurnsPart!ShownAreAnswered

(* Tui: the decisions sent with a resume are on what the session is pending on. *)
DecisionsFitTheCheckpoint == part = "Tui" => TuiPart!DecisionsFitTheCheckpoint

(* Tui: the messages of the user and the last answers of the runs stay in sight. *)
LastWordsStay == part = "Tui" => TuiPart!LastWordsStay

(* Interrupts: what is persisted of a pause is the pause: its tree comes back
   (resume/interrupt.go ToInterruptData, ToSignals), and what the checkpoint says
   to be pending are the calls that approvals have paused, each once and with its
   own tool (runner/checkpoint.go save); nothing is said of other pauses, and an agent
   tool's run has no agent tools. *)
PauseIsPersisted ==
  part = "Interrupts" =>
    InterruptsPart!TreeComesBack /\ InterruptsPart!PendingAreThePaused

(* McpClient: what other callers do with the connection costs a caller nothing
   (tool/mcptoolset): a list of tools is the whole list of one session, unless
   another session came between its pages, and a connection is lost for good only
   after two sessions have ended by themselves. *)
CallersDoNotDisturb ==
  part = "McpClient" => McpClientPart!ListIsOfOneSession /\ McpClientPart!LostTwice

(* UIStream: a client that puts the parts together shows what the entries say
   (ui/stream EntryToParts). *)
PartsSayTheEntries == part = "UIStream" => UIStreamPart!PartsSayTheEntries

(* Codec: an entry is read back as it was said, from every form that was ever
   written (message UnmarshalJSON, createEntryFromStorageEntry). *)
ReadsWhatWasSaid == part = "Codec" => CodecPart!ReadsWhatWasSaid

(* Hooks: a call that an extension (agent/extension.go) refused, other than with
   an interrupt, is not executed, one that an extension paused is executed by the
   resume only, and only an extension's own doing loses or orphans a call of a run
   that ends well, or makes a pending one unfit to be resumed. *)
HooksDecide == part = "Hooks" => HooksPart!HooksDecide
=============================================================================
