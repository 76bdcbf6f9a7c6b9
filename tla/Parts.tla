------------------------------- MODULE Parts -------------------------------
(* The components of MCParts that use no library for sequences: their theorems are
   in PartsProofs, apart from the definitions of the others, which would be a part
   of every obligation. *)
EXTENDS Naturals

CONSTANTS
  Runs, MaxAttempts, MaxPauses, MaxSignals,  \* DurableTool
  MaxMessages, MaxTurns, MaxRuns,          \* Turns
  SessionIds, None, MaxTexts, MaxAsked,    \* Tui
  Callers, MaxSessions, Pages,             \* McpClient
  Extensions, MaxStarts, MaxSpoken,        \* Hooks
  ContentTypes, MaxContents, MaxResults,   \* Codec
  Calls, NestedCalls, Kinds, NestedKinds,  \* Interrupts
  Adapters, Names, NoId, MaxChunks,        \* Stream
  Sayings, CallIds, MaxConverted           \* UIStream

VARIABLES
  \* of several components
  checkpoint, pc, ids, lost, pending,
  \* of DurableTool
  wpc, status, data, attempt, signals, cancel, found, signaled, segments, apart,
  \* of Turns
  followUp, resumed, turn, continue, ctrl, injected, persisted, runs, verdict, sent, shown,
  unheard,
  \* of Tui
  entries, currentSession, modal, runActive, approvalQueue, approvalDecisions, transcript,
  currentTextBlock, on, input, resumeData, saying, texts, asked, last, kept,
  \* of McpClient
  session, alive, made, canceled, op, held, cursor, tools, hasReconnected, overtaken,
  foundClosed, ended,
  \* of Hooks
  stage, starts, spoken, written, resumeRun, wroteInterruptCheckpoint, call, event, refused,
  halted, executed, twice, meddled, broken,
  \* of Codec
  entry, row, read,
  \* of Interrupts
  stepPhase, calls, nested, signal, results, tried,
  \* of Stream
  adapter, phase, chunks, said, blocked, partial, textAt, thinkingAt, byKey, byIndex, view,
  final, stop,
  \* of UIStream
  converted, streamState, clientView

DurableToolPart == INSTANCE DurableTool
TurnsPart == INSTANCE Turns
TuiPart == INSTANCE Tui
McpClientPart == INSTANCE McpClient WITH found <- foundClosed
HooksPart == INSTANCE Hooks
CodecPart == INSTANCE Codec
InterruptsPart == INSTANCE Interrupts WITH phase <- stepPhase
StreamPart == INSTANCE Stream
UIStreamPart == INSTANCE UIStream WITH
  MaxEntries <- MaxConverted, entries <- converted, state <- streamState, view <- clientView

ASSUME PartsAssumption ==
  /\ DurableToolPart!DurableToolAssumption
  /\ TurnsPart!TurnsAssumption
  /\ TuiPart!TuiAssumption
  /\ McpClientPart!McpClientAssumption
  /\ HooksPart!HooksAssumption
  /\ CodecPart!CodecAssumption
  /\ InterruptsPart!InterruptsAssumption
  /\ StreamPart!StreamAssumption
  /\ UIStreamPart!UIStreamAssumption
=============================================================================
