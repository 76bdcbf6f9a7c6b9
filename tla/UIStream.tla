------------------------------ MODULE UIStream ------------------------------
(* The parts of the UI message stream that a session's entries become
   (ui/stream/convert.go, part.go), and a client that puts them together.

   A text is the sequence of its bytes: EntryToParts compares lengths, and cuts the
   text of an entry after the one before. *)
EXTENDS Naturals, Sequences, Kept

CONSTANTS
  Sayings, \* pairs of a text and a reasoning
  CallIds,
  MaxEntries,
  None

VARIABLES
  entries, \* what was converted
  state,   \* StreamState
  view     \* of the client
vars == <<entries, state, view>>

UIStreamAssumption ==
  /\ MaxEntries \in Nat \ {0}
  /\ Sayings # {} /\ Sayings \subseteq Seq(Nat) \X Seq(Nat)

-----------------------------------------------------------------------------
\* Message entries: of the assistant, of tools, and errors without a message.
Said(text, thinking, toolCalls, stopReason) ==
  [role |-> "assistant", text |-> text, thinking |-> thinking, toolCalls |-> toolCalls,
   stopReason |-> stopReason]
Returned(toolResults) == [role |-> "tool_result", toolResults |-> toolResults]
Failed == [role |-> "none"]

\* NewStreamState.
NewStreamState ==
  [messageStarted |-> FALSE, stepStarted |-> FALSE,
   textID |-> None, textStarted |-> FALSE, prevText |-> <<>>,
   reasoningID |-> None, reasoningStarted |-> FALSE, prevThinking |-> <<>>,
   nextID |-> 0, startedToolCalls |-> {}, emittedToolCalls |-> {}]

Init == entries = <<>> /\ state = NewStreamState /\ view = <<>>

Part(type) == [type |-> type]
BlockPart(type, id, delta) == [type |-> type, id |-> id, delta |-> delta]
ToolPart(type, call, what) == [type |-> type, call |-> call, what |-> what]

(* entryToParts before the content: Start once, and StartStep at every step, with
   the blocks of the step before forgotten. *)
StartStepKeepingText(s) == [s EXCEPT !.messageStarted = TRUE, !.stepStarted = TRUE]
StartStep(s) ==
  IF s.stepStarted THEN [s EXCEPT !.messageStarted = TRUE]
  ELSE [s EXCEPT !.messageStarted = TRUE, !.stepStarted = TRUE, !.prevText = <<>>,
                 !.prevThinking = <<>>, !.textStarted = FALSE, !.reasoningStarted = FALSE]
StartParts(s) ==
  (IF s.messageStarted THEN <<>> ELSE <<Part("start")>>)
  \o (IF s.stepStarted THEN <<>> ELSE <<Part("start-step")>>)

\* assistantParts: what is new in the reasoning and in the text.
NewIn(cur, prev) == Len(cur) > Len(prev)
Suffix(cur, prev) == SubSeq(cur, Len(prev) + 1, Len(cur))

Reasoning(s, e) ==
  IF ~NewIn(e.thinking, s.prevThinking) THEN s
  ELSE [s EXCEPT !.reasoningStarted = TRUE, !.prevThinking = e.thinking,
                 !.reasoningID = IF s.reasoningStarted THEN @ ELSE <<"reasoning", s.nextID>>,
                 !.nextID = IF s.reasoningStarted THEN @ ELSE @ + 1]
ReasoningParts(s, e) ==
  LET id == Reasoning(s, e).reasoningID
  IN  IF ~NewIn(e.thinking, s.prevThinking) THEN <<>>
      ELSE (IF s.reasoningStarted THEN <<>> ELSE <<BlockPart("reasoning-start", id, <<>>)>>)
           \o <<BlockPart("reasoning-delta", id, Suffix(e.thinking, s.prevThinking))>>

Text(s, e) ==
  IF ~NewIn(e.text, s.prevText) THEN s
  ELSE [s EXCEPT !.textStarted = TRUE, !.prevText = e.text,
                 !.textID = IF s.textStarted THEN @ ELSE <<"text", s.nextID>>,
                 !.nextID = IF s.textStarted THEN @ ELSE @ + 1]
TextParts(s, e) ==
  LET id == Text(s, e).textID
  IN  IF ~NewIn(e.text, s.prevText) THEN <<>>
      ELSE (IF s.textStarted THEN <<>> ELSE <<BlockPart("text-start", id, <<>>)>>)
           \o <<BlockPart("text-delta", id, Suffix(e.text, s.prevText))>>

(* assistantToolCallParts: a call is told once.  A call without an id is known by
   its name and its place in the message. *)
Key(call, i) == IF call.id = None THEN <<call.name, i>> ELSE call.id
Keys(e) == {Key(e.toolCalls[i], i) : i \in DOMAIN e.toolCalls}
AssistantToolCallParts(s, e) ==
  LET untold(i) == \A j \in 1..(i - 1) : Key(e.toolCalls[j], j) # Key(e.toolCalls[i], i)
      parts(i) ==
        LET call == e.toolCalls[i]
        IN  (IF untold(i) /\ Key(call, i) \notin s.startedToolCalls
             THEN <<ToolPart("tool-input-start", call.id, call.name)>> ELSE <<>>)
            \o (IF untold(i) /\ Key(call, i) \notin s.emittedToolCalls
                THEN <<ToolPart("tool-input-available", call.id, call.args)>> ELSE <<>>)
  IN  Joined([i \in DOMAIN e.toolCalls |-> parts(i)])

(* The end of an assistant's entry: its blocks and its step are closed, and the
   message is finished when it calls no tool. *)
MapStopReason(r) ==
  CASE r = "stop" -> "stop" [] r = "length" -> "length" [] r = "toolUse" -> "tool-calls"
    [] r \in {"error", "aborted"} -> "error" [] r = "safety" -> "content-filter"
    [] OTHER -> "unknown"
EndParts(s, e) ==
  (IF s.reasoningStarted THEN <<BlockPart("reasoning-end", s.reasoningID, <<>>)>> ELSE <<>>)
  \o (IF s.textStarted THEN <<BlockPart("text-end", s.textID, <<>>)>> ELSE <<>>)
  \o <<Part("finish-step")>>
  \o (IF e.toolCalls # <<>> THEN <<>>
      ELSE <<[type |-> "finish", reason |-> MapStopReason(e.stopReason)]>>)
EndStep(s) ==
  [s EXCEPT !.reasoningStarted = FALSE, !.textStarted = FALSE, !.stepStarted = FALSE]

\* toolParts.
ToolParts(e) ==
  [i \in DOMAIN e.toolResults |->
     LET r == e.toolResults[i]
     IN  ToolPart(IF r.isError THEN "tool-output-error" ELSE "tool-output-available",
                  r.call, r.content)]

\* entryToParts: the parts of an entry, and the state after it.
AssistantEntryToParts(e, s) ==
  LET started == StartStep(s)
      thought == Reasoning(started, e)
      spoken == Text(thought, e)
      called == [spoken EXCEPT !.startedToolCalls = @ \cup Keys(e),
                               !.emittedToolCalls = @ \cup Keys(e)]
  IN  [parts |-> StartParts(s) \o ReasoningParts(started, e) \o TextParts(thought, e)
                 \o AssistantToolCallParts(spoken, e) \o EndParts(called, e),
       state |-> EndStep(called)]
EntryToParts(e, s) ==
  CASE e.role = "assistant" -> AssistantEntryToParts(e, s)
    [] e.role = "tool_result" -> [parts |-> ToolParts(e), state |-> s]
    [] e.role = "none" -> [parts |-> <<Part("error")>>, state |-> s]
    [] OTHER -> [parts |-> <<>>, state |-> s]

-----------------------------------------------------------------------------
(* A client of the protocol: its message is a list of steps, blocks and tool
   calls; a delta goes to the block of its id, an output to the call of its id.  What
   fits nothing is shown as such. *)
Block(kind, id) == [kind |-> kind, id |-> id, open |-> TRUE, content |-> <<>>]
ToolView(id, name) == [kind |-> "tool", id |-> id, name |-> name, input |-> <<>>, output |-> <<>>]

Misfit == [kind |-> "misfit", id |-> None]

IndexOf(v, kind, id) == {i \in DOMAIN v : v[i].kind = kind /\ v[i].id = id}
Kind(type) ==
  IF type \in {"text-start", "text-delta", "text-end"} THEN "text" ELSE "reasoning"

ShowBlock(v, p) ==
  LET kind == Kind(p.type)  at == IndexOf(v, kind, p.id)
      i == CHOOSE j \in at : TRUE
  IN  IF p.type \in {"text-start", "reasoning-start"}
      THEN Append(v, IF at = {} THEN Block(kind, p.id) ELSE Misfit)
      ELSE IF \A j \in at : ~v[j].open THEN Append(v, Misfit)
      ELSE IF p.type \in {"text-delta", "reasoning-delta"}
      THEN [v EXCEPT ![i].content = @ \o p.delta]
      ELSE [v EXCEPT ![i].open = FALSE]
ShowTool(v, p) ==
  LET at == IndexOf(v, "tool", p.call)  i == CHOOSE j \in at : TRUE
  IN  IF p.type = "tool-input-start"
      THEN Append(v, IF at = {} THEN ToolView(p.call, p.what) ELSE Misfit)
      ELSE IF at = {} THEN Append(v, Misfit)
      ELSE IF p.type = "tool-input-available" THEN [v EXCEPT ![i].input = p.what]
      ELSE [v EXCEPT ![i].output = <<p.type, p.what>>]
Show(p, v) ==
  CASE p.type \in {"text-start", "text-delta", "text-end", "reasoning-start",
                   "reasoning-delta", "reasoning-end"} -> ShowBlock(v, p)
    [] p.type \in {"tool-input-start", "tool-input-available", "tool-output-available",
                   "tool-output-error"} -> ShowTool(v, p)
    [] OTHER -> v
Shown(v, parts) ==
  LET shown[i \in 0..Len(parts)] == IF i = 0 THEN v ELSE Show(parts[i], shown[i - 1])
  IN  shown[Len(parts)]

-----------------------------------------------------------------------------
\* The runner yields an entry more: calls have ids of their own, or none.
CallsOf(e) == IF e.role = "assistant" THEN {e.toolCalls[i].id : i \in DOMAIN e.toolCalls} ELSE {}
Called == UNION {CallsOf(entries[i]) : i \in DOMAIN entries}
Answered ==
  UNION {IF entries[i].role = "tool_result"
         THEN {entries[i].toolResults[j].call : j \in DOMAIN entries[i].toolResults} ELSE {}
         : i \in DOMAIN entries}

NewCalls ==
  LET call(id) == [id |-> id, name |-> "n", args |-> <<"args", id>>]
      ids == CallIds \ Called
  IN  {<<>>} \cup {<<call(i)>> : i \in ids \cup {None}}
      \cup ({<<call(i), call(j)>> : i \in ids, j \in ids \cup {None}} \ {<<call(i), call(i)>> : i \in ids})

Entries ==
  {Said(s[1], s[2], c, IF c = <<>> THEN "stop" ELSE "toolUse") : s \in Sayings, c \in NewCalls}
  \cup {Returned(<<[call |-> i, content |-> <<"result", i>>, isError |-> x]>>) :
          i \in Called \ Answered, x \in BOOLEAN}
  \cup {Failed}

Convert(e) ==
  LET converted == EntryToParts(e, state)
  IN  /\ entries' = Append(entries, e)
      /\ state' = converted.state
      /\ view' = Shown(view, converted.parts)

Next == Len(entries) < MaxEntries /\ \E e \in Entries : Convert(e)
Spec == Init /\ [][Next]_vars

-----------------------------------------------------------------------------
TypeOK ==
  /\ Len(entries) <= MaxEntries
  /\ ~state.stepStarted /\ ~state.textStarted /\ ~state.reasoningStarted
  /\ state.nextID \in Nat

\* What an entry says, for a client who has it whole.
Says(e) ==
  IF e.role # "assistant" THEN <<>>
  ELSE (IF e.thinking = <<>> THEN <<>> ELSE <<[kind |-> "reasoning", content |-> e.thinking]>>)
       \o (IF e.text = <<>> THEN <<>> ELSE <<[kind |-> "text", content |-> e.text]>>)
       \o [i \in DOMAIN e.toolCalls |->
             [kind |-> "tool", content |-> e.toolCalls[i].args]]
Outputs ==
  {<<entries[i].toolResults[1].call, entries[i].toolResults[1].content>> :
     i \in {j \in DOMAIN entries : entries[j].role = "tool_result"}}

(* What the client shows is what the entries say: every block of reasoning and text
   whole and closed, every call with its arguments and its own result, once.  Calls
   without ids are out of it: those of two steps have the same key, and the second
   is not told. *)
PartsSayTheEntries == None \notin Called =>
  /\ \A i \in DOMAIN view : view[i].kind # "misfit"
  /\ [i \in DOMAIN view |->
        [kind |-> view[i].kind,
         content |-> IF view[i].kind = "tool" THEN view[i].input ELSE view[i].content]]
     = Joined([i \in DOMAIN entries |-> Says(entries[i])])
  /\ \A i \in DOMAIN view : view[i].kind # "tool" => ~view[i].open
  /\ {<<view[i].id, view[i].output[2]>> :
        i \in {j \in DOMAIN view : view[j].kind = "tool" /\ view[j].output # <<>>}} = Outputs
=============================================================================
