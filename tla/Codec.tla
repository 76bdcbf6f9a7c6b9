------------------------------- MODULE Codec -------------------------------
(* What the stores write of an entry and read back (session/entry.go,
   message/message.go, session/database/storage_session.go), in the form of now
   and in the older ones that are still read.

   A JSON object is a function on the fields that are there; the value of a field
   is of no interest but for being empty, and so left out. *)
EXTENDS Naturals, Sequences

CONSTANTS
  ContentTypes, \* those in use
  MaxContents, MaxResults,
  None \* nil

VARIABLES
  entry, \* the entry that was stored
  row,   \* its payload, with the columns beside it
  read   \* what is read of it
vars == <<entry, row, read>>

\* The contents of a message, and their fields.
Fields(type) ==
  CASE type = "text" -> {"text", "textSignature"}
    [] type = "thinking" -> {"thinking", "thinkingSignature", "redacted"}
    [] type = "image" -> {"data", "mimeType", "url"}
    [] type = "toolCall" -> {"id", "name", "arguments", "thoughtSignature"}

CodecAssumption ==
  /\ ContentTypes \subseteq {"text", "thinking", "image", "toolCall"}
  /\ MaxContents \in Nat /\ MaxResults \in Nat
  /\ None \notin {"", "{}", "x"}

\* `omitempty' of strings, of FALSE, and of maps, nil or without keys.
Empty == {"", "{}", None}
OmitEmpty(object) == [f \in {g \in DOMAIN object : object[g] \notin Empty} |-> object[f]]
Field(json, f, zero) == IF f \in DOMAIN json THEN json[f] ELSE zero

-----------------------------------------------------------------------------
(* Messages *)

Content(type, value) == [type |-> type, value |-> value]
ToolResult(id, name, content, isError) ==
  [CallID |-> id, Name |-> name, Content |-> content, IsError |-> isError]
Message(role, content, results, meta, errorCode) ==
  [Role |-> role, Content |-> content, ToolResultsData |-> results, meta |-> meta,
   ErrorCode |-> errorCode]

MarshalContent(c) == [type |-> c.type, value |-> OmitEmpty(c.value)]
MarshalContentArray(content) == [i \in DOMAIN content |-> MarshalContent(content[i])]

\* A text alone is a string, unless it is signed.
UserContentForMarshal(content) ==
  IF Len(content) = 1 /\ content[1].type = "text" /\ content[1].value["textSignature"] = ""
  THEN [string |-> content[1].value["text"]]
  ELSE [array |-> MarshalContentArray(content)]

ToolResultWire(r) ==
  [toolCallId |-> r.CallID, toolName |-> r.Name, isError |-> r.IsError, details |-> r.Content]
MarshalToolResultMessage(m) ==
  [role |-> m.Role, content |-> MarshalContentArray(m.Content),
   toolResults |-> [i \in DOMAIN m.ToolResultsData |-> ToolResultWire(m.ToolResultsData[i])]]
MarshalAssistantMessage(m) ==
  [role |-> m.Role, content |-> MarshalContentArray(m.Content), meta |-> m.meta]
MarshalUserLikeMessage(m) == [role |-> m.Role, content |-> UserContentForMarshal(m.Content)]

MarshalJSON(m) ==
  CASE m.Role = "user" -> MarshalUserLikeMessage(m)
    [] m.Role = "assistant" -> MarshalAssistantMessage(m)
    [] m.Role = "tool_result" -> MarshalToolResultMessage(m)

UnmarshalContent(json) ==
  Content(json.type, [f \in Fields(json.type) |-> Field(json.value, f, "")])
DecodeContentArray(raw) == [i \in DOMAIN raw |-> UnmarshalContent(raw[i])]
DecodeUserContent(raw) ==
  IF "string" \in DOMAIN raw
  THEN <<Content("text", [f \in Fields("text") |-> IF f = "text" THEN raw.string ELSE ""])>>
  ELSE DecodeContentArray(raw.array)

FromWire(w) ==
  ToolResult(Field(w, "toolCallId", ""), Field(w, "toolName", ""), Field(w, "details", None),
             Field(w, "isError", FALSE))
\* The results, or the one that stands in the message itself.
NewFormOnly(json) == [i \in DOMAIN Field(json, "toolResults", <<>>) |-> FromWire(json.toolResults[i])]
ResultsOf(json) ==
  IF Field(json, "toolResults", <<>>) # <<>> THEN NewFormOnly(json)
  ELSE IF \/ Field(json, "toolCallId", "") # "" \/ Field(json, "toolName", "") # ""
          \/ Field(json, "details", None) # None
       THEN <<FromWire(json)>> ELSE <<>>

UnmarshalJSON(json) ==
  CASE json.role = "user" ->
         Message("user", DecodeUserContent(json.content), <<>>, None, "")
    [] json.role = "assistant" ->
         Message("assistant", DecodeContentArray(json.content), <<>>, json.meta, "")
    [] json.role = "tool_result" ->
         Message("tool_result", DecodeContentArray(json.content), ResultsOf(json), None, "")

-----------------------------------------------------------------------------
(* Entries *)

Entry(type, id, message) == [type |-> type, id |-> id, message |-> message]
Types ==
  {"compaction", "model_change", "branch_summary", "custom", "custom_message", "label", "session_info"}

\* createStorageEntry: the entry as JSON, and its id beside it.
CreateStorageEntry(e) ==
  [id |-> e.id,
   payload |-> [type |-> e.type, id |-> e.id,
                message |-> IF e.type = "message" THEN MarshalJSON(e.message) ELSE e.message]]

UnmarshalDurableEntry(data) ==
  IF data.type = "message" THEN Entry("message", data.id, UnmarshalJSON(data.message))
                           ELSE Entry(data.type, data.id, data.message)
Unsupported(data) == Field(data, "type", "") \notin Types \cup {"message"}

\* createEntryFromStorageEntry: the rows of older versions have the message alone.
CreateEntryFromStorageEntry(se) ==
  IF Unsupported(se.payload) THEN Entry("message", se.id, UnmarshalJSON(se.payload))
                             ELSE UnmarshalDurableEntry(se.payload)

-----------------------------------------------------------------------------
\* The messages that runs persist.
Values(field) == IF field = "arguments" THEN {None, "{}", "x"} ELSE {"", "x"}
ContentsOf(types) ==
  UNION {{Content(t, v) : v \in {w \in [Fields(t) -> {None, "", "{}", "x"}] :
                                   \A f \in Fields(t) : w[f] \in Values(f)}} : t \in types}
UpTo(S, n) == UNION {[1..k -> S] : k \in 0..n}

Results ==
  [CallID : {"x"}, Name : {"", "x"}, Content : {None, "", "x"}, IsError : BOOLEAN]

Messages ==
  [Role : {"user"}, Content : UpTo(ContentsOf(ContentTypes \cap {"text", "image"}), MaxContents),
   ToolResultsData : {<<>>}, meta : {None}, ErrorCode : {""}]
  \cup
  [Role : {"assistant"}, Content : UpTo(ContentsOf(ContentTypes \ {"image"}), MaxContents),
   ToolResultsData : {<<>>}, meta : {"meta"}, ErrorCode : {"", "x"}]
  \cup
  [Role : {"tool_result"}, Content : UpTo(ContentsOf(ContentTypes \cap {"text"}), 1),
   ToolResultsData : UpTo(Results, MaxResults), meta : {None}, ErrorCode : {""}]

Init == entry = None /\ row = None /\ read = None

Stored(e, r) == entry' = e /\ row' = r /\ UNCHANGED read

\* AppendEntry, of a store that writes.
AppendEntry ==
  /\ entry = None
  /\ \E m \in Messages :
       LET e == Entry("message", "id", m) IN Stored(e, CreateStorageEntry(e))
AppendOther ==
  /\ entry = None
  /\ \E t \in Types : LET e == Entry(t, "id", None) IN Stored(e, CreateStorageEntry(e))

\* An older version has written the row: the message alone, or with its one
\* result in the message.
Singular(m) ==
  LET w == ToolResultWire(m.ToolResultsData[1])
  IN  [f \in (DOMAIN w \cup {"role", "content"}) \ (IF w.details = None THEN {"details"} ELSE {}) |->
         IF f = "role" THEN m.Role ELSE IF f = "content" THEN MarshalContentArray(m.Content) ELSE w[f]]
Older ==
  /\ entry = None
  /\ \E m \in Messages :
       LET e == Entry("message", "id", m)
           forms == {MarshalJSON(m)} \cup (IF Len(m.ToolResultsData) = 1 THEN {Singular(m)} ELSE {})
       IN  \E json \in forms :
             \/ Stored(e, [id |-> "id", payload |-> json])
             \/ Stored(e, [id |-> "id", payload |-> [type |-> "message", id |-> "id", message |-> json]])

Read ==
  /\ entry # None /\ read = None
  /\ read' = CreateEntryFromStorageEntry(row)
  /\ UNCHANGED <<entry, row>>

Next == AppendEntry \/ AppendOther \/ Older \/ Read
Spec == Init /\ [][Next]_vars

-----------------------------------------------------------------------------
TypeOK == read # None => entry # None /\ row # None /\ read.id = entry.id

(* An entry is read back as it was said, whichever form it was written in, but for
   two things that a store does not keep: the error code of a message (that of the
   entry is kept), and whether a call without arguments had an empty map of them or
   none, which the adapters send as {} and as null. *)
KeptContent(c) ==
  IF c.type # "toolCall" THEN c
  ELSE [c EXCEPT !.value["arguments"] = IF @ = "x" THEN @ ELSE ""]
Kept(m) ==
  [m EXCEPT !.ErrorCode = "",
            !.Content = [i \in DOMAIN m.Content |-> KeptContent(m.Content[i])]]
ReadsWhatWasSaid ==
  read # None =>
    read = (IF entry.type = "message" THEN [entry EXCEPT !.message = Kept(@)] ELSE entry)
=============================================================================
