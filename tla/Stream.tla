------------------------------- MODULE Stream -------------------------------
(***************************************************************************)
(* One answer of a model, from the vendor's stream to the final message:   *)
(* an adapter (model/gemini, model/anthropic, model/openai) feeds what the *)
(* vendor sends into an AssistantEventBuilder and yields its events, and   *)
(* at the end yields the final message.                                    *)
(*                                                                         *)
(* Text is a sequence of pieces; the arguments of the n-th tool call are   *)
(* the two pieces <<n, 1>> and <<n, 2>>, and decode when both are there.   *)
(* Vendors are external: what each may send is read off the code that      *)
(* takes it apart.                                                         *)
(***************************************************************************)
EXTENDS Naturals, Sequences, Kept

CONSTANTS
  Adapters,   \* which of "gemini", "anthropic", "openai" are there, and of
              \*   "gemini_streaming", for requests that ask it to stream arguments
  Names,      \* names of tools
  NoId,       \* the empty id
  MaxChunks   \* bounds what the vendor sends

StreamAssumption ==
  /\ Adapters \subseteq {"gemini", "gemini_streaming", "anthropic", "openai"} /\ Adapters # {}
  /\ MaxChunks \in Nat \ {0} /\ NoId \notin Nat /\ Names \cap Nat = {}

VARIABLES
  adapter,     \* the adapter in use
  phase,       \* where its Stream function is
  chunks,      \* how many chunks have come
  said,        \* the vendor's message: what its own SDK would accumulate
  blocked,     \* did the last chunk have no candidates (gemini's lastMeta)?
  partial,     \* builder.partial.Content
  textAt,      \* currentTextIndex, thinkingAt currentThinkingIndex: 0 for
  thinkingAt,  \*   -1, as content is counted from 1
  byKey,       \* toolCalls: <<key, content index>>
  byIndex,     \* toolCallsByIndex: <<vendor's index, content index>>
  view,        \* what a consumer has made of the deltas alone
  final,       \* finalMsg: its content,
  stop         \*   and whether its StopReason is an error

builder == <<partial, textAt, thinkingAt, byKey, byIndex>>
vars == <<adapter, phase, chunks, said, blocked, builder, view, final, stop>>

-----------------------------------------------------------------------------
(* Content: text, thinking, or a tool call with the JSON of its arguments.  *)
Block == [kind: {"none", "text", "thinking", "redacted", "call", "server"},
          id: Nat \cup {NoId}, name: Names \cup {NoId}, body: Seq(Nat \X Nat)]
TextBlock(kind, body) == [kind |-> kind, id |-> NoId, name |-> NoId, body |-> body]
CallBlock(i, n, body) == [kind |-> "call", id |-> i, name |-> n, body |-> body]

Arguments(n) == <<<<n, 1>>, <<n, 2>>>>
\* decodeJSONObject: raw is the whole of one argument object.
Decodes(body) == body # <<>> /\ body = Arguments(body[1][1])

Of(kinds, content) ==
  Keep(content, {b \in {content[k] : k \in DOMAIN content} : b.kind \in kinds})
\* Message.Text, and likewise for thinking: the parts of a kind, run together.
Text(kind, content) ==
  LET blocks == Of({kind}, content) IN Joined([i \in DOMAIN blocks |-> blocks[i].body])
\* Message.ToolCalls: the arguments are there when they decode.
ToolCalls(kinds, content) ==
  LET calls == Of(kinds, content)
  IN [i \in DOMAIN calls |->
        CallBlock(calls[i].id, calls[i].name,
                  IF Decodes(calls[i].body) THEN calls[i].body ELSE <<>>)]

-----------------------------------------------------------------------------
(* Events.  One delta names the content it extends; a consumer that keeps   *)
(* the deltas and nothing else knows this much of the message.              *)
Delta(kind, at, i, n, d) == [kind |-> kind, at |-> at, id |-> i, name |-> n, delta |-> d]
NoBlock == TextBlock("none", <<>>)

Absorb(v, ev) ==
  [v EXCEPT ![ev.at] =
     [kind |-> ev.kind,
      id |-> IF @.id = NoId THEN ev.id ELSE @.id,
      name |-> IF @.name = NoId THEN ev.name ELSE @.name,
      body |-> @.body \o ev.delta]]

\* The consumer takes the events, one or two, or stops iterating at one of them,
\* after which the adapter returns without a final message.
AbsorbAll(v, events) ==
  CASE events = <<>> -> v
    [] Len(events) = 1 -> Absorb(v, events[1])
    [] Len(events) = 2 -> Absorb(Absorb(v, events[1]), events[2])
Yield(events) ==
  \/ phase' = phase /\ view' = AbsorbAll(view, events)
  \/ phase' = "stopped" /\ UNCHANGED view

-----------------------------------------------------------------------------
(* AssistantEventBuilder.  MessageStart is sent with the first event.       *)

TextDelta(d) ==
  /\ textAt' = IF textAt = 0 THEN Len(partial) + 1 ELSE textAt
  /\ partial' = IF textAt = 0 THEN Append(partial, TextBlock("text", d))
                ELSE [partial EXCEPT ![textAt].body = @ \o d]
  /\ Yield(<<Delta("text", textAt', NoId, NoId, d)>>)
  /\ UNCHANGED <<thinkingAt, byKey, byIndex>>

\* Redacted thinking has no text: it opens the block, and sends nothing.
ThinkingDelta(d) ==
  /\ thinkingAt' = IF thinkingAt = 0 THEN Len(partial) + 1 ELSE thinkingAt
  /\ partial' = IF thinkingAt = 0 THEN Append(partial, TextBlock("thinking", d))
                ELSE [partial EXCEPT ![thinkingAt].body = @ \o d]
  /\ Yield(IF d = <<>> THEN <<>> ELSE <<Delta("thinking", thinkingAt', NoId, NoId, d)>>)
  /\ UNCHANGED <<textAt, byKey, byIndex>>

\* toolCallMapKey: the id, or else the name and an index; -1 is 0 here.
Key(i, n, index) ==
  IF i # NoId THEN {<<i, 0>>} ELSE IF n # NoId THEN {<<n, index>>} ELSE {}

\* Mutant: only the key is looked at.
LookupByKey(index, i, n) == {p[2] : p \in {q \in byKey : q[1] \in Key(i, n, index)}}

\* lookupToolCallState: by the vendor's index first, then by the key.
Lookup(index, i, n) ==
  LET indexed == {p \in byIndex : p[1] = index}
  IN {p[2] : p \in IF indexed # {} THEN indexed
                   ELSE {q \in byKey : q[1] \in Key(i, n, index)}}

\* toolCallDeltaInternal; an index of 0 stands for -1, none.
ToolCallDelta(index, i, n, d) ==
  LET known == Lookup(index, i, n)
      at == IF known = {} THEN Len(partial) + 1 ELSE CHOOSE k \in known : TRUE
      old == IF known = {} THEN CallBlock(i, n, <<>>) ELSE partial[at]
      new == CallBlock(IF old.id = NoId THEN i ELSE old.id,
                       IF old.name = NoId THEN n ELSE old.name, old.body \o d)
  IN
  /\ partial' = IF known = {} THEN Append(partial, new) ELSE [partial EXCEPT ![at] = new]
  /\ byKey' = byKey \cup (Key(new.id, new.name, at) \X {at})
  /\ byIndex' = IF index = 0 THEN byIndex ELSE byIndex \cup {<<index, at>>}
  /\ Yield((IF known = {} THEN <<Delta("call", at, i, n, <<>>)>> ELSE <<>>) \o
           (IF d = <<>> THEN <<>> ELSE <<Delta("call", at, i, n, d)>>))
  /\ UNCHANGED <<textAt, thinkingAt>>

-----------------------------------------------------------------------------
(* Stream, and what a chunk of each vendor does to it. *)

Init ==
  /\ adapter \in Adapters /\ phase = "idle"
  /\ chunks = 0 /\ said = <<>> /\ blocked = FALSE
  /\ partial = <<>> /\ textAt = 0 /\ thinkingAt = 0 /\ byKey = {} /\ byIndex = {}
  /\ view = [k \in 1..MaxChunks |-> NoBlock] /\ final = <<>> /\ stop = "none"

\* The caller begins to iterate over the events.
Open ==
  /\ phase = "idle" /\ phase' = "open"
  /\ UNCHANGED <<adapter, chunks, said, blocked, builder, view, final, stop>>

\* Generate: Stream(...).Result(), and nobody iterates over the events.
Generate ==
  /\ phase = "idle" /\ phase' = "generated"
  /\ UNCHANGED <<adapter, chunks, said, blocked, builder, view, final, stop>>

Chunk(of) ==
  /\ phase = "open" /\ adapter \in of /\ chunks < MaxChunks /\ chunks' = chunks + 1
  /\ UNCHANGED <<adapter, final, stop>>

Piece == <<<<0, chunks + 1>>>>
NewId == {chunks + 1}
\* What may still come of the arguments of the n-th call.
Rest(n, body) == {SubSeq(Arguments(n), Len(body) + 1, m) : m \in Len(body) + 1 .. 2}
CallKinds == {"call", "server"}
CallsIn(content) == {k \in DOMAIN content : content[k].kind \in CallKinds}
NextCall == Len(Of(CallKinds, said)) + 1

\* Text and thinking come in pieces from every vendor.
TextChunk ==
  /\ Chunk(Adapters) /\ said' = Append(said, TextBlock("text", Piece))
  /\ blocked' = FALSE /\ TextDelta(Piece)

ThinkingChunk ==
  /\ Chunk(Adapters) /\ said' = Append(said, TextBlock("thinking", Piece))
  /\ blocked' = FALSE /\ ThinkingDelta(Piece)

Gemini == {"gemini", "gemini_streaming"}

\* A gemini function call that is whole; it may have no id.
GeminiCall ==
  /\ Chunk(Gemini) /\ blocked' = FALSE
  /\ \E i \in NewId \cup {NoId}, n \in Names :
       /\ said' = Append(said, CallBlock(i, n, Arguments(NextCall)))
       /\ ToolCallDelta(0, i, n, Arguments(NextCall))

\* geminiToolConfig asks for it: a call comes with its name, and its arguments
\* come after it in pieces (PartialArgs).  These streamEvents does not read: to the
\* builder each piece is one more call, and its arguments are "{}".
NoArguments == <<<<0, 0>>>>

GeminiCallStart ==
  /\ Chunk({"gemini_streaming"}) /\ blocked' = FALSE
  /\ \E i \in NewId \cup {NoId}, n \in Names :
       /\ said' = Append(said, CallBlock(i, n, <<>>))
       /\ ToolCallDelta(0, i, n, NoArguments)

\* A piece may have the id and the name of its call again, or neither.
GeminiCallPiece ==
  LET last == said[Len(said)] IN
  /\ Chunk({"gemini_streaming"}) /\ blocked' = FALSE
  /\ said # <<>> /\ Len(said) \in CallsIn(said)
  /\ \E d \in Rest(NextCall - 1, last.body), again \in BOOLEAN :
       /\ said' = [said EXCEPT ![Len(said)].body = @ \o d]
       /\ ToolCallDelta(0, IF again THEN last.id ELSE NoId, IF again THEN last.name ELSE NoId,
                        NoArguments)

\* A gemini chunk without a candidate makes lastMeta an error.
GeminiNoCandidate ==
  /\ Chunk(Gemini) /\ blocked' = TRUE
  /\ UNCHANGED <<phase, said, builder, view>>

\* An anthropic block starts: a tool_use, or a tool the server runs itself.
AnthropicCallStart ==
  /\ Chunk({"anthropic"})
  /\ \E i \in NewId, n \in Names, kind \in {"call", "server"} :
       /\ said' = Append(said, [CallBlock(i, n, <<>>) EXCEPT !.kind = kind])
       /\ ToolCallDelta(0, i, n, <<>>)
  /\ UNCHANGED blocked

AnthropicRedacted ==
  /\ Chunk({"anthropic"})
  /\ said' = Append(said, TextBlock("redacted", <<>>)) /\ ThinkingDelta(<<>>)
  /\ UNCHANGED blocked

\* A piece of JSON belongs to the block that came last.
AnthropicJSON ==
  LET last == said[Len(said)] IN
  /\ Chunk({"anthropic"}) /\ said # <<>> /\ Len(said) \in CallsIn(said)
  /\ \E d \in Rest(NextCall - 1, last.body) :
       /\ said' = [said EXCEPT ![Len(said)].body = @ \o d]
       /\ ToolCallDelta(0, last.id, last.name, d)
  /\ UNCHANGED blocked

\* openai numbers the calls; only the first piece of a call has id and name.
OpenAICallStart ==
  /\ Chunk({"openai"})
  /\ \E i \in NewId, n \in Names, d \in Rest(NextCall, <<>>) \cup {<<>>} :
       /\ said' = Append(said, CallBlock(i, n, d))
       /\ ToolCallDelta(NextCall, i, n, d)
  /\ UNCHANGED blocked

OpenAICallPiece ==
  /\ Chunk({"openai"})
  /\ \E k \in CallsIn(said) :
       LET index == Len(Of(CallKinds, SubSeq(said, 1, k))) IN
       \E d \in Rest(index, said[k].body) :
         /\ said' = [said EXCEPT ![k].body = @ \o d]
         /\ ToolCallDelta(index, NoId, NoId, d)
  /\ UNCHANGED blocked

\* The vendor's stream ends in an error: no final message.
Fails ==
  /\ phase = "open" /\ phase' = "failed"
  /\ UNCHANGED <<adapter, chunks, said, blocked, builder, view, final, stop>>

\* anthropic's convertAccumulated keeps its own tools' calls out of the message.
AnthropicContent == Of({"text", "thinking", "redacted", "call"}, said)

\* openai takes what the builder has too, for what it has accumulated itself.
FinalContent == IF adapter = "anthropic" THEN AnthropicContent ELSE partial

\* openai's convertAccumulated of nothing is an error.
NoChoices == adapter = "openai" /\ chunks = 0

\* Anthropic without a single event ends without a word, neither message nor error.
SawNoEvent == adapter = "anthropic" /\ chunks = 0

\* The stream ends.  The finalizing deltas are empty; a consumer who stops at
\* one of them can still ask for the Result, but for gemini's.
Finish ==
  /\ phase = "open"
  /\ \/ SawNoEvent /\ phase' = "silent" /\ UNCHANGED <<final, stop>>
     \/ /\ ~SawNoEvent /\ phase' \in {"done", "stopped"} /\ final' = FinalContent
        /\ stop' = IF blocked \/ NoChoices THEN "error" ELSE "ok"
     \/ adapter \in Gemini /\ phase' = "stopped" /\ UNCHANGED <<final, stop>>
  /\ UNCHANGED <<adapter, chunks, said, blocked, builder, view>>

Next ==
  \/ Open \/ Generate \/ TextChunk \/ ThinkingChunk \/ GeminiCall \/ GeminiNoCandidate
  \/ GeminiCallStart \/ GeminiCallPiece
  \/ AnthropicCallStart \/ AnthropicRedacted \/ AnthropicJSON
  \/ OpenAICallStart \/ OpenAICallPiece \/ Fails \/ Finish

Spec == Init /\ [][Next]_vars

-----------------------------------------------------------------------------
(* Properties *)

(* Type invariant: where Stream is, and what the builder and its consumer have. *)
TypeOK ==
  /\ adapter \in Adapters /\ chunks \in 0..MaxChunks /\ blocked \in BOOLEAN
  /\ phase \in {"idle", "open", "generated", "stopped", "failed", "silent", "done"}
  /\ \A k \in DOMAIN said : said[k] \in Block
  /\ \A k \in DOMAIN partial : partial[k] \in Block
  /\ {textAt, thinkingAt} \subseteq 0..Len(partial)
  /\ \A p \in byKey : partial[p[2]].kind = "call"
  /\ \A p \in byIndex : partial[p[2]].kind = "call"
  /\ \A k \in 1..MaxChunks : view[k] \in Block
  /\ \A k \in DOMAIN final : final[k] \in Block
  /\ stop \in {"none", "ok", "error"}

\* The text and the thinking of d; and its calls of the kinds.
SameWords(c, d) ==
  Text("text", c) = Text("text", d) /\ Text("thinking", c) = Text("thinking", d)
SameCalls(c, d, kinds) == ToolCalls({"call"}, c) = ToolCalls(kinds, d)

(* A consumer who puts the deltas together, each at the content it names, has at
   any moment the text, the thinking and the calls that the vendor has sent so
   far, however text, thinking and pieces of several calls come mixed.  For a
   consumer a call is a call, whoever runs it.  Of calls whose arguments gemini
   streams this is not so, as the adapter takes their pieces for calls. *)
DeltasSayWhatIsSaid ==
  phase # "stopped" =>
    SameWords(view, said) /\ (adapter # "gemini_streaming" => SameCalls(view, said, CallKinds))

(* The message at the end, which is what goes into the log and what the tools
   are called with, is what the vendor said: the text, the thinking, and each call
   with its id, its name and its own arguments.  Where gemini streams arguments, the
   message has the calls that the deltas spoke of, and no others. *)
FinalIsWhatWasSaid ==
  phase = "done" =>
    /\ SameWords(final, said)
    /\ SameCalls(final, IF adapter = "gemini_streaming" THEN view ELSE said, {"call"})
=============================================================================
