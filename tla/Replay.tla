------------------------------- MODULE Replay -------------------------------
(***************************************************************************)
(* From the log of a session to the request a vendor is sent: the flow     *)
(* builds the history of one agent from the entries (processors/contents), *)
(* the adapter makes it fit its model (TransformMessagesForModel) and      *)
(* converts it to the vendor's messages.  Operators only: Sessions checks  *)
(* what they give on the logs that runs leave behind.                      *)
(*                                                                         *)
(* An entry keeps of its message the role, the ids of the calls and of the *)
(* results, who wrote it and with which vendor's model, and whether it has *)
(* text, only thinking that is redacted, or nothing to read.               *)
(***************************************************************************)
EXTENDS Integers, Sequences, FiniteSets, SequencesExt

NoVendor == "none"

Message(role, text, calls, results) ==
  [role |-> role, text |-> text, calls |-> calls, results |-> results]
Ids(s) == ToSet(s)

-----------------------------------------------------------------------------
(* processors/contents.go *)

\* A message with nothing a model could read is left out.
MessageForHistory(e) == e.text # "none" \/ e.calls # <<>> \/ e.results # <<>>

\* An agent in a branch sees that branch, and what is above it.
EntryBelongsToBranch(branch, e) ==
  branch = <<>> \/ e.branch = <<>> \/ IsPrefix(e.branch, branch)

IsOtherAgentReply(agent, e) == e.author # agent /\ e.author # "user"

\* What other agents did is told as text, in a message of the user.
ConvertForeignEntry(e) ==
  [e EXCEPT !.author = "user", !.role = "user", !.calls = <<>>, !.results = <<>>, !.text = "text"]

Filtered(agent, branch, log) ==
  LET seen == SelectSeq(log, LAMBDA e : MessageForHistory(e) /\ EntryBelongsToBranch(branch, e))
  IN [k \in DOMAIN seen |-> IF IsOtherAgentReply(agent, seen[k])
                            THEN ConvertForeignEntry(seen[k]) ELSE seen[k]]

\* The entry whose call an entry with results answers: 0 when there is none.
\* An entry that answers several calls goes with the first of them.
Owner(list, k) ==
  LET asked == {m \in DOMAIN list : m # k /\ Ids(list[m].calls) \cap Ids(list[k].results) # {}}
  IN IF asked = {} THEN 0 ELSE Min(asked)

\* mergeToolResponseEntries: of two results for a call only one is kept.
Merged(list, ks) ==
  [list[Min(ks)] EXCEPT !.results = SetToSeq(UNION {Ids(list[k].results) : k \in ks})]

\* Mutant: results stay where they are.
PairToolCallsInPlace(list) == list

\* pairToolCallsWithResponses: behind each entry with calls comes one with all
\* the results there are for them, wherever these are in the log.
PairToolCallsWithResponses(list) ==
  FlattenSeq([k \in DOMAIN list |->
    LET responses == {m \in DOMAIN list : Owner(list, m) = k}
        moved == Owner(list, k) # 0 /\ Owner(list, k) < k
    IN (IF moved THEN <<>> ELSE <<list[k]>>) \o
       (IF responses = {} THEN <<>> ELSE <<Merged(list, responses)>>)])

BuildMessagesDefault(agent, branch, log) ==
  PairToolCallsWithResponses(Filtered(agent, branch, log))

\* IncludeContents "none": from the last entry that is not this agent's.
BuildMessagesCurrentTurnContextOnly(agent, branch, log) ==
  LET turns == {k \in DOMAIN log : log[k].author = "user" \/ IsOtherAgentReply(agent, log[k])}
  IN BuildMessagesDefault(agent, branch,
       IF turns = {} THEN log ELSE SubSeq(log, Max(turns), Len(log)))

-----------------------------------------------------------------------------
(* compat.TransformMessagesForModel *)

\* A normalizer makes ids of another model's calls acceptable: here, negative.
Normalize(vendor, i) == IF vendor = "gemini" THEN i ELSE 0 - i

\* Another vendor's redacted thinking is of no use, and its calls get new ids.
TransformAssistantContent(vendor, e) ==
  [e EXCEPT !.text = IF @ = "redacted" THEN "none" ELSE @,
            !.calls = [j \in DOMAIN @ |-> Normalize(vendor, @[j])]]

\* The results of these calls get the same ids.
TransformToolResultIDs(vendor, ids, e) ==
  [e EXCEPT !.results =
     [j \in DOMAIN @ |-> IF @[j] \in ids THEN Normalize(vendor, @[j]) ELSE @[j]]]

Transformed(vendor, msgs) ==
  LET foreign == {k \in DOMAIN msgs : msgs[k].role = "assistant" /\ msgs[k].vendor # vendor}
      IdMap(k) == UNION {Ids(msgs[m].calls) : m \in {n \in foreign : n < k}}
  IN [k \in DOMAIN msgs |->
        IF k \in foreign THEN TransformAssistantContent(vendor, msgs[k])
        ELSE TransformToolResultIDs(vendor, IdMap(k), msgs[k])]

\* pendingToolCalls when message k comes: the calls of the assistant's message
\* before it that have no result yet.  One that failed leaves none.
Unanswered(msgs, k) ==
  LET spoke == {m \in 1..(k - 1) : msgs[m].role \in {"user", "assistant"}}
      last == Max(spoke)
      answered == UNION {Ids(msgs[m].results) : m \in last + 1 .. k - 1}
  IN IF spoke = {} \/ msgs[last].error THEN <<>>
     ELSE SelectSeq(msgs[last].calls, LAMBDA i : i \notin answered)

\* Messages that failed or were aborted are left out, and flushOrphaned makes
\* up a result for each call that is passed by.
TransformMessagesForModel(vendor, history) ==
  LET msgs == Transformed(vendor, history)
      Orphans(k) == LET ids == Unanswered(msgs, k)
                    IN [j \in DOMAIN ids |-> Message("tool", "text", <<>>, <<ids[j]>>)]
  IN FlattenSeq([k \in DOMAIN msgs |->
       (IF msgs[k].role = "tool" THEN <<>> ELSE Orphans(k)) \o
       (IF msgs[k].error THEN <<>>
        ELSE <<Message(msgs[k].role, msgs[k].text, msgs[k].calls, msgs[k].results)>>)])

-----------------------------------------------------------------------------
(* The adapters' conversions *)

Blank(m) == m.text = "none" /\ m.calls = <<>> /\ m.results = <<>>

\* gemini and anthropic have no role for results: they are the user's.
RoleToGenai(m) == IF m.role = "tool" THEN [m EXCEPT !.role = "user"] ELSE m

\* A message that comes to no parts is no content.
MessagesToGenai(msgs) ==
  SelectSeq([k \in DOMAIN msgs |-> RoleToGenai(msgs[k])], LAMBDA m : ~Blank(m))

\* maybeAppendUserContent: gemini only continues from a message of the user.
MaybeAppendUserContent(contents) ==
  IF contents = <<>> \/ Last(contents).role = "assistant"
  THEN Append(contents, Message("user", "text", <<>>, <<>>)) ELSE contents

\* The user's messages stay, whatever is in them.
AnthropicMessages(msgs) ==
  SelectSeq([k \in DOMAIN msgs |-> RoleToGenai(msgs[k])],
            LAMBDA m : m.role = "assistant" => ~Blank(m))

\* A message for each result; redacted thinking is not text.
OpenAIMessages(msgs) ==
  FlattenSeq([k \in DOMAIN msgs |->
    IF msgs[k].role = "tool"
    THEN [j \in DOMAIN msgs[k].results |->
            Message("tool", "text", <<>>, <<msgs[k].results[j]>>)]
    ELSE IF msgs[k].text # "text" /\ msgs[k].calls = <<>> THEN <<>> ELSE <<msgs[k]>>])

Request(vendor, full, agent, branch, log) ==
  LET history == IF full THEN BuildMessagesDefault(agent, branch, log)
                 ELSE BuildMessagesCurrentTurnContextOnly(agent, branch, log)
      msgs == TransformMessagesForModel(vendor, history)
  IN CASE vendor = "gemini" -> MaybeAppendUserContent(MessagesToGenai(msgs))
       [] vendor = "anthropic" -> AnthropicMessages(msgs)
       [] vendor = "openai" -> OpenAIMessages(msgs)

\* What a vendor accepts: no message is blank, and the results that follow a
\* message are those of its calls, each once.
Acceptable(req) ==
  \A k \in DOMAIN req :
    LET rest == {m \in k + 1 .. Len(req) : req[m].results = <<>>}
        end == IF rest = {} THEN Len(req) ELSE Min(rest) - 1
        results == FlattenSeq([m \in 1..(end - k) |-> req[k + m].results])
    IN /\ ~Blank(req[k])
       /\ req[k].results = <<>> => Ids(results) = Ids(req[k].calls) /\ IsInjective(results)
       /\ req[1].results = <<>>
=============================================================================
