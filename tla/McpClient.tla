----------------------------- MODULE McpClient -----------------------------
(* The connection of an MCP tool set (tool/mcptoolset/client.go) and the calls
   that share it: agents that list the server's tools, page by page, and tools
   that are called.  Sessions with the server end by themselves; the call whose
   request finds its session closed reconnects, once, for all of them.

   getSession and refreshConnection run under the mutex and are one action each. *)
EXTENDS Naturals, Sequences, FiniteSets

CONSTANTS
  Callers,
  MaxSessions, \* how often a connection can be made: after that Connect fails
  Pages,       \* of the list of tools
  None

VARIABLES
  session,   \* connectionRefresher.session
  alive,     \* the sessions that the server and the client hold open
  made,      \* how many sessions were made
  canceled,  \* the callers whose context is done
  op, pc,
  held,      \* the session that the caller has from getSession or a refresh
  cursor,    \* of ListTools: the pages it has and the session that gave it
  tools,     \* the pages ListTools has, with the session of each
  hasReconnected,
  overtaken, \* the caller's list is older than a reconnection by another caller
  found,     \* the sessions that the caller's requests have found closed
  ended      \* the sessions that ended by themselves
vars ==
  <<session, alive, made, canceled, op, pc, held, cursor, tools, hasReconnected, overtaken,
    found, ended>>

McpClientAssumption == MaxSessions \in Nat \ {0} /\ Pages \in Nat \ {0} /\ None \notin Nat

NoCursor == [pages |-> 0, of |-> None]

Init ==
  /\ session = None /\ alive = {} /\ made = 0 /\ canceled = {}
  /\ op = [p \in Callers |-> None]
  /\ pc = [p \in Callers |-> "idle"]
  /\ held = [p \in Callers |-> None]
  /\ cursor = [p \in Callers |-> NoCursor]
  /\ tools = [p \in Callers |-> <<>>]
  /\ hasReconnected = [p \in Callers |-> FALSE]
  /\ overtaken = [p \in Callers |-> FALSE]
  /\ found = [p \in Callers |-> {}]
  /\ ended = {}

listVars == <<cursor, tools, hasReconnected>>

\* CallTool or ListTools.
Start(p) ==
  /\ pc[p] = "idle"
  /\ \E o \in {"CallTool", "ListTools"} : op' = [op EXCEPT ![p] = o]
  /\ pc' = [pc EXCEPT ![p] = "getSession"]
  /\ UNCHANGED <<session, alive, made, canceled, held, listVars, overtaken, found, ended>>

End(p, how) == pc' = [pc EXCEPT ![p] = how]

\* client.Connect, with lock held: `then' is where the caller goes on.
Connect(p, then) ==
  \/ /\ made < MaxSessions /\ p \notin canceled
     /\ made' = made + 1
     /\ session' = made + 1
     /\ held' = [held EXCEPT ![p] = made + 1]
     /\ pc' = [pc EXCEPT ![p] = then]
  \/ /\ session' = None
     /\ End(p, "unconnected")
     /\ UNCHANGED <<made, held>>

\* The sessions that are open after Connect, those before it being open.
Opened(open) == IF made' > made THEN open \cup {made'} ELSE open

GetSession(p) ==
  /\ pc[p] = "getSession"
  /\ IF session # None
     THEN /\ held' = [held EXCEPT ![p] = session]
          /\ pc' = [pc EXCEPT ![p] = "fn"]
          /\ UNCHANGED <<session, alive, made>>
     ELSE Connect(p, "fn") /\ alive' = Opened(alive)
  /\ overtaken' =
       [overtaken EXCEPT ![p] = @ \/ cursor[p].of \notin {None, held'[p]}]
  /\ UNCHANGED <<canceled, op, listVars, found, ended>>

(* refreshConnection: a session that answers a ping is kept, also when another
   caller has made it; the ping of a caller whose context is done fails. *)
KeepsNone(p) == FALSE
Keeps(p) == session # None /\ session \in alive /\ p \notin canceled

RefreshConnection(p) ==
  /\ pc[p] = "refresh"
  /\ IF Keeps(p)
     THEN /\ held' = [held EXCEPT ![p] = session]
          /\ pc' = [pc EXCEPT ![p] = "again"]
          /\ UNCHANGED <<session, alive, made>>
     ELSE Connect(p, "again") /\ alive' = Opened(alive \ {session})
  /\ UNCHANGED <<canceled, op, listVars, overtaken, found, ended>>

-----------------------------------------------------------------------------
(* The request of the caller on its session: `fn' of withRetry. *)

\* The session is closed.
Closed(p) ==
  /\ pc[p] \in {"fn", "again"} /\ held[p] \notin alive
  /\ pc' = [pc EXCEPT ![p] = IF @ = "fn" THEN "refresh" ELSE "lost"]
  /\ found' = [found EXCEPT ![p] = @ \cup {held[p]}]
  /\ UNCHANGED <<session, alive, made, canceled, op, held, listVars, overtaken, ended>>

(* An error that is not refreshable: the server's, or of a context that is done.
   A server may refuse a cursor of another session, or go on where it points. *)
Refused(p) ==
  /\ pc[p] \in {"fn", "again"} /\ (held[p] \in alive \/ p \in canceled)
  /\ End(p, "refused")
  /\ UNCHANGED <<session, alive, made, canceled, op, held, listVars, overtaken, found, ended>>

Answered(p) ==
  pc[p] \in {"fn", "again"} /\ held[p] \in alive /\ p \notin canceled

\* A result that says it is an error, or has no text, is one (mcpTool.Execute).
Called(p) ==
  /\ op[p] = "CallTool" /\ Answered(p)
  /\ End(p, "done") \/ End(p, "refused")
  /\ UNCHANGED <<session, alive, made, canceled, op, held, listVars, overtaken, found, ended>>

\* ListTools on a page.
Page(p) ==
  LET page == [of |-> held[p], page |-> cursor[p].pages + 1]
  IN  /\ tools' = [tools EXCEPT ![p] = Append(@, page)]
      /\ IF page.page = Pages
         THEN End(p, "done") /\ UNCHANGED cursor
         ELSE /\ cursor' = [cursor EXCEPT ![p] = [pages |-> page.page, of |-> held[p]]]
              /\ pc' = [pc EXCEPT ![p] = "getSession"]

Listed(p) ==
  /\ op[p] = "ListTools" /\ Answered(p) /\ pc[p] = "fn"
  /\ Page(p)
  /\ UNCHANGED <<session, alive, made, canceled, op, held, hasReconnected, overtaken, found, ended>>

\* ... on a page that comes after a reconnection: it starts again, once.
StartAgain(p) ==
  cursor' = [cursor EXCEPT ![p] = NoCursor] /\ tools' = [tools EXCEPT ![p] = <<>>]

Relisted(p) ==
  /\ op[p] = "ListTools" /\ Answered(p) /\ pc[p] = "again"
  /\ IF hasReconnected[p]
     THEN End(p, "lost") /\ UNCHANGED <<cursor, tools, hasReconnected, overtaken>>
     ELSE /\ hasReconnected' = [hasReconnected EXCEPT ![p] = TRUE]
          /\ StartAgain(p)
          /\ overtaken' = [overtaken EXCEPT ![p] = FALSE]
          /\ pc' = [pc EXCEPT ![p] = "getSession"]
  /\ UNCHANGED <<session, alive, made, canceled, op, held, found, ended>>

-----------------------------------------------------------------------------
\* The environment: a session ends, a caller gives up.
Dies(s) ==
  /\ s \in alive
  /\ alive' = alive \ {s}
  /\ ended' = ended \cup {s}
  /\ UNCHANGED <<session, made, canceled, op, pc, held, listVars, overtaken, found>>

Cancel(p) ==
  /\ pc[p] \notin {"idle"} /\ p \notin canceled
  /\ canceled' = canceled \cup {p}
  /\ UNCHANGED <<session, alive, made, op, pc, held, listVars, overtaken, found, ended>>

Next ==
  \/ \E p \in Callers :
       \/ Start(p) \/ GetSession(p) \/ RefreshConnection(p)
       \/ Closed(p) \/ Refused(p) \/ Called(p) \/ Listed(p) \/ Relisted(p)
       \/ Cancel(p)
  \/ \E s \in alive : Dies(s)
Spec == Init /\ [][Next]_vars

-----------------------------------------------------------------------------
Ends == {"done", "refused", "unconnected", "lost"}
TypeOK ==
  /\ session \in {None} \cup 1..made /\ made \in 0..MaxSessions
  /\ alive \subseteq 1..made
  /\ canceled \subseteq Callers
  /\ pc \in [Callers -> {"idle", "getSession", "fn", "refresh", "again"} \cup Ends]
  /\ op \in [Callers -> {None, "CallTool", "ListTools"}]
  /\ \A p \in Callers : held[p] \in {None} \cup 1..made /\ cursor[p].pages \in 0..Pages
  /\ hasReconnected \in [Callers -> BOOLEAN] /\ overtaken \in [Callers -> BOOLEAN]

(* A ListTools that returns has the whole list of one session, in order, unless
   getSession gave it another session between two pages (of another caller, or
   after another caller failed to reconnect): its cursor is then of a session that
   is gone, and the list may be of two. *)
WholeList(p) ==
  \E s \in 1..made : tools[p] = [i \in 1..Pages |-> [of |-> s, page |-> i]]
ListIsOfOneSession ==
  \A p \in Callers :
    op[p] = "ListTools" /\ pc[p] = "done" /\ ~overtaken[p] => WholeList(p)

(* A caller that loses its connection has been unlucky twice: two sessions have
   ended by themselves, and its requests found them closed.  No other caller's
   reconnection costs it its one retry, unless that caller's context is done: its
   ping then fails, and it closes a session that others use. *)
LostTwice ==
  \A p \in Callers :
    pc[p] = "lost" /\ canceled = {} => Cardinality(found[p] \cap ended) >= 2
=============================================================================
