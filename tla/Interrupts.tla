---------------------------- MODULE Interrupts ----------------------------
(* The way of an interrupt from the tool that raises it to the checkpoint and
   back (resume/interrupt.go, runner/checkpoint.go, internal/toolinternal), for a
   step whose calls run plain tools, tools under WithApproval, tools that call
   their context's Interrupt, and agents as tools (tool/agenttool), whose nested
   runs have sessions and interrupts of their own.  A nested run has no agents as
   tools again: two levels of runs, each a step and its calls, are what there is here.

   An address is <<agent, call>>, what splitToolAddress makes of the string.  The
   slots of handleFunctionCalls keep the calls apart, so a step is one action. *)

CONSTANTS
  Calls,        \* ids of the tool calls of the outer agent
  NestedCalls,  \* and of an agent that is a tool
  Kinds, NestedKinds, \* the kinds of tools each may call
  None

VARIABLES
  phase,      \* of the outer session: idle, paused, answered
  calls,      \* its tool calls: the kind of the tool of each
  nested,     \* the calls of each nested run
  signal,     \* the signal of the step
  checkpoint, \* the pending interrupts of the session
  results,    \* what the calls returned
  tried       \* the last resume answered every pending interrupt
vars == <<phase, calls, nested, signal, checkpoint, results, tried>>

InterruptsAssumption ==
  /\ Kinds \subseteq {"plain", "approval", "own", "agent", "guarded agent"}
  /\ NestedKinds \subseteq {"plain", "approval", "own"}
  /\ Calls \cap NestedCalls = {} /\ Calls \cap (Calls \X NestedCalls) = {}
  /\ None \notin Calls \cup Kinds

-----------------------------------------------------------------------------
\* resume/interrupt.go

(* InterruptSignal; the ids are fresh.  The order of Subs is lost in ToSignals. *)
InterruptSignal(id, address, state, subs) ==
  [id |-> id, address |-> address, state |-> state, subs |-> subs]
StatefulInterrupt(id, address, state) == InterruptSignal(id, address, state, {})
Interrupt(id, address) == StatefulInterrupt(id, address, None)
CompositeInterrupt(id, address, state, subSig) == InterruptSignal(id, address, state, subSig)

\* A signal and all those under it: that of a step, of an agent as a tool, of the
\* nested run, and of its calls.
Subs(sigs) == UNION {s.subs : s \in sigs}
Signals(sig) ==
  LET tools == Subs({sig})  runs == Subs(tools)
  IN  {sig} \cup tools \cup runs \cup Subs(runs)

(* ToPersistenceMaps: the walk comes to a signal before it comes to its Subs, and
   of the signals of one address the last one stays. *)
Address2ID(sig) ==
  LET at(a) == {s \in Signals(sig) : s.address = a}
      last == {s \in Signals(sig) : Signals(s) \cap at(s.address) = {s}}
      addresses == {s.address : s \in last}
  IN  {[a \in addresses |-> (CHOOSE s \in kept : s.address = a).id] :
         kept \in {k \in SUBSET last : \A a \in addresses : \E s \in k : k \cap at(a) = {s}}}
ID2State(sig) ==
  {[id |-> s.id, state |-> s.state] : s \in Signals(sig)}

(* The walk from the root signal gives each signal a context, which has that of its
   parent; those of the leaves are kept.  A pointer is a set with at most one element. *)
Context(s, parent) == [id |-> s.id, address |-> s.address, parent |-> parent]
Under(walked) == UNION {{<<sub, Context(sub, {w[2]})>> : sub \in w[1].subs} : w \in walked}
ToInterruptContexts(sig) ==
  LET top == {<<sig, Context(sig, {})>>}  tools == Under(top)  runs == Under(tools)
      leaves == {w \in top \cup tools \cup runs \cup Under(runs) : w[1].subs = {}}
  IN  {w[2] : w \in leaves}

\* But for Address2ID, which ToSignals does not read.
ToInterruptData(sig) ==
  [id2State |-> ID2State(sig), contexts |-> ToInterruptContexts(sig)]

(* The contexts and those above them; a signal of each, with those of its children. *)
Above(contexts) == UNION {c.parent : c \in contexts}
AllContexts(contexts) ==
  LET runs == Above(contexts)  tools == Above(runs)
  IN  contexts \cup runs \cup tools \cup Above(tools)
Children(contexts, c) == {d \in contexts : \E p \in d.parent : p.id = c.id}
SignalOf(data, c, subs) ==
  InterruptSignal(c.id, c.address, (CHOOSE s \in data.id2State : s.id = c.id).state, subs)
ToSignals(data) ==
  LET all == AllContexts(data.contexts)
      OfCall(c) == SignalOf(data, c, {})
      OfRun(c) == SignalOf(data, c, {OfCall(d) : d \in Children(all, c)})
      OfTool(c) == SignalOf(data, c, {OfRun(d) : d \in Children(all, c)})
      OfStep(c) == SignalOf(data, c, {OfTool(d) : d \in Children(all, c)})
  IN  {OfStep(c) : c \in {d \in all : d.parent = {}}}

-----------------------------------------------------------------------------
\* The tools

\* The address of an approval; Context.Interrupt takes the one of the agent.
ToolAddressOfAgent(agent, call) == <<agent, None>>
ToolAddress(agent, call) == <<agent, call>>

Paused(agent, call, kind) ==
  IF kind = "own" THEN Interrupt(<<agent, call>>, <<agent, None>>)
                  ELSE Interrupt(<<agent, call>>, ToolAddress(agent, call))

\* The end of handleFunctionCalls.
Compose(agent, run, sigs) == CompositeInterrupt(<<agent, run>>, <<agent, None>>, None, sigs)

(* A nested run (agenttool executeSubAgent) whose calls are ns: those that pause,
   and the signal the agent tool makes of its Interrupt event, with the nested
   session as state. *)
NestedPauses(ns) == {n \in DOMAIN ns : ns[n] # "plain"}
NestedSignal(c, ns) ==
  Compose("sub", c, {Paused("sub", <<c, n>>, ns[n]) : n \in NestedPauses(ns)})
ExecuteSubAgent(c, ns) ==
  CompositeInterrupt(
    <<"agenttool", c>>, <<"root:agenttool:sub", None>>, [session_id |-> c],
    ToSignals(ToInterruptData(NestedSignal(c, ns))))

\* checkpointManager.save: the pending interrupts, the calls found in the session.
PendingInterrupts(address2ID, id2State, inSession) ==
  {[id |-> address2ID[a], agent |-> a[1], call |-> a[2],
    tool |-> IF a[2] \in DOMAIN inSession THEN inSession[a[2]] ELSE None,
    state |-> (CHOOSE s \in id2State : s.id = address2ID[a]).state]
   : a \in DOMAIN address2ID}

Init ==
  /\ phase = "idle" /\ calls = <<>> /\ nested = <<>>
  /\ signal = None /\ checkpoint = None /\ results = <<>> /\ tried = FALSE

Asks(kind, ns) ==
  \/ kind \in {"approval", "own", "guarded agent"}
  \/ kind = "agent" /\ NestedPauses(ns) # {}
Pause(c, kind, ns) ==
  IF kind = "agent" THEN ExecuteSubAgent(c, ns) ELSE Paused("root", c, kind)

(* handleFunctionCalls for the calls of an answer of the model.  A nested run that
   does not pause ends with an answer, or with an error, which is a result. *)
Step ==
  /\ phase = "idle"
  /\ \E cs \in SUBSET Calls \ {{}} : calls' \in [cs -> Kinds]
  /\ nested' \in [{c \in DOMAIN calls' : calls'[c] = "agent"} ->
                   UNION {[ns -> NestedKinds] : ns \in SUBSET NestedCalls}]
  /\ LET ns(c) == IF c \in DOMAIN nested' THEN nested'[c] ELSE <<>>
         paused == {c \in DOMAIN calls' : Asks(calls'[c], ns(c))}
     IN  /\ results' \in [DOMAIN calls' \ paused -> {"done", "error"}]
         /\ IF paused = {}
            THEN /\ phase' = "answered" /\ UNCHANGED <<signal, checkpoint>>
            ELSE /\ phase' = "paused"
                 /\ signal' = Compose("root", None, {Pause(c, calls'[c], ns(c)) : c \in paused})
                 /\ \E m \in Address2ID(signal') :
                      checkpoint' = PendingInterrupts(m, ID2State(signal'), calls')
  /\ UNCHANGED tried

(* The result of a call that is resumed.  The agent of an approved agent tool is
   given the approval as resume data of a new session, in which nothing is
   pending: handleResumeCalls fails, and the result is an error. *)
Resumed(p, approved) ==
  CASE ~approved -> "rejected"
    [] approved /\ p.tool = "guarded agent" -> "error"
    [] OTHER -> "done"

(* A run with answers (handleResumeFromCheckpoint): calls of the agent that have a
   tool are resumed.  It fails, and changes nothing, if one of them has no
   answer, or if there are none. *)
Resume ==
  /\ phase = "paused"
  /\ \E ids \in SUBSET {p.id : p \in checkpoint} : \E approved \in [ids -> BOOLEAN] :
       LET own == {p \in checkpoint : p.call # None /\ p.tool # None /\ p.agent = "root"}
           fails == own = {} \/ \E p \in own : p.id \notin ids
       IN  /\ ids # {}
           /\ tried' = (ids = {p.id : p \in checkpoint})
           /\ IF fails
              THEN UNCHANGED <<phase, checkpoint, results>>
              ELSE /\ phase' = "answered" /\ checkpoint' = None
                   /\ results' = [c \in DOMAIN results \cup {p.call : p \in own} |->
                        IF c \in DOMAIN results THEN results[c]
                        ELSE LET p == CHOOSE p \in own : p.call = c
                             IN  Resumed(p, approved[p.id])]
  /\ UNCHANGED <<calls, nested, signal>>

Next == Step \/ Resume
Spec == Init /\ [][Next]_vars

-----------------------------------------------------------------------------
TypeOK ==
  /\ phase \in {"idle", "paused", "answered"}
  /\ DOMAIN calls \subseteq Calls /\ DOMAIN nested \subseteq DOMAIN calls
  /\ \A c \in DOMAIN nested : DOMAIN nested[c] \subseteq NestedCalls
  /\ phase = "paused" => signal # None
  /\ (checkpoint = None) = (phase # "paused")
  /\ DOMAIN results \subseteq DOMAIN calls
  /\ tried \in BOOLEAN

(* The tree of a pause comes back from its persisted form (ToInterruptData,
   ToSignals): every signal under its parent, with its state. *)
TreeComesBack ==
  signal # None => ToSignals(ToInterruptData(signal)) = {signal}

(* Each call that an approval has paused is pending once, with the tool of the
   call, and no other interrupt is taken for a call of the session.  Of the calls that
   paused without an approval (context.go Interrupt) this says nothing: they share
   one address, and the checkpoint keeps one of them. *)
PendingAreThePaused ==
  phase = "paused" =>
    LET own == {p \in checkpoint : p.tool # None}
    IN  /\ {p.call : p \in own} =
             {c \in DOMAIN calls : calls[c] \in {"approval", "guarded agent"}}
        /\ \A p, q \in own : p.call = q.call => p = q
        /\ \A p \in own : p.tool = calls[p.call] /\ p.agent = "root" /\ p.id = <<"root", p.call>>

(* A pause lasts until it is answered: a resume that answers every pending
   interrupt reaches every tool that waits (tool.go: "Interrupt pauses tool
   execution and waits for external input"; agent_tool.go keeps the session
   "across calls and resumes"). *)
AnswersReachTheTools == tried => DOMAIN results = DOMAIN calls
=============================================================================
