------------------------------ MODULE EntryTree ------------------------------
(***************************************************************************)
(* A session kept as a tree of entries (session/entry.go) in a JSONL file  *)
(* by managers (session/file/manager.go): each entry names its parent,     *)
(* the last one added is the leaf, and the context of a model is read off  *)
(* the path from the root to the leaf, with what a compaction covers       *)
(* replaced by its summary.                                                *)
(*                                                                         *)
(* Nothing keeps two managers from one file.  A manager adds an entry to   *)
(* its memory and then writes it; the write may fail or fall short, and    *)
(* whoever loads the file skips the lines that do not parse.               *)
(***************************************************************************)
EXTENDS Naturals, Sequences, SequencesExt, Kept

CONSTANTS
  Managers,   \* the managers of the file
  MaxIds,     \* bounds the entries
  MaxFaults   \* bounds the writes that fail

EntryTreeAssumption == {MaxIds, MaxFaults} \subseteq Nat

VARIABLES
  file,      \* the lines behind the header: entries, or Garbled
  torn,      \* does the last line lack its newline?
  memory,    \* Manager.entries, or Closed
  leaf,      \* Manager.leafID
  ids,       \* the last id used
  faults,    \* how many writes failed
  \* history
  told,      \* for each entry, what a context that ends there should have
  lost       \* the entries that are not in the file

vars == <<file, torn, memory, leaf, ids, faults, told, lost>>

NoEntry == 0
Garbled == [id |-> NoEntry]
Closed == <<Garbled>>
\* A message is of the conversation, of an extension, or the summary of a branch;
\* "other" is a custom entry, a label or session info.
EntryKinds == {"message", "compaction", "emptyCompaction", "modelChange", "other"}
Entry == [id : 1..MaxIds, parent : 0..MaxIds, kind : EntryKinds, kept : 0..MaxIds]
Open(m) == memory[m] # Closed

-----------------------------------------------------------------------------
(* BuildSessionContext *)

Find(entries, id) == Keep(entries, {e \in ToSet(entries) : e.id = id})

\* From the leaf to the root, and then turned round; a parent that is not
\* there ends the walk.
Path(entries, id) ==
  LET Up[k \in 0..MaxIds] ==
        [at \in 0..MaxIds |->
          LET found == Find(entries, at)
          IN IF k = 0 \/ found = <<>> THEN <<>>
             ELSE Append(Up[k - 1][Last(found).parent], Last(found))]
  IN Up[MaxIds][id]

\* Entries that are messages for the model, and the numbers of these.
Speaks(e) == e.kind = "message"
Messages(path) ==
  LET spoken == Keep(path, {e \in ToSet(path) : Speaks(e)})
  IN  [k \in DOMAIN spoken |-> spoken[k].id]

\* Mutant: the first compaction of the path counts.
LastCompactionIsFirst(path) ==
  SelectInSeq(path, LAMBDA e : e.kind \in {"compaction", "emptyCompaction"})

LastCompaction(path) ==
  SelectLastInSeq(path, LAMBDA e : e.kind \in {"compaction", "emptyCompaction"})

\* The summary of a compaction stands for what comes before the entry it keeps
\* first; a compaction without a summary counts for nothing.
Context(entries, id) ==
  LET path == Path(entries, id)
      at == LastCompaction(path)
      from == SelectInSeq(path, LAMBDA e : e.id = path[at].kept)
      kept == IF from = 0 THEN <<>> ELSE SubSeq(path, from, at - 1)
  IN IF at = 0 \/ path[at].kind = "emptyCompaction" THEN Messages(path)
     ELSE <<path[at].id>> \o Messages(kept) \o Messages(SubSeq(path, at + 1, Len(path)))

\* SessionContext.Model: the last change of the path, or none.
ModelOf(entries, id) ==
  LET path == Path(entries, id)
      at == SelectLastInSeq(path, LAMBDA e : e.kind = "modelChange")
  IN IF at = 0 THEN NoEntry ELSE path[at].id

-----------------------------------------------------------------------------
(* Manager *)

\* NewManager has written the header.
Init ==
  /\ file = <<>> /\ torn = FALSE
  /\ \E m \in Managers : memory = [n \in Managers |-> IF n = m THEN <<>> ELSE Closed]
  /\ leaf = [m \in Managers |-> NoEntry] /\ ids = 0 /\ faults = 0
  /\ told = [i \in 0..MaxIds |-> [context |-> <<>>, all |-> <<>>, model |-> NoEntry]]
  /\ lost = {}

\* What there is to say after e, for one who was told t before.
Tell(t, e) ==
  LET from == SelectInSeq(t.context, LAMBDA i : i = e.kept)
      all == IF Speaks(e) THEN Append(t.all, e.id) ELSE t.all
  IN [context |-> CASE Speaks(e) -> Append(t.context, e.id)
                    [] e.kind = "compaction" ->
                         <<e.id>> \o (IF from = 0 THEN <<>>
                                      ELSE SubSeq(t.context, from, Len(t.context)))
                    [] e.kind = "emptyCompaction" -> t.all
                    [] OTHER -> t.context,
      all |-> all,
      model |-> IF e.kind = "modelChange" THEN e.id ELSE t.model]

\* AppendMessage and AppendCompaction take a parent that is set already, and
\* with it begin a branch; AppendModelChange and AppendCustom do not.
Parents(m, kind) ==
  IF kind \in {"modelChange", "other"} THEN {leaf[m]}
  ELSE {leaf[m]} \cup {e.id : e \in ToSet(memory[m])}

\* A compaction keeps what comes from some message of its context on, or nothing;
\* the summary before it is never kept.
KeptBy(kind, parent) ==
  IF kind = "compaction"
  THEN {NoEntry} \cup (ToSet(told[parent].context) \cap ToSet(told[parent].all))
  ELSE {NoEntry}

\* appendRaw of a new entry, and persist: the line is written, or does not get
\* into the file, or not as a whole, or without its newline.
AppendRaw(m) ==
  /\ Open(m) /\ ids < MaxIds /\ ids' = ids + 1
  /\ \E kind \in EntryKinds : \E parent \in Parents(m, kind) : \E kept \in KeptBy(kind, parent) :
       LET e == [id |-> ids', parent |-> parent, kind |-> kind, kept |-> kept]
           behind == IF torn THEN [file EXCEPT ![Len(file)] = Garbled] ELSE Append(file, e)
           gone == IF torn THEN {Last(file).id} ELSE {}
       IN
       /\ memory' = [memory EXCEPT ![m] = Append(@, e)]
       /\ leaf' = [leaf EXCEPT ![m] = e.id]
       /\ told' = [told EXCEPT ![e.id] = Tell(told[parent], e)]
       /\ \/ /\ file' = behind /\ torn' = FALSE /\ faults' = faults
             /\ lost' = lost \cup gone \cup (IF torn THEN {e.id} ELSE {})
          \/ /\ faults < MaxFaults /\ faults' = faults + 1
             /\ \/ file' = behind /\ torn' = TRUE
                  /\ lost' = lost \cup gone \cup (IF torn THEN {e.id} ELSE {})
                \/ file' = file /\ torn' = torn /\ lost' = lost \cup {e.id}
                \/ /\ file' = (IF torn THEN behind ELSE Append(file, Garbled)) /\ torn' = TRUE
                   /\ lost' = lost \cup gone \cup {e.id}

\* LoadManager: what parses, and the last of it for a leaf.
Load(m) ==
  LET read == Keep(file, ToSet(file) \ {Garbled}) IN
  /\ memory' = [memory EXCEPT ![m] = read]
  /\ leaf' = [leaf EXCEPT ![m] = IF read = <<>> THEN NoEntry ELSE Last(read).id]
  /\ UNCHANGED <<file, torn, ids, faults, told, lost>>

Next == \E m \in Managers : AppendRaw(m) \/ Load(m)

Spec == Init /\ [][Next]_vars

-----------------------------------------------------------------------------
(* Properties *)

(* Type invariant: the entries in the file and in the managers. *)
TypeOK ==
  /\ torn \in BOOLEAN /\ ids \in 0..MaxIds
  /\ \A k \in DOMAIN file : file[k] = Garbled \/ file[k] \in Entry
  /\ torn => file # <<>>
  /\ \A m \in Managers :
       /\ leaf[m] \in 0..ids
       /\ \A k \in DOMAIN memory[m] : Open(m) => memory[m][k] \in Entry

IsSubsequence(s, t) == s = Keep(t, ToSet(s))

(* The context a manager gives a model is what was told on the way to its leaf,
   built up entry by entry: the last summary, what that kept and what came
   after it, and the last model chosen; nothing of other branches, and nothing
   that a summary stands for, whichever managers wrote the entries, in whatever
   order, and with the file loaded in between.  Where lines were lost, it is
   still in order and has nothing else, and ends with what was said last. *)
ContextIsWhatWasTold ==
  \A m \in Managers : Open(m) =>
    LET context == Context(memory[m], leaf[m])
        should == told[leaf[m]]
    IN /\ IsSubsequence(context, should.context)
       /\ ModelOf(memory[m], leaf[m]) \in {NoEntry, should.model}
       /\ \/ context = should.context /\ ModelOf(memory[m], leaf[m]) = should.model
          \/ lost # {}
=============================================================================
