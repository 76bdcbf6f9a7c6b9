----------------------------- MODULE FileStore -----------------------------
(***************************************************************************)
(* The file session store (session/file/service.go): the directory of one  *)
(* session, and the services (processes, or instances in one) that use it. *)
(*                                                                         *)
(* The directory has the log (entries.jsonl), the checkpoint and the lock  *)
(* file, whose flock lasts until it is released or its process dies.  A    *)
(* service keeps the entries in memory once it has read them.  Its calls   *)
(* are serialised by its mutex, but for an append, which takes a mutex of  *)
(* its own after it has found the session.  A write may fall short; a      *)
(* delete may be cut off; a service may be closed, or die, at any point.   *)
(***************************************************************************)
EXTENDS Naturals, Sequences, Functions

CONSTANTS
  Services,    \* the service instances
  Closers,     \* those that may be closed
  MaxEntries,  \* bounds the entries written
  MaxRevision, \* bounds the revision of the checkpoint
  MaxDeletes,  \* bounds the deletions
  MaxLocks     \* bounds the lock files created

ASSUME FileStoreAssumption ==
  /\ Closers \subseteq Services
  /\ {MaxEntries, MaxRevision, MaxDeletes, MaxLocks} \subseteq Nat

VARIABLES
  \* the directory
  dir,         \* does it exist?
  hasLog,      \* does entries.jsonl exist?
  lines,       \* its lines: entries, numbered as they are written, or Garbled
  torn,        \* does the last line lack its newline?
  checkpoint,  \* the revision in checkpoint.json, or NoCheckpoint
  lockFile,    \* the inode of .lock, or 0
  \* the services
  held,        \* the inode of the flock a service holds in its locks, or 0
  cache,       \* the entries of its fileSession in sessions, or Uncached
  append,      \* its append: none, under way, or on a session dropped from sessions
  seen,        \* the revision of the checkpoint it read and means to update
  \* counters
  written, deletes, locks,
  \* history
  orphans,     \* the services whose cached session had its log removed since
  since,       \* what happened to the checkpoint a service read
  acked,       \* the entries of the log whose append returned no error
  astray       \* was the session closed, deleted or created under a user of it?

directory == <<dir, hasLog, lines, torn, checkpoint, lockFile>>
services == <<held, cache, append, seen>>
counters == <<written, deletes, locks>>
history == <<orphans, since, acked, astray>>
vars == <<directory, services, counters, history>>

logfile == <<hasLog, lines, torn, acked>>
locking == <<dir, lockFile, held, locks>>
control == <<checkpoint, seen, since>>

-----------------------------------------------------------------------------
Garbled == 0
Uncached == <<Garbled>>  \* not the entries of any log that can be read
NoCheckpoint == 0

Readable == Garbled \notin Range(lines)
Cached(s) == cache[s] # Uncached

Init ==
  /\ dir = FALSE /\ hasLog = FALSE /\ lines = <<>> /\ torn = FALSE
  /\ checkpoint = NoCheckpoint /\ lockFile = 0
  /\ held = [s \in Services |-> 0]
  /\ cache = [s \in Services |-> Uncached]
  /\ append = [s \in Services |-> "none"]
  /\ seen = [s \in Services |-> NoCheckpoint]
  /\ written = 0 /\ deletes = 0 /\ locks = 0
  /\ orphans = {} /\ since = [s \in Services |-> "same"]
  /\ acked = {} /\ astray = FALSE

-----------------------------------------------------------------------------
\* The service has the lock in its map already, or gets the flock of the lock
\* file, which it creates if there is none.
Flock(s) ==
  \/ held[s] # 0 /\ UNCHANGED <<lockFile, held, locks>>
  \/ /\ held[s] = 0
     /\ \/ /\ lockFile # 0 /\ \A t \in Services : held[t] # lockFile
           /\ UNCHANGED <<lockFile, locks>>
        \/ /\ lockFile = 0 /\ locks < MaxLocks
           /\ lockFile' = locks + 1 /\ locks' = locks + 1
     /\ held' = [held EXCEPT ![s] = lockFile']

\* lockSessionLocked succeeds.  The directory is made unless the lock is held.
Lock(s) == Flock(s) /\ dir' = (dir \/ held[s] = 0)

\* requireSessionDirLocked succeeds.
Require(s) == (Cached(s) \/ dir) /\ Lock(s)

\* An append under way goes on with the session it found, cached or not.
Detach(s) == [append EXCEPT ![s] = IF @ = "none" THEN @ ELSE "detached"]

\* Create makes the directory, locks it and writes an empty log.
Create(s) ==
  /\ ~hasLog
  /\ dir' = TRUE /\ Flock(s)
  /\ hasLog' = TRUE /\ lines' = <<>> /\ torn' = FALSE
  /\ cache' = [cache EXCEPT ![s] = <<>>]
  /\ orphans' = orphans \ {s}
  /\ append' = Detach(s)
  /\ astray' = (astray \/ append[s] # "none")
  /\ UNCHANGED <<control, written, deletes, acked>>

\* Create fails with the directory made, locked or not; or the load of a log
\* that has a garbled line fails with the lock.
LocksOnly(s) ==
  /\ \/ ~hasLog /\ dir' = TRUE /\ (Flock(s) \/ UNCHANGED <<lockFile, held, locks>>)
     \/ ~Cached(s) /\ dir /\ ~Readable /\ Lock(s)
  /\ UNCHANGED <<control, logfile, cache, append, written, deletes, orphans, astray>>

\* Mutant: a line that does not parse is skipped.
LoadSkips(s) ==
  /\ ~Cached(s) /\ dir
  /\ Lock(s)
  /\ cache' = [cache EXCEPT ![s] = SelectSeq(lines, LAMBDA l : l # Garbled)]
  /\ orphans' = orphans \ {s}
  /\ UNCHANGED <<control, logfile, append, written, deletes, astray>>

\* Mutant: the log is read without the lock.
LoadUnlocked(s) ==
  /\ ~Cached(s) /\ dir /\ Readable
  /\ cache' = [cache EXCEPT ![s] = lines]
  /\ orphans' = orphans \ {s}
  /\ UNCHANGED <<control, logfile, locking, append, written, deletes, astray>>

\* loadSessionLocked of a session that is not in sessions: from Get or from
\* AppendEntry.  A directory without a log is an empty session.
Load(s) ==
  /\ ~Cached(s) /\ dir /\ Readable
  /\ Lock(s)
  /\ cache' = [cache EXCEPT ![s] = lines]
  /\ orphans' = orphans \ {s}
  /\ UNCHANGED <<control, logfile, append, written, deletes, astray>>

-----------------------------------------------------------------------------
\* AppendEntry has found the session and released the mutex of the service.
BeginAppend(s) ==
  /\ append[s] = "none" /\ Cached(s)
  /\ append' = [append EXCEPT ![s] = "found"]
  /\ UNCHANGED <<directory, held, cache, seen, counters, history>>

\* The last line of the log when l is written behind what is there.
Behind(l) == IF torn THEN [lines EXCEPT ![Len(lines)] = Garbled] ELSE Append(lines, l)

\* The entry is written, and then added to the session in memory.  A line longer
\* than the scanner's buffer is written all the same, but no load accepts it.
Write(s) ==
  /\ append[s] # "none" /\ dir /\ written < MaxEntries
  /\ written' = written + 1
  /\ \E l \in {Garbled, written'} : lines' = Behind(l)
  /\ hasLog' = TRUE /\ torn' = FALSE
  /\ cache' = IF append[s] = "found" THEN [cache EXCEPT ![s] = Append(@, written')] ELSE cache
  /\ append' = [append EXCEPT ![s] = "none"]
  /\ acked' = acked \cup {written'}
  /\ UNCHANGED <<control, locking, deletes, orphans, astray>>

\* Only a part of the entry is written, or all of it but the newline.
WriteShort(s) ==
  /\ append[s] # "none" /\ dir /\ written < MaxEntries
  /\ written' = written + 1
  /\ \E l \in {Garbled, written'} : lines' = Behind(l)
  /\ hasLog' = TRUE /\ torn' = TRUE
  /\ append' = [append EXCEPT ![s] = "none"]
  /\ UNCHANGED <<control, locking, cache, deletes, orphans, acked, astray>>

\* Mutant: the entry is added to memory before it is written.
WriteFailsLate(s) ==
  /\ append[s] # "none" /\ written < MaxEntries
  /\ written' = written + 1
  /\ cache' = IF append[s] = "found" THEN [cache EXCEPT ![s] = Append(@, written')] ELSE cache
  /\ append' = [append EXCEPT ![s] = "none"]
  /\ UNCHANGED <<directory, held, seen, deletes, locks, history>>

\* The log cannot be opened, as when the directory is gone, or is opened (and
\* created if there is none) and then not written.
WriteFails(s) ==
  /\ append[s] # "none"
  /\ hasLog' \in {hasLog, dir}
  /\ append' = [append EXCEPT ![s] = "none"]
  /\ UNCHANGED <<control, locking, lines, torn, cache, written, deletes, orphans, acked, astray>>

-----------------------------------------------------------------------------
\* GetCheckpoint.  What was read may be updated later.
ReadCheckpoint(s) ==
  /\ Require(s)
  /\ seen' = [seen EXCEPT ![s] = checkpoint] /\ since' = [since EXCEPT ![s] = "same"]
  /\ UNCHANGED <<checkpoint, logfile, cache, append, written, deletes, orphans, astray>>

\* History: the stored checkpoint is replaced (or removed) under those who read it.
Became(what) ==
  since' = [t \in Services |->
              CASE seen'[t] = NoCheckpoint -> "same"
                [] seen'[t] # NoCheckpoint /\ since[t] = "removed" -> "removed"
                [] OTHER -> what]

\* Mutant: the revision of the checkpoint is not advanced.
PutSameRevision(s) ==
  /\ Require(s) /\ dir'
  /\ checkpoint' = IF checkpoint = NoCheckpoint THEN 1 ELSE checkpoint
  /\ UNCHANGED <<logfile, cache, append, written, deletes, orphans, astray>>

\* writeJSONAtomic of a checkpoint with the next revision.
Put(s) ==
  /\ Require(s) /\ dir' /\ checkpoint < MaxRevision
  /\ checkpoint' = checkpoint + 1
  /\ UNCHANGED <<logfile, cache, append, written, deletes, orphans, astray>>

\* SaveCheckpoint without ExpectedRevision (the runner's).
SaveCheckpoint(s) == Put(s) /\ UNCHANGED seen /\ Became("replaced")

\* SaveCheckpoint with the revision of what was read (the terminal UI's).
UpdateCheckpoint(s) ==
  /\ seen[s] # NoCheckpoint /\ checkpoint = seen[s]
  /\ Put(s)
  /\ seen' = [seen EXCEPT ![s] = NoCheckpoint] /\ Became("replaced")

ClearCheckpoint(s) ==
  /\ Require(s)
  /\ checkpoint # NoCheckpoint
  /\ checkpoint' = NoCheckpoint /\ UNCHANGED seen /\ Became("removed")
  /\ UNCHANGED <<logfile, cache, append, written, deletes, orphans, astray>>

-----------------------------------------------------------------------------
\* Who else has to do with the session than service s.
OthersUse(s) == \E t \in Services \ {s} : held[t] # 0 \/ Cached(t) \/ append[t] # "none"

\* Delete drops the service's own lock and session and removes the directory;
\* when it fails or is cut off, only some of its files.
Delete(s) ==
  /\ deletes < MaxDeletes /\ deletes' = deletes + 1
  /\ held' = [held EXCEPT ![s] = 0]
  /\ cache' = [cache EXCEPT ![s] = Uncached]
  /\ append' = Detach(s)
  /\ \/ /\ dir' = FALSE /\ lockFile' = 0
        /\ hasLog' = FALSE /\ checkpoint' = NoCheckpoint
     \/ /\ dir /\ UNCHANGED dir
        /\ lockFile' \in {lockFile, 0}
        /\ hasLog' \in {hasLog, FALSE}
        /\ checkpoint' \in {checkpoint, NoCheckpoint}
  /\ IF hasLog /\ ~hasLog'
     THEN /\ lines' = <<>> /\ torn' = FALSE /\ acked' = {}
          /\ orphans' = {t \in Services \ {s} : Cached(t)}
     ELSE UNCHANGED <<lines, torn, acked>> /\ orphans' = orphans \ {s}
  /\ UNCHANGED seen
  /\ IF checkpoint # checkpoint' THEN Became("removed") ELSE UNCHANGED since
  /\ astray' = (astray \/ OthersUse(s) \/ append[s] # "none")
  /\ UNCHANGED <<written, locks>>

\* Close releases the lock and keeps the session.
Close(s) ==
  /\ s \in Closers /\ held[s] # 0
  /\ held' = [held EXCEPT ![s] = 0]
  /\ astray' = (astray \/ Cached(s) \/ append[s] # "none")
  /\ UNCHANGED <<directory, cache, append, seen, counters, orphans, since, acked>>

\* The process of the service dies, and a new service takes its place.
Crash(s) ==
  /\ held' = [held EXCEPT ![s] = 0]
  /\ cache' = [cache EXCEPT ![s] = Uncached]
  /\ append' = [append EXCEPT ![s] = "none"]
  /\ seen' = [seen EXCEPT ![s] = NoCheckpoint] /\ since' = [since EXCEPT ![s] = "same"]
  /\ orphans' = orphans \ {s}
  /\ UNCHANGED <<directory, counters, acked, astray>>

-----------------------------------------------------------------------------
Step(s) ==
  \/ Create(s) \/ LocksOnly(s) \/ Load(s)
  \/ BeginAppend(s) \/ Write(s) \/ WriteShort(s) \/ WriteFails(s)
  \/ ReadCheckpoint(s) \/ SaveCheckpoint(s) \/ UpdateCheckpoint(s) \/ ClearCheckpoint(s)
  \/ Delete(s) \/ Close(s) \/ Crash(s)

Next == \E s \in Services : Step(s)

Spec == Init /\ [][Next]_vars

-----------------------------------------------------------------------------
Line == 0..MaxEntries
Revision == 0..MaxRevision

TypeOK ==
  /\ dir \in BOOLEAN /\ hasLog \in BOOLEAN /\ torn \in BOOLEAN /\ astray \in BOOLEAN
  /\ lines \in Seq(Line)
  /\ hasLog \/ checkpoint # NoCheckpoint \/ lockFile # 0 => dir
  /\ torn => lines # <<>>
  /\ lines # <<>> => hasLog
  /\ checkpoint \in Revision
  /\ lockFile \in 0..MaxLocks
  /\ held \in [Services -> 0..MaxLocks]
  /\ cache \in [Services -> Seq(Line)]
  /\ append \in [Services -> {"none", "found", "detached"}]
  /\ seen \in [Services -> Revision]
  /\ written \in 0..MaxEntries /\ deletes \in 0..MaxDeletes /\ locks \in 0..MaxLocks
  /\ orphans \subseteq Services /\ since \in [Services -> {"same", "replaced", "removed"}]
  /\ acked \in SUBSET Line

\* Whatever was cut short, lost in a crash or written by others, a log that can
\* be read has every entry of it that was ever acknowledged: a damaged log is
\* refused, never read as a shorter one.
LoadIsComplete ==
  [][\A s \in Services : ~Cached(s) /\ cache'[s] # Uncached => acked' \subseteq Range(cache'[s])]_vars

\* The entries a service has in memory are in the log it read them from, unless
\* that was removed or garbled since: memory is never ahead of the disk.
MemoryNotAhead ==
  \A s \in Services :
    Cached(s) /\ s \notin orphans /\ Readable => Range(cache[s]) \subseteq Range(lines)

\* While nobody closes, deletes or creates the session under a user of it, a service
\* that has it in memory owns its lock, alone, and sees the whole log.
OwnerSeesLog ==
  ~astray =>
    \A s \in Services : Cached(s) =>
      /\ held[s] = lockFile /\ lockFile # 0
      /\ \A t \in Services \ {s} : held[t] # lockFile /\ ~Cached(t)
      /\ Readable /\ ~torn => cache[s] = lines

\* An update replaces the very checkpoint its service read, unless that has been
\* removed since (revisions restart then).
NoLostUpdate ==
  [][\A s \in Services : UpdateCheckpoint(s) => since[s] # "replaced"]_vars

\* service.go:165 says "Concurrent access from a second service instance (same or
\* different process) is rejected at lock acquisition time via flock(2)": no
\* service that has a session in memory adds to its log while another holds the lock.
SingleOwner ==
  [][\A s \in Services :
       Write(s) /\ append[s] = "found" => lockFile = 0 \/ \A t \in Services \ {s} : held[t] # lockFile]_vars
=============================================================================
