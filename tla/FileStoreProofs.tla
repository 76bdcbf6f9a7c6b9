-------------------------- MODULE FileStoreProofs --------------------------
(***************************************************************************)
(* Theorems about the file session store, for every set of services and    *)
(* every bound: what is in memory is in the log, a load finds whatever was *)
(* acknowledged, an update replaces what it has read, and the lock keeps   *)
(* services apart while none of them deletes or closes the session.        *)
(***************************************************************************)
EXTENDS FileStore, TLAPS

-----------------------------------------------------------------------------
(* Types. *)

\* The flags, and what the directory holds.
Files ==
  /\ dir \in BOOLEAN /\ hasLog \in BOOLEAN /\ torn \in BOOLEAN /\ astray \in BOOLEAN
  /\ hasLog \/ checkpoint # NoCheckpoint \/ lockFile # 0 => dir

\* The log and its copies in memory.
Logs ==
  /\ lines \in Seq(Line) /\ cache \in [Services -> Seq(Line)]
  /\ torn => lines # <<>>
  /\ lines # <<>> => hasLog
  /\ written \in 0..MaxEntries
  /\ acked \in SUBSET Line /\ orphans \subseteq Services

\* The locks, the checkpoint and what a service is about to do.
Calls ==
  /\ lockFile \in 0..MaxLocks /\ held \in [Services -> 0..MaxLocks]
  /\ locks \in 0..MaxLocks /\ deletes \in 0..MaxDeletes
  /\ append \in [Services -> {"none", "found", "detached"}]
  /\ checkpoint \in Revision /\ seen \in [Services -> Revision]
  /\ since \in [Services -> {"same", "replaced", "removed"}]

\* The three parts make up the type invariant.
LEMMA TypeParts == TypeOK <=> Files /\ Logs /\ Calls
BY DEF TypeOK, Files, Logs, Calls

\* The types hold at the start.
LEMMA InitTypes == Init => TypeOK
<1> SUFFICES ASSUME Init PROVE Files /\ Logs /\ Calls
  BY TypeParts
<1>1. Files
  BY DEF Init, Files
<1>2. Logs
  BY FileStoreAssumption DEF FileStoreAssumption, Init, Logs, Line, Uncached, Garbled
<1>3. Calls
  BY FileStoreAssumption DEF FileStoreAssumption, Init, Calls, Revision, NoCheckpoint
<1> QED BY <1>1, <1>2, <1>3

\* Every step keeps the files and flags in order.
LEMMA NextFiles ==
  ASSUME TypeOK, NEW s \in Services, Step(s)
  PROVE  Files'
<1> USE TypeParts DEF Files
<1>1. CASE Create(s)
  BY <1>1 DEF Create, control
<1>2. CASE LocksOnly(s)
  BY <1>2 DEF LocksOnly, Lock, Flock, control, logfile
<1>3. CASE Load(s)
  BY <1>3 DEF Load, Lock, Flock, control, logfile
<1>4. CASE BeginAppend(s)
  BY <1>4 DEF BeginAppend, directory, history
<1>5. CASE Write(s)
  BY <1>5 DEF Write, control, locking
<1>6. CASE WriteShort(s)
  BY <1>6 DEF WriteShort, control, locking
<1>7. CASE WriteFails(s)
  BY <1>7 DEF WriteFails, control, locking
<1>8. CASE ReadCheckpoint(s)
  BY <1>8 DEF ReadCheckpoint, Require, Lock, Flock, logfile
<1>9. CASE SaveCheckpoint(s) \/ UpdateCheckpoint(s)
  BY <1>9 DEF SaveCheckpoint, UpdateCheckpoint, Put, Require, Lock, Flock, logfile
<1>10. CASE ClearCheckpoint(s)
  BY <1>10 DEF ClearCheckpoint, Require, Lock, Flock, logfile
<1>11. CASE Delete(s)
  <2>1. hasLog' \in BOOLEAN /\ dir' \in BOOLEAN
    BY <1>11 DEF Delete
  <2>2. torn' \in BOOLEAN
    BY <1>11 DEF Delete
  <2>3. astray' \in BOOLEAN
    BY <1>11 DEF Delete
  <2>4. hasLog' \/ checkpoint' # NoCheckpoint \/ lockFile' # 0 => dir'
    <3>1. \/ lockFile' = 0 /\ hasLog' = FALSE /\ checkpoint' = NoCheckpoint
          \/ dir /\ dir' = dir
      BY <1>11, Zenon DEF Delete
    <3> QED BY <3>1
  <2> QED BY <2>1, <2>2, <2>3, <2>4
<1>12. CASE Close(s)
  BY <1>12 DEF Close, directory
<1>13. CASE Crash(s)
  BY <1>13 DEF Crash, directory
<1> QED
  BY <1>1, <1>2, <1>3, <1>4, <1>5, <1>6, <1>7, <1>8, <1>9, <1>10, <1>11, <1>12, <1>13 DEF Step

\* A line goes behind the others, or garbles a torn one.
LEMMA BehindTypes ==
  ASSUME Logs, NEW l \in Line
  PROVE  Behind(l) \in Seq(Line) /\ Behind(l) # <<>>
<1>1. Garbled \in Line
  BY FileStoreAssumption DEF FileStoreAssumption, Line, Garbled
<1>2. CASE torn
  <2>1. lines \in Seq(Line) /\ Len(lines) \in 1..Len(lines)
    BY <1>2 DEF Logs
  <2>2. [lines EXCEPT ![Len(lines)] = Garbled] \in Seq(Line)
    BY <1>1, <2>1
  <2>3. Len([lines EXCEPT ![Len(lines)] = Garbled]) = Len(lines)
    BY <1>1, <2>1
  <2> QED BY <1>2, <2>1, <2>2, <2>3 DEF Behind
<1>3. CASE ~torn
  BY <1>3 DEF Logs, Behind
<1> QED BY <1>2, <1>3

\* Every step keeps the types of the log and of its copies.
LEMMA NextLogs ==
  ASSUME TypeOK, NEW s \in Services, Step(s)
  PROVE  Logs'
<1> USE TypeParts DEF Logs
<1>1. CASE Create(s)
  BY <1>1 DEF Create
<1>2. CASE LocksOnly(s) \/ ReadCheckpoint(s) \/ ClearCheckpoint(s)
  BY <1>2 DEF LocksOnly, ReadCheckpoint, ClearCheckpoint, logfile
<1>3. CASE Load(s)
  BY <1>3 DEF Load, logfile
<1>4. CASE BeginAppend(s)
  BY <1>4 DEF BeginAppend, directory, counters, history
<1>5. ASSUME NEW l \in {Garbled, written'}, Write(s) \/ WriteShort(s), lines' = Behind(l)
      PROVE  Logs'
  <2>1. written' \in 0..MaxEntries /\ written' \in Line /\ l \in Line
    BY <1>5, FileStoreAssumption DEF FileStoreAssumption, Write, WriteShort, Line, Garbled
  <2>2. lines' \in Seq(Line) /\ lines' # <<>> /\ hasLog'
    BY <1>5, <2>1, BehindTypes DEF Write, WriteShort
  <2>3. cache' \in [Services -> Seq(Line)]
    <3>1. Append(cache[s], written') \in Seq(Line)
      BY <2>1
    <3> QED BY <1>5, <3>1 DEF Write, WriteShort
  <2>4. acked' \in SUBSET Line /\ orphans' \subseteq Services
    BY <1>5, <2>1 DEF Write, WriteShort
  <2> QED BY <2>1, <2>2, <2>3, <2>4
<1>6. CASE WriteFails(s)
  BY <1>6 DEF WriteFails, control, locking, Files
<1>7. CASE SaveCheckpoint(s) \/ UpdateCheckpoint(s)
  BY <1>7 DEF SaveCheckpoint, UpdateCheckpoint, Put, logfile
<1>8. CASE Delete(s)
  <2>1. cache' \in [Services -> Seq(Line)]
    <3>1. Uncached \in Seq(Line)
      BY FileStoreAssumption DEF FileStoreAssumption, Uncached, Line, Garbled
    <3> QED BY <1>8, <3>1 DEF Delete
  <2>2. CASE hasLog /\ ~hasLog'
    BY <1>8, <2>1, <2>2 DEF Delete
  <2>3. CASE ~(hasLog /\ ~hasLog')
    BY <1>8, <2>1, <2>3 DEF Delete
  <2> QED BY <2>2, <2>3
<1>9. CASE Close(s)
  BY <1>9 DEF Close, directory, counters
<1>10. CASE Crash(s)
  <2>1. Uncached \in Seq(Line)
    BY FileStoreAssumption DEF FileStoreAssumption, Uncached, Line, Garbled
  <2> QED BY <1>10, <2>1 DEF Crash, directory, counters
<1>11. CASE Write(s) \/ WriteShort(s)
  BY <1>5, <1>11 DEF Write, WriteShort
<1> QED
  BY <1>1, <1>2, <1>3, <1>4, <1>6, <1>7, <1>8, <1>9, <1>10, <1>11 DEF Step

\* Taking the lock keeps the types of the locks.
LEMMA FlockTypes ==
  ASSUME Calls, NEW s \in Services, Flock(s)
  PROVE  /\ lockFile' \in 0..MaxLocks /\ held' \in [Services -> 0..MaxLocks]
         /\ locks' \in 0..MaxLocks
BY FileStoreAssumption DEF FileStoreAssumption, Calls, Flock

\* Every step keeps the types of the locks, the checkpoint and the calls.
LEMMA NextCalls ==
  ASSUME TypeOK, NEW s \in Services, Step(s)
  PROVE  Calls'
<1> USE TypeParts DEF Calls
<1>a. Detach(s) \in [Services -> {"none", "found", "detached"}]
  BY DEF Detach
<1>b. ASSUME NEW what \in {"replaced", "removed"}, Became(what)
      PROVE  since' \in [Services -> {"same", "replaced", "removed"}]
  BY <1>b DEF Became
<1>1. CASE Create(s)
  BY <1>1, <1>a, FlockTypes DEF Create, control
<1>2. CASE LocksOnly(s)
  BY <1>2, FlockTypes DEF LocksOnly, Lock, control
<1>3. CASE Load(s)
  BY <1>3, FlockTypes DEF Load, Lock, control
<1>4. CASE BeginAppend(s)
  BY <1>4 DEF BeginAppend, directory, counters, history
<1>5. CASE Write(s) \/ WriteShort(s) \/ WriteFails(s)
  BY <1>5 DEF Write, WriteShort, WriteFails, control, locking
<1>6. CASE ReadCheckpoint(s)
  BY <1>6, FlockTypes DEF ReadCheckpoint, Require, Lock
<1>7. CASE SaveCheckpoint(s) \/ UpdateCheckpoint(s)
  <2>1. checkpoint' \in Revision
    BY <1>7, FileStoreAssumption
    DEF FileStoreAssumption, SaveCheckpoint, UpdateCheckpoint, Put, Revision
  <2>2. seen' \in [Services -> Revision]
    BY <1>7, FileStoreAssumption
    DEF FileStoreAssumption, SaveCheckpoint, UpdateCheckpoint, Revision, NoCheckpoint
  <2>3. since' \in [Services -> {"same", "replaced", "removed"}]
    BY <1>7, <1>b DEF SaveCheckpoint, UpdateCheckpoint
  <2> QED
    BY <1>7, <2>1, <2>2, <2>3, FlockTypes DEF SaveCheckpoint, UpdateCheckpoint, Put, Require, Lock
<1>8. CASE ClearCheckpoint(s)
  <2>1. checkpoint' \in Revision
    BY <1>8, FileStoreAssumption
    DEF FileStoreAssumption, ClearCheckpoint, Revision, NoCheckpoint
  <2> QED BY <1>8, <1>b, <2>1, FlockTypes DEF ClearCheckpoint, Require, Lock
<1>9. CASE Delete(s)
  <2>1. /\ lockFile' \in {lockFile, 0} /\ checkpoint' \in {checkpoint, NoCheckpoint}
        /\ held' = [held EXCEPT ![s] = 0]
    BY <1>9, Zenon DEF Delete
  <2>2. since' \in [Services -> {"same", "replaced", "removed"}]
    BY <1>9, <1>b DEF Delete
  <2>3. deletes' \in 0..MaxDeletes
    BY <1>9, FileStoreAssumption DEF FileStoreAssumption, Delete
  <2>4. /\ lockFile' \in 0..MaxLocks /\ checkpoint' \in Revision
        /\ held' \in [Services -> 0..MaxLocks]
    BY <2>1, FileStoreAssumption DEF FileStoreAssumption, Revision, NoCheckpoint
  <2> QED BY <1>9, <1>a, <2>2, <2>3, <2>4 DEF Delete
<1>10. CASE Close(s)
  BY <1>10, FileStoreAssumption DEF FileStoreAssumption, Close, directory, counters
<1>11. CASE Crash(s)
  BY <1>11, FileStoreAssumption
  DEF FileStoreAssumption, Crash, directory, counters, Revision, NoCheckpoint
<1> QED
  BY <1>1, <1>2, <1>3, <1>4, <1>5, <1>6, <1>7, <1>8, <1>9, <1>10, <1>11 DEF Step

\* Every step keeps the types.
LEMMA NextTypes ==
  ASSUME TypeOK, [Next]_vars
  PROVE  TypeOK'
<1>1. ASSUME NEW s \in Services, Step(s) PROVE TypeOK'
  BY <1>1, NextFiles, NextLogs, NextCalls, TypeParts
  DEF TypeOK, Files, Logs, Calls
<1>2. CASE UNCHANGED vars
  BY <1>2 DEF vars, directory, services, counters, history, TypeOK
<1> QED BY <1>1, <1>2 DEF Next

\* For any services and bounds, every variable of the store keeps to its type, and
\* nothing is in a directory that is not there.
THEOREM TypeCorrect == Spec => []TypeOK
<1>1. Init => TypeOK
  BY InitTypes
<1>2. TypeOK /\ [Next]_vars => TypeOK'
  BY NextTypes
<1> QED BY <1>1, <1>2, PTL DEF Spec

-----------------------------------------------------------------------------
(* The log and its copies in memory. *)

\* What an append to a sequence adds to its elements.
LEMMA AppendRange ==
  ASSUME NEW S, NEW q \in Seq(S), NEW e \in S
  PROVE  Range(Append(q, e)) = Range(q) \cup {e}
<1>1. DOMAIN Append(q, e) = DOMAIN q \cup {Len(q) + 1}
  OBVIOUS
<1>2. \A i \in DOMAIN q : Append(q, e)[i] = q[i]
  OBVIOUS
<1>3. Append(q, e)[Len(q) + 1] = e
  OBVIOUS
<1> QED BY <1>1, <1>2, <1>3 DEF Range

\* A log that can be read after a line was written could be read before, had no
\* torn line, and has all its lines and the new one.
LEMMA BehindReadable ==
  ASSUME Logs, NEW l \in Line, Garbled \notin Range(Behind(l))
  PROVE  /\ l # Garbled /\ ~torn /\ Readable
         /\ Behind(l) = Append(lines, l)
         /\ Range(Behind(l)) = Range(lines) \cup {l}
<1>1. ~torn
  <2> SUFFICES ASSUME torn PROVE Garbled \in Range(Behind(l))
    OBVIOUS
  <2>1. lines \in Seq(Line) /\ Len(lines) \in DOMAIN lines
    BY DEF Logs
  <2>2. Len(lines) \in DOMAIN Behind(l) /\ Behind(l)[Len(lines)] = Garbled
    BY <2>1 DEF Behind
  <2> QED BY <2>2 DEF Range
<1>2. Behind(l) = Append(lines, l)
  BY <1>1 DEF Behind
<1>3. Range(Behind(l)) = Range(lines) \cup {l}
  BY <1>2, AppendRange DEF Logs
<1> QED BY <1>1, <1>2, <1>3 DEF Readable

\* An append that found the session goes on with what is cached; every entry
\* that was acknowledged is in the log; and so is what is cached.
LogInv ==
  /\ \A s \in Services : append[s] = "found" => Cached(s)
  /\ acked # {} => hasLog
  /\ Readable => acked \subseteq Range(lines)
  /\ MemoryNotAhead

\* Every step keeps the log and its copies together.
LEMMA NextLog ==
  ASSUME TypeOK, LogInv, [Next]_vars
  PROVE  LogInv'
<1> USE TypeParts DEF LogInv, MemoryNotAhead, Cached
<1>1. ASSUME NEW s \in Services, Create(s) PROVE LogInv'
  <2>1. lines = <<>> /\ lines' = <<>> /\ acked' = acked /\ hasLog' /\ ~hasLog
    BY <1>1 DEF Create, Logs
  <2>2. cache' = [cache EXCEPT ![s] = <<>>] /\ orphans' = orphans \ {s}
    BY <1>1 DEF Create
  <2>3. \A t \in Services : append'[t] = "found" => append[t] = "found" /\ t # s
    BY <1>1 DEF Create, Detach, Calls
  <2>4. Range(<<>>) = {}
    BY DEF Range
  <2>5. \A t \in Services : Cached(t)' /\ t \notin orphans' => Range(cache'[t]) \subseteq Range(lines')
    BY <2>1, <2>2, <2>4 DEF Logs, Readable, Garbled
  <2> QED BY <2>1, <2>2, <2>3, <2>5 DEF Logs, Uncached
<1>2. ASSUME NEW s \in Services, LocksOnly(s) \/ ReadCheckpoint(s) \/ ClearCheckpoint(s)
      PROVE  LogInv'
  BY <1>2 DEF LocksOnly, ReadCheckpoint, ClearCheckpoint, logfile, Readable
<1>3. ASSUME NEW s \in Services, Load(s) PROVE LogInv'
  BY <1>3 DEF Load, logfile, Logs, Readable
<1>4. ASSUME NEW s \in Services, BeginAppend(s) PROVE LogInv'
  BY <1>4 DEF BeginAppend, directory, history, Calls, Readable
<1>5. ASSUME NEW s \in Services, NEW l \in {Garbled, written'}, lines' = Behind(l),
             Write(s) \/ WriteShort(s)
      PROVE  LogInv'
  <2>1. written' \in Line /\ l \in Line
    BY <1>5, FileStoreAssumption DEF FileStoreAssumption, Write, WriteShort, Line, Garbled, Logs
  <2>2. Readable' => Readable /\ Range(lines') = Range(lines) \cup {l} /\ l = written'
    BY <1>5, <2>1, BehindReadable DEF Readable
  <2>3. hasLog' /\ orphans' = orphans /\ (acked' = acked \/ acked' = acked \cup {written'})
    <3>1. CASE Write(s)
      BY <3>1, Zenon DEF Write
    <3>2. CASE WriteShort(s)
      BY <3>2, Zenon DEF WriteShort
    <3> QED BY <1>5, <3>1, <3>2
  <2>4. Readable' => acked' \subseteq Range(lines')
    BY <2>2, <2>3
  <2>5. append' = [append EXCEPT ![s] = "none"]
    BY <1>5 DEF Write, WriteShort
  <2>6. \/ cache' = cache
        \/ append[s] = "found" /\ cache' = [cache EXCEPT ![s] = Append(@, written')]
    BY <1>5 DEF Write, WriteShort
  <2>7. Range(Append(cache[s], written')) = Range(cache[s]) \cup {written'}
    BY <2>1, AppendRange DEF Logs
  <2>8. \A t \in Services : append'[t] = "found" => t # s /\ cache'[t] = cache[t] /\ Cached(t)
    BY <2>5, <2>6 DEF Calls, Logs
  <2>9. \A t \in Services : Cached(t)' /\ t \notin orphans' /\ Readable'
                              => Range(cache'[t]) \subseteq Range(lines')
    BY <2>2, <2>3, <2>6, <2>7 DEF Logs
  <2> QED BY <2>3, <2>4, <2>8, <2>9
<1>6. ASSUME NEW s \in Services, WriteFails(s) PROVE LogInv'
  BY <1>6 DEF WriteFails, control, locking, Calls, Readable, Files, Logs
<1>7. ASSUME NEW s \in Services, SaveCheckpoint(s) \/ UpdateCheckpoint(s) PROVE LogInv'
  BY <1>7 DEF SaveCheckpoint, UpdateCheckpoint, Put, logfile, Readable
<1>8. ASSUME NEW s \in Services, Delete(s) PROVE LogInv'
  <2>1. cache' = [cache EXCEPT ![s] = Uncached] /\ append' = Detach(s)
    BY <1>8 DEF Delete
  <2>2. \A t \in Services : append'[t] = "found" => append[t] = "found" /\ t # s
    BY <2>1 DEF Detach, Calls
  <2>3. \A t \in Services : append'[t] = "found" => Cached(t)'
    BY <2>1, <2>2 DEF Logs
  <2>4. CASE hasLog /\ ~hasLog'
    BY <1>8, <2>1, <2>3, <2>4 DEF Delete, Logs, Readable, Range
  <2>5. CASE ~(hasLog /\ ~hasLog')
    BY <1>8, <2>1, <2>3, <2>5 DEF Delete, Logs, Readable
  <2> QED BY <2>4, <2>5
<1>9. ASSUME NEW s \in Services, Close(s) PROVE LogInv'
  BY <1>9 DEF Close, directory, Readable
<1>10. ASSUME NEW s \in Services, Crash(s) PROVE LogInv'
  BY <1>10 DEF Crash, directory, Readable, Calls, Logs
<1>11. CASE UNCHANGED vars
  BY <1>11 DEF vars, directory, services, history, Readable
<1>12. ASSUME NEW s \in Services, Write(s) PROVE LogInv'
  <2>1. PICK l \in {Garbled, written'} : lines' = Behind(l)
    BY <1>12 DEF Write
  <2> QED BY <1>5, <1>12, <2>1
<1>13. ASSUME NEW s \in Services, WriteShort(s) PROVE LogInv'
  <2>1. PICK l \in {Garbled, written'} : lines' = Behind(l)
    BY <1>13 DEF WriteShort
  <2> QED BY <1>5, <1>13, <2>1
<1> QED
  BY <1>1, <1>2, <1>3, <1>4, <1>6, <1>7, <1>8, <1>9, <1>10, <1>11, <1>12, <1>13
  DEF Next, Step

\* The store starts empty and keeps the log and its copies together.
LEMMA LogTogether == Spec => [](TypeOK /\ LogInv)
<1>1. Init => TypeOK /\ LogInv
  BY InitTypes DEF Init, LogInv, MemoryNotAhead, Cached, Uncached, Range
<1>2. TypeOK /\ LogInv /\ [Next]_vars => TypeOK' /\ LogInv'
  BY NextTypes, NextLog
<1> QED BY <1>1, <1>2, PTL DEF Spec

\* For any services and bounds, whatever fails or is cut short, a service has in
\* memory only what is in the log it read.
THEOREM MemoryIsInLog == Spec => []MemoryNotAhead
BY LogTogether, PTL DEF LogInv

\* For any services and bounds, a session that is loaded has every entry that was
\* acknowledged.
THEOREM LoadsAreComplete == Spec => LoadIsComplete
<1>1. ASSUME TypeOK, LogInv, [Next]_vars, NEW s \in Services, ~Cached(s), cache'[s] # Uncached
      PROVE  acked' \subseteq Range(cache'[s])
  <2> USE TypeParts DEF LogInv, Cached
  <2>1. ASSUME NEW t \in Services, Create(t) PROVE acked' \subseteq Range(cache'[s])
    BY <1>1, <2>1 DEF Create, Logs
  <2>2. ASSUME NEW t \in Services, Load(t) PROVE acked' \subseteq Range(cache'[s])
    BY <1>1, <2>2 DEF Load, Logs, logfile
  <2>3. ASSUME NEW t \in Services, Write(t) PROVE FALSE
    BY <1>1, <2>3 DEF Write, Logs
  <2>4. ASSUME NEW t \in Services, Delete(t) \/ Crash(t) PROVE FALSE
    BY <1>1, <2>4 DEF Delete, Crash, Logs
  <2>5. ASSUME NEW t \in Services,
               LocksOnly(t) \/ BeginAppend(t) \/ WriteShort(t) \/ WriteFails(t)
                 \/ ReadCheckpoint(t) \/ ClearCheckpoint(t) \/ Close(t)
        PROVE  FALSE
    BY <1>1, <2>5 DEF LocksOnly, BeginAppend, WriteShort, WriteFails, ReadCheckpoint,
                      ClearCheckpoint, Close
  <2>6. ASSUME NEW t \in Services, SaveCheckpoint(t) \/ UpdateCheckpoint(t) PROVE FALSE
    BY <1>1, <2>6 DEF SaveCheckpoint, UpdateCheckpoint, Put
  <2>7. CASE UNCHANGED vars
    BY <1>1, <2>7 DEF vars, services
  <2> QED BY <1>1, <2>1, <2>2, <2>3, <2>4, <2>5, <2>6, <2>7 DEF Next, Step
<1>2. TypeOK /\ LogInv /\ [Next]_vars
        => [\A s \in Services : ~Cached(s) /\ cache'[s] # Uncached
                                  => acked' \subseteq Range(cache'[s])]_vars
  BY <1>1
<1> QED BY LogTogether, <1>2, PTL DEF Spec, LoadIsComplete

-----------------------------------------------------------------------------
(* Revisions. *)

\* A checkpoint that was read is the stored one, or older than it, or was removed.
SeenInv ==
  \A s \in Services : seen[s] # NoCheckpoint =>
    /\ since[s] = "same" => seen[s] = checkpoint
    /\ since[s] = "replaced" => seen[s] < checkpoint

\* Every step keeps what was read older than what replaced it.
LEMMA NextSeen ==
  ASSUME TypeOK, SeenInv, [Next]_vars
  PROVE  SeenInv'
<1> USE TypeParts DEF SeenInv, Calls, Revision, NoCheckpoint
<1>1. ASSUME UNCHANGED <<checkpoint, seen, since>> PROVE SeenInv'
  BY <1>1
<1>2. ASSUME NEW s \in Services, ReadCheckpoint(s) PROVE SeenInv'
  BY <1>2 DEF ReadCheckpoint
<1>3. ASSUME NEW s \in Services, SaveCheckpoint(s) \/ UpdateCheckpoint(s) PROVE SeenInv'
  <2>1. checkpoint' = checkpoint + 1 /\ Became("replaced")
    BY <1>3 DEF SaveCheckpoint, UpdateCheckpoint, Put
  <2>2. \A t \in Services : seen'[t] # NoCheckpoint => seen'[t] = seen[t]
    BY <1>3 DEF SaveCheckpoint, UpdateCheckpoint
  <2>3. \A t \in Services : seen'[t] # NoCheckpoint => since'[t] \in {"removed", "replaced"}
    BY <2>1 DEF Became
  <2>4. \A t \in Services : seen'[t] # NoCheckpoint /\ since'[t] = "replaced" => since[t] # "removed"
    BY <2>1 DEF Became
  <2> QED BY <2>1, <2>2, <2>3, <2>4
<1>4. ASSUME Became("removed"), UNCHANGED seen PROVE SeenInv'
  BY <1>4 DEF Became
<1>5. ASSUME NEW s \in Services, ClearCheckpoint(s) PROVE SeenInv'
  BY <1>4, <1>5 DEF ClearCheckpoint
<1>6. ASSUME NEW s \in Services, Delete(s) PROVE SeenInv'
  <2>1. UNCHANGED seen /\ (Became("removed") \/ UNCHANGED <<checkpoint, since>>)
    BY <1>6, Zenon DEF Delete
  <2> QED BY <1>1, <1>4, <2>1
<1>7. ASSUME NEW s \in Services, Crash(s) PROVE SeenInv'
  BY <1>7 DEF Crash, directory
<1>8. ASSUME NEW s \in Services,
             Create(s) \/ LocksOnly(s) \/ Load(s) \/ Write(s) \/ WriteShort(s) \/ WriteFails(s)
      PROVE  SeenInv'
  BY <1>1, <1>8 DEF Create, LocksOnly, Load, Write, WriteShort, WriteFails, control
<1>9. ASSUME NEW s \in Services, BeginAppend(s) \/ Close(s) PROVE SeenInv'
  BY <1>1, <1>9 DEF BeginAppend, Close, directory, history
<1>10. CASE UNCHANGED vars
  BY <1>1, <1>10 DEF vars, directory, services, history
<1> QED
  BY <1>2, <1>3, <1>5, <1>6, <1>7, <1>8, <1>9, <1>10 DEF Next, Step

\* For any services and bounds, an update replaces the checkpoint that was read.
THEOREM UpdatesLoseNothing == Spec => NoLostUpdate
<1>1. Init => SeenInv
  BY DEF Init, SeenInv
<1>2. TypeOK /\ SeenInv /\ [Next]_vars => SeenInv'
  BY NextSeen
<1>3. TypeOK /\ SeenInv /\ [Next]_vars
        => [\A s \in Services : UpdateCheckpoint(s) => since[s] # "replaced"]_vars
  BY TypeParts DEF SeenInv, UpdateCheckpoint, Calls, Revision, NoCheckpoint
<1> QED BY <1>1, <1>2, <1>3, TypeCorrect, PTL DEF Spec, NoLostUpdate

-----------------------------------------------------------------------------
(* The lock. *)

\* While no user of the session is disturbed, the lock file has at most one owner
\* and only the owner has the session in memory.
LockInv ==
  ~astray =>
    /\ \A s \in Services : held[s] # 0 =>
         held[s] = lockFile /\ \A t \in Services \ {s} : held[t] = 0
    /\ \A s \in Services : Cached(s) => held[s] # 0
    /\ \A s \in Services : append[s] # "none" => append[s] = "found" /\ Cached(s)
    /\ \A s \in Services : Cached(s) /\ Readable /\ ~torn => cache[s] = lines

\* Taking the lock leaves one owner.
LEMMA FlockOwner ==
  ASSUME Calls, ~astray, LockInv, NEW s \in Services, Flock(s)
  PROVE  /\ held'[s] # 0 /\ held'[s] = lockFile'
         /\ \A t \in Services \ {s} : held[t] = 0 /\ held'[t] = 0
<1>1. CASE held[s] # 0
  BY <1>1 DEF Flock, LockInv, Calls
<1>2. CASE held[s] = 0
  <2>1. lockFile' # 0 /\ held' = [held EXCEPT ![s] = lockFile']
    BY <1>2 DEF Flock, Calls
  <2>2. \A t \in Services \ {s} : held[t] = 0
    BY <1>2 DEF Flock, LockInv, Calls
  <2> QED BY <2>1, <2>2 DEF Calls
<1> QED BY <1>1, <1>2

\* A step that at most takes the lock, and then leaves the session alone.
LEMMA LockOnlyKeeps ==
  ASSUME TypeOK, LockInv, NEW s \in Services,
         Flock(s) \/ UNCHANGED <<held, lockFile>>,
         UNCHANGED <<cache, append, lines, torn, astray>>
  PROVE  LockInv'
<1> SUFFICES ASSUME ~astray PROVE LockInv'
  BY DEF LockInv
<1>1. CASE Flock(s)
  BY <1>1, FlockOwner, TypeParts DEF LockInv, Cached, Readable
<1>2. CASE UNCHANGED <<held, lockFile>>
  BY <1>2 DEF LockInv, Cached, Readable
<1> QED BY <1>1, <1>2

\* Every step keeps the lock with the service that has the session in memory.
LEMMA NextLock ==
  ASSUME TypeOK, LockInv, [Next]_vars
  PROVE  LockInv'
<1> SUFFICES ASSUME ~astray' PROVE LockInv'
  BY DEF LockInv
<1> USE TypeParts DEF Cached
<1>1. ASSUME NEW s \in Services, Create(s) PROVE LockInv'
  <2>1. ~astray /\ append[s] = "none"
    BY <1>1 DEF Create
  <2>2. /\ held'[s] # 0 /\ held'[s] = lockFile'
        /\ \A t \in Services \ {s} : held[t] = 0 /\ held'[t] = 0
    BY <1>1, <2>1, FlockOwner DEF Create
  <2>3. cache' = [cache EXCEPT ![s] = <<>>] /\ lines' = <<>> /\ append' = append
    BY <1>1, <2>1 DEF Create, Detach, Calls
  <2> QED BY <2>1, <2>2, <2>3 DEF LockInv, Logs
<1>2. ASSUME NEW s \in Services, LocksOnly(s) PROVE LockInv'
  BY <1>2, LockOnlyKeeps DEF LocksOnly, Lock, logfile
<1>3. ASSUME NEW s \in Services, Load(s) PROVE LockInv'
  <2>1. ~astray
    BY <1>3 DEF Load
  <2>2. /\ held'[s] # 0 /\ held'[s] = lockFile'
        /\ \A t \in Services \ {s} : held[t] = 0 /\ held'[t] = 0
    BY <1>3, <2>1, FlockOwner DEF Load, Lock
  <2>3. cache' = [cache EXCEPT ![s] = lines] /\ UNCHANGED <<lines, torn, append>>
    BY <1>3 DEF Load, logfile
  <2>4. \A t \in Services \ {s} : ~Cached(t)
    BY <2>1, <2>2 DEF LockInv
  <2>5. lines # Uncached
    BY <1>3 DEF Load, Readable, Uncached, Range
  <2> QED BY <2>1, <2>2, <2>3, <2>4, <2>5 DEF LockInv, Logs
<1>4. ASSUME NEW s \in Services, BeginAppend(s) PROVE LockInv'
  BY <1>4 DEF BeginAppend, directory, history, LockInv, Calls, Readable
<1>5. ASSUME NEW s \in Services, NEW l \in {Garbled, written'}, lines' = Behind(l),
             Write(s) \/ WriteShort(s)
      PROVE  LockInv'
  <2>1. ~astray /\ append[s] # "none" /\ UNCHANGED <<held, lockFile>>
    BY <1>5 DEF Write, WriteShort, locking
  <2>2. Cached(s) /\ held[s] # 0
    BY <2>1 DEF LockInv
  <2>3. \A t \in Services \ {s} : held[t] = 0 /\ ~Cached(t)
    BY <2>1, <2>2 DEF LockInv
  <2>4. append' = [append EXCEPT ![s] = "none"]
    BY <1>5 DEF Write, WriteShort
  <2>5. cache' = cache \/ cache' = [cache EXCEPT ![s] = Append(@, written')]
    BY <1>5 DEF Write, WriteShort
  <2>6. written' \in Line /\ l \in Line
    BY <1>5, FileStoreAssumption DEF FileStoreAssumption, Write, WriteShort, Line, Garbled, Logs
  <2>7. ASSUME Readable', ~torn' PROVE cache'[s] = lines'
    <3>1. Write(s) /\ append[s] = "found"
      BY <1>5, <2>1, <2>7 DEF WriteShort, LockInv
    <3>2. l # Garbled /\ ~torn /\ Readable /\ lines' = Append(lines, l)
      BY <1>5, <2>6, <2>7, BehindReadable DEF Readable
    <3>3. cache[s] = lines
      BY <2>1, <2>2, <3>2 DEF LockInv
    <3> QED BY <1>5, <3>1, <3>2, <3>3 DEF Write, Logs
  <2> QED BY <2>1, <2>2, <2>3, <2>4, <2>5, <2>7 DEF LockInv, Calls, Logs
<1>6. ASSUME NEW s \in Services, WriteFails(s) PROVE LockInv'
  BY <1>6 DEF WriteFails, locking, LockInv, Calls, Readable
<1>7. ASSUME NEW s \in Services, ReadCheckpoint(s) \/ ClearCheckpoint(s) PROVE LockInv'
  BY <1>7, LockOnlyKeeps DEF ReadCheckpoint, ClearCheckpoint, Require, Lock, logfile
<1>8. ASSUME NEW s \in Services, SaveCheckpoint(s) \/ UpdateCheckpoint(s) PROVE LockInv'
  BY <1>8, LockOnlyKeeps DEF SaveCheckpoint, UpdateCheckpoint, Put, Require, Lock, logfile
<1>9. ASSUME NEW s \in Services, Delete(s) PROVE LockInv'
  <2>1. ~OthersUse(s) /\ append[s] = "none"
    BY <1>9 DEF Delete
  <2>2. \A t \in Services : held'[t] = 0 /\ ~Cached(t)' /\ append'[t] = "none"
    BY <1>9, <2>1 DEF Delete, OthersUse, Detach, Calls, Logs
  <2> QED BY <2>2 DEF LockInv
<1>10. ASSUME NEW s \in Services, Close(s) PROVE LockInv'
  BY <1>10 DEF Close, directory, LockInv, Calls, Readable
<1>11. ASSUME NEW s \in Services, Crash(s) PROVE LockInv'
  BY <1>11 DEF Crash, directory, LockInv, Calls, Logs, Readable
<1>12. CASE UNCHANGED vars
  BY <1>12 DEF vars, directory, services, history, LockInv, Readable
<1>13. ASSUME NEW s \in Services, Write(s) PROVE LockInv'
  <2>1. PICK l \in {Garbled, written'} : lines' = Behind(l)
    BY <1>13 DEF Write
  <2> QED BY <1>5, <1>13, <2>1
<1>14. ASSUME NEW s \in Services, WriteShort(s) PROVE LockInv'
  <2>1. PICK l \in {Garbled, written'} : lines' = Behind(l)
    BY <1>14 DEF WriteShort
  <2> QED BY <1>5, <1>14, <2>1
<1> QED
  BY <1>1, <1>2, <1>3, <1>4, <1>6, <1>7, <1>8, <1>9, <1>10, <1>11, <1>12, <1>13, <1>14
  DEF Next, Step

\* For any services and bounds, while no user of the session is disturbed, the
\* service that has it in memory owns the lock, alone, and sees the whole log.
THEOREM OwnerIsAlone == Spec => []OwnerSeesLog
<1>1. Init => LockInv
  BY DEF Init, LockInv, Cached
<1>2. TypeOK /\ LockInv /\ [Next]_vars => LockInv'
  BY NextLock
<1>3. TypeOK /\ LockInv => OwnerSeesLog
  BY TypeParts DEF LockInv, OwnerSeesLog, Calls
<1> QED BY <1>1, <1>2, <1>3, TypeCorrect, PTL DEF Spec
=============================================================================
