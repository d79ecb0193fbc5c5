---------------------------- MODULE FileDatabase ----------------------------
(***************************************************************************)
(* FileDatabase of rustic-storage: the manifest of the collections, their  *)
(* directories, and the repositories handed out for them.                  *)
(*                                                                         *)
(* Registering takes the database for itself, but the repositories that    *)
(* were handed out before are used meanwhile: each has a lock of its own,  *)
(* an offset map of its own, and appends to the one log of its collection. *)
(*                                                                         *)
(* An append seeks to the end of the log to learn its offset, and then     *)
(* writes the header field by field and the payload.  The log is opened    *)
(* for appending, so that every write goes to the end of that moment:      *)
(* appends through two repositories fall in between each other.  A record  *)
(* is written in three pieces here: its mark (magic and version, the same  *)
(* in every record), its kind, and its body (length, checksum, payload).   *)
(* What other interleavings of the fields can be read is one of these.     *)
(* Writes that fail are the business of FileRepository.                    *)
(***************************************************************************)
EXTENDS Integers, SequencesExt

CONSTANTS Names, Keys, None,
          MaxLog,        \* no append begins when the logs hold so many pieces
          MaxHandles,    \* repositories opened between two starts
          MaxCrashes

\* An append that is under way: what it writes, where it began, how many pieces are written.
Appends == [key : Keys, live : BOOLEAN, offset : Nat, written : 0..2, crossed : BOOLEAN]

ASSUME BoundsAssumption == {MaxLog, MaxHandles, MaxCrashes} \subseteq Nat
ASSUME NoneAssumption == None \notin Appends

VARIABLES
  \* on the disk
  manifest,     \* the names it lists, {} before it is first written; Torn
  dirs,         \* collections that have a directory
  logs,         \* pieces in the log of each collection: [part, key, live]
  \* in the process
  up,
  collections,  \* the metadata
  handles,      \* every repository opened, in order: [name, map, op, alone, crossed]
  repos,        \* which of them `collection` hands out
  held,         \* those somebody has been handed
  task,         \* register_collection under way: [name, at]
  \* what has happened
  crashes,
  refused       \* collections whose directory could once not be made

vars == <<manifest, dirs, logs, up, collections, handles, repos, held, task, crashes, refused>>

\* A manifest that is no JSON any more.
Torn == {None}

Idle == [name |-> None, at |-> "idle"]

-----------------------------------------------------------------------------
(* The database. *)

Init ==
  /\ manifest = {} /\ dirs = {} /\ logs = [n \in Names |-> <<>>]
  /\ up = FALSE /\ collections = {} /\ handles = <<>> /\ repos = <<>> /\ held = {}
  /\ task = Idle /\ crashes = 0 /\ refused = {}

\* A manifest that cannot be parsed fails here, again and again.
LoadFromFile ==
  /\ ~ up /\ manifest # Torn
  /\ up' = TRUE /\ collections' = manifest
  /\ UNCHANGED <<manifest, dirs, logs, handles, repos, held, task, crashes, refused>>

\* The name is in the metadata before the disk has been asked for anything.
RegisterCollection(n) ==
  /\ up /\ task = Idle /\ Len(handles) < MaxHandles
  /\ collections' = collections \cup {n}
  /\ task' = [name |-> n, at |-> IF n \in collections THEN "open" ELSE "mkdir"]
  /\ UNCHANGED <<manifest, dirs, logs, up, handles, repos, held, crashes, refused>>

\* Mutant of CreateDirAll: that it failed is not noticed.
CreateDirAllIgnored ==
  /\ task.at = "mkdir"
  /\ task' = [task EXCEPT !.at = "save"]
  /\ dirs' \in {dirs, dirs \cup {task.name}}
  /\ UNCHANGED <<manifest, logs, up, collections, handles, repos, held, crashes, refused>>

CreateDirAll ==
  /\ task.at = "mkdir"
  /\ \/ /\ dirs' = dirs \cup {task.name} /\ task' = [task EXCEPT !.at = "save"]
        /\ UNCHANGED refused
     \/ refused' = refused \cup {task.name} /\ task' = Idle /\ UNCHANGED dirs
  /\ UNCHANGED <<manifest, logs, up, collections, handles, repos, held, crashes>>

\* fs::write opens the file, empties it and fills it; each may fail.
SaveToFile ==
  /\ task.at = "save"
  /\ \/ manifest' = collections /\ task' = [task EXCEPT !.at = "open"]
     \/ manifest' \in {manifest, Torn} /\ task' = Idle
  /\ UNCHANGED <<dirs, logs, up, collections, handles, repos, held, crashes, refused>>

\* HashMap::insert.
Put(m, key, value) == [k \in DOMAIN m \cup {key} |-> IF k = key THEN value ELSE m[k]]

Forget(m, key) == Restrict(m, DOMAIN m \ {key})

\* read_record at a place in the log: header and payload follow each other, of whichever records.
Readable(log, p) ==
  /\ {p, p + 1, p + 2} \subseteq DOMAIN log
  /\ log[p].part = "mark" /\ log[p + 1].part = "kind" /\ log[p + 2].part = "body"

KeyAt(log, p) == log[p + 2].key
LiveAt(log, p) == log[p + 1].live

\* Where the i-th record is, if all before it are whole.
Place(i) == 3 * i - 2

\* How many records are read before one cannot be.
Scanned(log) ==
  Max({k \in 0..Len(log) : \A i \in 1..k : Readable(log, Place(i))})

\* Mutant of Replay: a tombstone is passed over.
ReplayActive(log) ==
  FoldLeft(LAMBDA m, p : IF LiveAt(log, p) THEN Put(m, KeyAt(log, p), p) ELSE m,
           <<>>, [i \in 1..Scanned(log) |-> Place(i)])

\* FileRepository::initialize.  Others may append to the log meanwhile: as nothing that is
\* there ever changes, it sees the log of the moment of its last read.
Replay(log) ==
  FoldLeft(LAMBDA m, p : IF LiveAt(log, p) THEN Put(m, KeyAt(log, p), p)
                         ELSE Forget(m, KeyAt(log, p)),
           <<>>, [i \in 1..Scanned(log) |-> Place(i)])

\* The repository opens the log of its collection and replays it.  Without the
\* directory it cannot be opened.
OpenRepository ==
  /\ task.at = "open"
  /\ IF task.name \in dirs
     THEN /\ handles' = Append(handles, [name |-> task.name, map |-> Replay(logs[task.name]),
                                         op |-> None, alone |-> TRUE, crossed |-> {}])
          /\ task' = [task EXCEPT !.at = "publish"]
     ELSE task' = Idle /\ UNCHANGED handles
  /\ UNCHANGED <<manifest, dirs, logs, up, collections, repos, held, crashes, refused>>

\* It takes the place of the repository registered before.
Publish ==
  /\ task.at = "publish"
  /\ repos' = Put(repos, task.name, Len(handles))
  /\ task' = Idle
  /\ UNCHANGED <<manifest, dirs, logs, up, collections, handles, held, crashes, refused>>

\* The database is asked for the collection; only a registered one is there.
Collection(n) ==
  /\ up /\ task = Idle /\ n \in DOMAIN repos
  /\ held' = held \cup {repos[n]}
  /\ UNCHANGED <<manifest, dirs, logs, up, collections, handles, repos, task, crashes, refused>>

-----------------------------------------------------------------------------
(* What is done with a repository: its lock admits one append at a time.   *)

\* write_active_record takes the end of the log for the offset of its record.
Seek(h, key, live) ==
  /\ handles[h].op = None
  /\ MapThenSumSet(LAMBDA m : Len(logs[m]), Names) < MaxLog
  /\ handles' = [handles EXCEPT ![h].op =
       [key |-> key, live |-> live, offset |-> Len(logs[handles[h].name]) + 1,
        written |-> 0, crossed |-> FALSE]]
  /\ UNCHANGED <<manifest, dirs, logs, up, collections, repos, held, task, crashes, refused>>

\* The next piece of the append of h is written at the end of the log.
PieceWritten(h) ==
  LET n == handles[h].name  op == handles[h].op IN
    logs' = [logs EXCEPT ![n] = Append(@,
      [part |-> <<"mark", "kind", "body">>[op.written + 1], key |-> op.key, live |-> op.live])]

\* h goes on as `next`.  Another repository of the collection is not alone any more, and an
\* append of its own that is under way has been crossed.
Crossed(h, next) ==
  [g \in DOMAIN handles |->
     IF g = h THEN next
     ELSE IF handles[g].name # handles[h].name THEN handles[g]
     ELSE [handles[g] EXCEPT !.alone = FALSE,
                             !.op = IF @ = None THEN None ELSE [@ EXCEPT !.crossed = TRUE]]]

Write(h) ==
  /\ handles[h].op # None /\ handles[h].op.written < 2
  /\ PieceWritten(h)
  /\ handles' = Crossed(h, [handles[h] EXCEPT !.op.written = @ + 1])
  /\ UNCHANGED <<manifest, dirs, up, collections, repos, held, task, crashes, refused>>

Written(h) == handles[h].op # None /\ handles[h].op.written = 2

\* Mutant of Insert: the offset is that of the end when the record has been written.
InsertBehind(h) ==
  LET op == handles[h].op IN
    /\ Written(h) /\ op.live
    /\ PieceWritten(h)
    /\ handles' = Crossed(h, [handles[h] EXCEPT
         !.map = Put(@, op.key, Len(logs[handles[h].name]) + 2), !.op = None,
         !.crossed = IF op.crossed THEN @ \cup {op.key} ELSE @ \ {op.key}])
    /\ UNCHANGED <<manifest, dirs, up, collections, repos, held, task, crashes, refused>>

\* The last piece, and what insert does then; update has the same body.
Insert(h) ==
  LET op == handles[h].op IN
    /\ Written(h) /\ op.live
    /\ PieceWritten(h)
    /\ handles' = Crossed(h, [handles[h] EXCEPT
         !.map = Put(@, op.key, op.offset), !.op = None,
         !.crossed = IF op.crossed THEN @ \cup {op.key} ELSE @ \ {op.key}])
    /\ UNCHANGED <<manifest, dirs, up, collections, repos, held, task, crashes, refused>>

Delete(h) ==
  LET op == handles[h].op IN
    /\ Written(h) /\ ~ op.live
    /\ PieceWritten(h)
    /\ handles' = Crossed(h, [handles[h] EXCEPT !.map = Forget(@, op.key), !.op = None])
    /\ UNCHANGED <<manifest, dirs, up, collections, repos, held, task, crashes, refused>>

\* The process dies, in the middle of writing the manifest, a record or anywhere else.
Crash ==
  /\ up /\ crashes < MaxCrashes
  /\ crashes' = crashes + 1
  /\ \/ UNCHANGED manifest
     \/ task.at = "save" /\ manifest' = Torn
  /\ up' = FALSE /\ collections' = {} /\ handles' = <<>> /\ repos' = <<>> /\ held' = {}
  /\ task' = Idle
  /\ UNCHANGED <<dirs, logs, refused>>

Next ==
  \/ LoadFromFile
  \/ \E n \in Names : RegisterCollection(n)
  \/ CreateDirAll
  \/ SaveToFile
  \/ OpenRepository
  \/ Publish
  \/ \E n \in Names : Collection(n)
  \/ \E h \in held, key \in Keys, live \in BOOLEAN : Seek(h, key, live)
  \/ \E h \in held : Write(h)
  \/ \E h \in held : Insert(h)
  \/ \E h \in held : Delete(h)
  \/ Crash

Spec == Init /\ [][Next]_vars

-----------------------------------------------------------------------------
(* Properties. *)

ReadsAs(log, p, key) == Readable(log, p) /\ KeyAt(log, p) = key /\ LiveAt(log, p)

(***************************************************************************)
(* A repository that has been replaced by a later registration stays safe  *)
(* to read: whatever the others append to the log, each of its offsets     *)
(* reads as a record of the key, and not as a tombstone or as garbage.  It *)
(* may be an old record.  The exception is a record into the append of     *)
(* which another repository of the collection has written: between the     *)
(* seek that gave its offset and its last byte.                            *)
(***************************************************************************)
OffsetsLive ==
  \A h \in DOMAIN handles : \A key \in DOMAIN handles[h].map \ handles[h].crossed :
    ReadsAs(logs[handles[h].name], handles[h].map[key], key)

\* The log is records from end to end, but for what h itself has written of its next one.
WholeFor(h) ==
  LET op == handles[h].op  log == logs[handles[h].name] IN
    Len(log) = 3 * Scanned(log) + (IF op = None THEN 0 ELSE op.written)

(***************************************************************************)
(* A repository knows what its collection holds, exactly, for as long as   *)
(* no other repository of the collection has written since its log was     *)
(* read: also if that was while the registration was going on.  The        *)
(* exception is a log with a torn record, or half of another repository's: *)
(* what is written behind it is known now and lost at the next start.      *)
(***************************************************************************)
AloneAgrees ==
  \A h \in DOMAIN handles : handles[h].alone /\ WholeFor(h) =>
    LET log == logs[handles[h].name]
        places == {Place(i) : i \in 1..Scanned(log)}
        Newest(p) == \A q \in places : KeyAt(log, q) = KeyAt(log, p) => q <= p
    IN  {<<key, handles[h].map[key]>> : key \in DOMAIN handles[h].map}
          = {<<KeyAt(log, p), p>> : p \in {q \in places : LiveAt(log, q) /\ Newest(q)}}

(***************************************************************************)
(* Whenever the process stops, a collection the manifest lists has its     *)
(* directory: otherwise it could never be opened again, as only a          *)
(* collection that is not listed has its directory made.  The exception is *)
(* one whose directory could not be made once: the next registration of    *)
(* another collection lists it.                                            *)
(***************************************************************************)
ListedHasDir == manifest # Torn => manifest \subseteq dirs \cup refused
=============================================================================
