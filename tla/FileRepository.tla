---------------------------- MODULE FileRepository ----------------------------
(***************************************************************************)
(* The append-only file backend of rustic-storage: one collection's log    *)
(* file, the FileRepository that serves it, and the crashes and I/O errors *)
(* that can cut an append short.                                           *)
(*                                                                         *)
(* An offset is the position of a record in `log`; 0 stands for a key that *)
(* is not in offsetm.  A record is `whole` once its header and its payload *)
(* are both in the file.  Until then the file ends in a fragment that no   *)
(* read accepts: it is short, or what follows it is read as its payload    *)
(* and the CRC disagrees.                                                  *)
(***************************************************************************)
EXTENDS Naturals, Sequences

CONSTANTS Keys,     \* ids of the models
          Vals,     \* their contents
          Absent,   \* the answer for a key that is not there
          MaxLog    \* bound: appends started in one behaviour

ASSUME AbsentAssumption == Absent \notin Vals
ASSUME MaxLogAssumption == MaxLog \in Nat

VARIABLES log,      \* the .bin file
          offsetm,  \* FileRepository.offsetm
          phase,    \* what the repository's owner is doing
          pos       \* the offset `initialize` reads next

vars == <<log, offsetm, phase, pos>>

ACTIVE  == "active"       \* RECORD_TYPE_ACTIVE
DELETED == "deleted"      \* RECORD_TYPE_DELETED

Records == [type : {ACTIVE, DELETED}, key : Keys, val : Vals \cup {Absent},
            whole : BOOLEAN]

Phases == {"closed", "replaying", "ready", "writing", "written"}

NoOffsets == [k \in Keys |-> 0]

Init == /\ log = <<>>
        /\ offsetm = NoOffsets
        /\ phase = "closed"
        /\ pos = 1

-----------------------------------------------------------------------------
(* Opening: FileRepository::new, then initialize.                          *)

\* new() opens the file in append mode with an empty map; initialize seeks to 0.
OpenRepository == /\ phase = "closed"
                  /\ phase' = "replaying"
                  /\ offsetm' = NoOffsets
                  /\ pos' = 1
                  /\ UNCHANGED log

\* read_record succeeds exactly on a whole record.
CanRead(i) == i \in DOMAIN log /\ log[i].whole

\* Mutant of ReplayRecord: tombstones are not replayed.
ReplayWithoutTombstones ==
    /\ phase = "replaying"
    /\ CanRead(pos)
    /\ offsetm' = [offsetm EXCEPT ![log[pos].key] =
                     IF log[pos].type = ACTIVE THEN pos ELSE @]
    /\ pos' = pos + 1
    /\ UNCHANGED <<log, phase>>

ReplayRecord == /\ phase = "replaying"
                /\ CanRead(pos)
                /\ offsetm' = [offsetm EXCEPT ![log[pos].key] =
                                 IF log[pos].type = ACTIVE THEN pos ELSE 0]
                /\ pos' = pos + 1
                /\ UNCHANGED <<log, phase>>

\* Any read error ends the replay.
ReplayEnd == /\ phase = "replaying"
             /\ ~CanRead(pos)
             /\ phase' = "ready"
             /\ UNCHANGED <<log, offsetm, pos>>

-----------------------------------------------------------------------------
(* Writing.  write_active_record seeks to the end and issues one write per *)
(* header field and one for the payload: BeginAppend is the first of them, *)
(* FinishAppend the last.                                                  *)

BeginAppend(type, k, v) ==
    /\ phase = "ready"
    /\ Len(log) < MaxLog
    /\ log' = Append(log, [type |-> type, key |-> k, val |-> v, whole |-> FALSE])
    /\ phase' = "writing"
    /\ UNCHANGED <<offsetm, pos>>

Insert(k, v) == BeginAppend(ACTIVE, k, v)      \* update() has the same body
Delete(k)    == BeginAppend(DELETED, k, Absent)

FinishAppend == /\ phase = "writing"
                /\ log' = [log EXCEPT ![Len(log)].whole = TRUE]
                /\ phase' = "written"
                /\ UNCHANGED <<offsetm, pos>>

\* Mutant of FailAppend: delete() ignores the error of its write.
FailedDeleteForgets ==
    LET r == log[Len(log)] IN
    /\ phase = "writing"
    /\ phase' = "ready"
    /\ offsetm' = IF r.type = DELETED THEN [offsetm EXCEPT ![r.key] = 0] ELSE offsetm
    /\ UNCHANGED <<log, pos>>

\* A write_all returned an error: `?` leaves offsetm alone and what reached the
\* file stays there.
FailAppend == /\ phase = "writing"
              /\ phase' = "ready"
              /\ UNCHANGED <<log, offsetm, pos>>

\* Mutant of UpdateOffset: delete() ends like insert().
TombstoneOffset ==
    /\ phase = "written"
    /\ offsetm' = [offsetm EXCEPT ![log[Len(log)].key] = Len(log)]
    /\ phase' = "ready"
    /\ UNCHANGED <<log, pos>>

\* The rest of insert, update and delete: the map, then Ok(()).
UpdateOffset ==
    LET r == log[Len(log)] IN
    /\ phase = "written"
    /\ offsetm' = [offsetm EXCEPT ![r.key] =
                     IF r.type = ACTIVE THEN Len(log) ELSE 0]
    /\ phase' = "ready"
    /\ UNCHANGED <<log, pos>>

\* The process dies; the file keeps the bytes written so far.
Crash == /\ phase # "closed"
         /\ phase' = "closed"
         /\ offsetm' = NoOffsets
         /\ pos' = 1
         /\ UNCHANGED log

Next == \/ OpenRepository
        \/ ReplayRecord
        \/ ReplayEnd
        \/ \E k \in Keys, v \in Vals : Insert(k, v)
        \/ \E k \in Keys : Delete(k)
        \/ FinishAppend
        \/ FailAppend
        \/ UpdateOffset
        \/ Crash

Spec == Init /\ [][Next]_vars

-----------------------------------------------------------------------------
(* Reads.                                                                  *)

\* find_by_id: what the repository answers for k.
FindById(k) == IF offsetm[k] = 0 THEN Absent ELSE log[offsetm[k]].val

View == [k \in Keys |-> FindById(k)]

\* The records a replay of the whole file reaches: those before the first
\* fragment.
Reachable == {i \in DOMAIN log : \A j \in 1..i : log[j].whole}

LastIn(S, k, i) == /\ i \in S
                   /\ log[i].key = k
                   /\ \A j \in S : log[j].key = k => j <= i

\* What the next process will answer: the value of the last reachable record
\* of each key.
Recoverable ==
    [k \in Keys |-> IF \E i \in Reachable : LastIn(Reachable, k, i)
                    THEN log[CHOOSE i \in Reachable : LastIn(Reachable, k, i)].val
                    ELSE Absent]

\* A fragment other than the one being written.
Torn(i) == /\ i \in DOMAIN log
           /\ ~log[i].whole
           /\ ~(phase = "writing" /\ i = Len(log))

-----------------------------------------------------------------------------
(* Properties.                                                             *)

\* Every variable has its type; an offset lies inside the file.
TypeOK == /\ log \in Seq(Records)
          /\ Len(log) <= MaxLog
          /\ offsetm \in [Keys -> 0..Len(log)]
          /\ phase \in Phases
          /\ pos \in 1..(Len(log) + 1)

\* An offset in the map is that of a complete ACTIVE record of its key, so
\* find_by_id never fails to read and find_all, which drops the records it
\* cannot read, never drops one.
OffsetsSound == \A k \in Keys : offsetm[k] # 0 =>
                   /\ log[offsetm[k]].whole
                   /\ log[offsetm[k]].type = ACTIVE
                   /\ log[offsetm[k]].key = k

\* What a restart would lose or bring back is only what was written behind a
\* fragment: for a key with no record there, the open repository and the next
\* process agree.
LossOnlyBehindTear ==
    phase = "ready" =>
        \A k \in Keys : View[k] # Recoverable[k] =>
            \E i, j \in DOMAIN log : i < j /\ Torn(i) /\ log[j].whole /\ log[j].key = k

\* The claim of the module's documentation ("crash-safe"): what an open
\* repository answers is what a process started after a crash would answer.
CrashSafe == phase = "ready" => View = Recoverable

\* The repository implements the store of KVStore.tla.  A record is put when its
\* last byte is written, before the offset map follows.
LiveView == CASE phase \in {"closed", "replaying"} -> [k \in {} |-> Absent]
              [] phase \in {"ready", "writing"}    -> View
              [] phase = "written" -> [View EXCEPT ![log[Len(log)].key] =
                                                     log[Len(log)].val]

Store == INSTANCE KVStore WITH live    <- LiveView,
                               disk    <- Recoverable,
                               tainted <- \E i \in DOMAIN log : Torn(i)

ImplementsStore == Store!Spec
=============================================================================
