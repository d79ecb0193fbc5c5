------------------------- MODULE FileRepositoryProofs -------------------------
(***************************************************************************)
(* Theorems about the append-only file backend, for every set of keys and  *)
(* values and every length of the log: its offset map is always sound, a   *)
(* replay rebuilds the map the log describes, and the repository           *)
(* implements the store of KVStore.tla.                                    *)
(***************************************************************************)
EXTENDS FileRepository, TLAPS

\* The record being written is the last one, incomplete until its last write.
InFlight == /\ phase = "writing" => Len(log) > 0 /\ ~log[Len(log)].whole
            /\ phase = "written" => Len(log) > 0 /\ log[Len(log)].whole

\* A tombstone carries no value, an active record does.
ValueOfType == \A i \in DOMAIN log :
                  log[i].val = Absent <=> log[i].type = DELETED

\* Half way through a replay the map describes the records read so far.
ReplayedUpTo(n) ==
    \A k \in Keys :
        IF offsetm[k] = 0
        THEN \A i \in 1..n : LastIn(1..n, k, i) => log[i].type = DELETED
        ELSE LastIn(1..n, k, offsetm[k])

ReplayInv == phase = "replaying" => /\ \A j \in 1..(pos - 1) : log[j].whole
                                    /\ ReplayedUpTo(pos - 1)

IInv == TypeOK /\ OffsetsSound /\ InFlight /\ ValueOfType /\ ReplayInv

-----------------------------------------------------------------------------

\* The file starts empty and closed.
LEMMA InitInv == Init => IInv
  BY MaxLogAssumption
     DEF Init, IInv, TypeOK, OffsetsSound, InFlight, ValueOfType, ReplayInv,
         Records, Phases, NoOffsets, ReplayedUpTo, LastIn

\* A step of the replay extends the map by one record.
LEMMA ReplayRecordInv == IInv /\ ReplayRecord => IInv'
  <1> SUFFICES ASSUME IInv, ReplayRecord PROVE IInv'
    OBVIOUS
  <1> USE DEF IInv, TypeOK, ReplayRecord, CanRead
  <1>1. pos \in 1..Len(log) /\ log[pos] \in Records
    OBVIOUS
  <1>2. TypeOK'
    BY <1>1 DEF Records, Phases
  <1>3. OffsetsSound'
    BY <1>1 DEF OffsetsSound, Records
  <1>4. InFlight' /\ ValueOfType'
    BY DEF InFlight, ValueOfType
  <1>5. \A j \in 1..pos : log[j].whole
    BY <1>1 DEF ReplayInv
  <1>6. ReplayedUpTo(pos - 1)
    BY DEF ReplayInv
  <1>7. ASSUME NEW k \in Keys
        PROVE  IF offsetm'[k] = 0
               THEN \A i \in 1..pos : LastIn(1..pos, k, i) => log[i].type = DELETED
               ELSE LastIn(1..pos, k, offsetm'[k])
    <2>1. CASE log[pos].key = k /\ log[pos].type = ACTIVE
      BY <1>1, <2>1 DEF LastIn, Records
    <2>2. CASE log[pos].key = k /\ log[pos].type # ACTIVE
      <3>1. log[pos].type = DELETED
        BY <1>1, <2>2 DEF Records
      <3>2. ASSUME NEW i \in 1..pos, LastIn(1..pos, k, i) PROVE i = pos
        BY <1>1, <2>2, <3>2 DEF LastIn
      <3>3. QED BY <1>1, <2>2, <3>1, <3>2
    <2>3. CASE log[pos].key # k
      <3>1. offsetm'[k] = offsetm[k]
        BY <1>1, <2>3 DEF Records
      <3>2. \A i \in 1..pos : LastIn(1..pos, k, i) => i \in 1..(pos - 1) /\ LastIn(1..(pos - 1), k, i)
        BY <1>1, <2>3 DEF LastIn
      <3>3. \A i \in 1..(pos - 1) : LastIn(1..(pos - 1), k, i) => LastIn(1..pos, k, i)
        BY <1>1, <2>3 DEF LastIn
      <3>4. offsetm[k] # 0 => offsetm[k] \in 1..(pos - 1)
        BY <1>6 DEF ReplayedUpTo, LastIn
      <3>5. QED BY <1>6, <3>1, <3>2, <3>3, <3>4 DEF ReplayedUpTo
    <2>4. QED BY <2>1, <2>2, <2>3
  <1>8. ReplayInv'
    <2>1. pos' - 1 = pos
      BY <1>1
    <2>2. log' = log
      OBVIOUS
    <2>3. QED BY <1>5, <1>7, <2>1, <2>2 DEF ReplayInv, ReplayedUpTo, LastIn
  <1>9. QED BY <1>2, <1>3, <1>4, <1>8

\* The start of an append adds a fragment and moves no offset.
LEMMA BeginAppendInv ==
    ASSUME NEW type \in {ACTIVE, DELETED}, NEW k \in Keys,
           NEW v \in Vals \cup {Absent}, v = Absent <=> type = DELETED,
           IInv, BeginAppend(type, k, v)
    PROVE  IInv'
  <1> USE DEF IInv, TypeOK, BeginAppend
  <1> DEFINE r == [type |-> type, key |-> k, val |-> v, whole |-> FALSE]
  <1>1. r \in Records /\ log' = Append(log, r)
    BY DEF Records
  <1>2. /\ Len(log') = Len(log) + 1
        /\ log' \in Seq(Records)
        /\ \A i \in 1..Len(log) : log'[i] = log[i]
        /\ log'[Len(log) + 1] = r
    BY <1>1
  <1> HIDE DEF r
  <1>3. TypeOK'
    BY <1>2, MaxLogAssumption DEF Phases
  <1>4. OffsetsSound'
    BY <1>2 DEF OffsetsSound
  <1>5. InFlight'
    BY <1>2 DEF InFlight, r
  <1>6. ValueOfType'
    BY <1>2 DEF ValueOfType, r
  <1>7. ReplayInv'
    BY DEF ReplayInv
  <1>8. QED BY <1>3, <1>4, <1>5, <1>6, <1>7

\* The last write completes the fragment at the end, which no offset names.
LEMMA FinishAppendInv == IInv /\ FinishAppend => IInv'
  <1> SUFFICES ASSUME IInv, FinishAppend PROVE IInv'
    OBVIOUS
  <1> USE DEF IInv, TypeOK, FinishAppend
  <1>1. Len(log) \in 1..Len(log) /\ log[Len(log)] \in Records
    BY DEF InFlight
  <1> DEFINE r == [log[Len(log)] EXCEPT !.whole = TRUE]
  <1>a. log' = [log EXCEPT ![Len(log)] = r]
    BY <1>1
  <1>b. /\ r \in Records
        /\ r.type = log[Len(log)].type /\ r.key = log[Len(log)].key
        /\ r.val = log[Len(log)].val /\ r.whole
    BY <1>1 DEF Records
  <1> HIDE DEF r, FinishAppend
  <1>2. /\ Len(log') = Len(log)
        /\ log' \in Seq(Records)
        /\ \A i \in 1..Len(log) : /\ log'[i].type = log[i].type
                                  /\ log'[i].key = log[i].key
                                  /\ log'[i].val = log[i].val
                                  /\ i # Len(log) => log'[i] = log[i]
        /\ log'[Len(log)].whole
    BY <1>1, <1>a, <1>b
  <1> USE DEF FinishAppend
  <1>3. TypeOK'
    BY <1>2 DEF Phases
  <1>4. OffsetsSound'
    BY <1>1, <1>2 DEF OffsetsSound, InFlight
  <1>5. InFlight'
    BY <1>1, <1>2 DEF InFlight
  <1>6. ValueOfType'
    BY <1>2 DEF ValueOfType
  <1>7. QED BY <1>3, <1>4, <1>5, <1>6 DEF ReplayInv

\* The map follows the record just completed.
LEMMA UpdateOffsetInv == IInv /\ UpdateOffset => IInv'
  <1> SUFFICES ASSUME IInv, UpdateOffset PROVE IInv'
    OBVIOUS
  <1> USE DEF IInv, TypeOK, UpdateOffset
  <1>1. Len(log) \in 1..Len(log) /\ log[Len(log)] \in Records /\ log[Len(log)].whole
    BY DEF InFlight
  <1>2. TypeOK' /\ OffsetsSound'
    BY <1>1 DEF Records, Phases, OffsetsSound
  <1>3. QED BY <1>2 DEF InFlight, ValueOfType, ReplayInv

\* The remaining actions leave the log alone.
LEMMA OtherInv ==
    IInv /\ (OpenRepository \/ ReplayEnd \/ FailAppend \/ Crash \/ UNCHANGED vars) => IInv'
  <1> SUFFICES ASSUME IInv, OpenRepository \/ ReplayEnd \/ FailAppend \/ Crash \/ UNCHANGED vars
               PROVE  IInv'
    OBVIOUS
  <1> USE DEF IInv, TypeOK, OffsetsSound, InFlight, ValueOfType, ReplayInv, Phases, NoOffsets
  <1>1. CASE OpenRepository
    BY <1>1 DEF OpenRepository, ReplayedUpTo, LastIn
  <1>2. CASE ReplayEnd
    BY <1>2 DEF ReplayEnd
  <1>3. CASE FailAppend
    BY <1>3 DEF FailAppend
  <1>4. CASE Crash
    BY <1>4 DEF Crash
  <1>5. CASE UNCHANGED vars
    BY <1>5 DEF vars, ReplayedUpTo, LastIn
  <1>6. QED BY <1>1, <1>2, <1>3, <1>4, <1>5

LEMMA NextInv == IInv /\ [Next]_vars => IInv'
  <1> SUFFICES ASSUME IInv, [Next]_vars PROVE IInv'
    OBVIOUS
  <1>1. ASSUME NEW k \in Keys, NEW v \in Vals, Insert(k, v) PROVE IInv'
    BY <1>1, BeginAppendInv, AbsentAssumption DEF Insert, ACTIVE, DELETED
  <1>2. ASSUME NEW k \in Keys, Delete(k) PROVE IInv'
    BY <1>2, BeginAppendInv DEF Delete, ACTIVE, DELETED
  <1>3. QED
    BY <1>1, <1>2, ReplayRecordInv, FinishAppendInv, UpdateOffsetInv, OtherInv DEF Next

\* Type correctness and soundness of the offset map hold in every reachable state.
THEOREM Invariance == Spec => []IInv
  BY InitInv, NextInv, PTL DEF Spec

\* The variables keep their types: no offset ever points past the end of the file.
THEOREM TypeCorrect == Spec => []TypeOK
  <1>1. IInv => TypeOK
    BY DEF IInv
  <1>2. QED BY <1>1, Invariance, PTL

\* Whatever is torn, crashed or replayed, every offset is that of a complete
\* active record of its key: reads through the map cannot fail.
THEOREM MapSound == Spec => []OffsetsSound
  <1>1. IInv => OffsetsSound
    BY DEF IInv
  <1>2. QED BY <1>1, Invariance, PTL

-----------------------------------------------------------------------------
(***************************************************************************)
(* What the next process will answer.  Recoverable picks, for each key,    *)
(* the last record before the first fragment.                              *)
(***************************************************************************)

\* A key has at most one last record.
LEMMA LastIsUnique ==
    ASSUME log \in Seq(Records), NEW k, NEW i, NEW j,
           LastIn(Reachable, k, i), LastIn(Reachable, k, j)
    PROVE  i = j
  BY DEF LastIn, Reachable

\* Recoverable is the value of the last reachable record.
LEMMA RecoverableIs ==
    ASSUME log \in Seq(Records), NEW k \in Keys, NEW i, LastIn(Reachable, k, i)
    PROVE  Recoverable[k] = log[i].val
  <1>1. i \in Reachable
    BY DEF LastIn
  <1>2. (CHOOSE j \in Reachable : LastIn(Reachable, k, j)) = i
    BY <1>1, LastIsUnique
  <1>3. QED BY <1>1, <1>2 DEF Recoverable

\* A step that changes neither the reachable records nor what they say keeps it.
LEMMA RecoverableKept ==
    ASSUME Reachable' = Reachable,
           \A i \in Reachable : log'[i].key = log[i].key /\ log'[i].val = log[i].val
    PROVE  Recoverable' = Recoverable
  <1>1. ASSUME NEW k \in Keys, NEW i \in Reachable
        PROVE  LastIn(Reachable, k, i)' <=> LastIn(Reachable, k, i)
    BY DEF LastIn
  <1>2. ASSUME NEW k \in Keys
        PROVE  (IF \E i \in Reachable' : LastIn(Reachable, k, i)'
                THEN log'[CHOOSE i \in Reachable' : LastIn(Reachable, k, i)'].val
                ELSE Absent)
             = (IF \E i \in Reachable : LastIn(Reachable, k, i)
                THEN log[CHOOSE i \in Reachable : LastIn(Reachable, k, i)].val
                ELSE Absent)
    <2>1. (CHOOSE i \in Reachable' : LastIn(Reachable, k, i)')
          = (CHOOSE i \in Reachable : LastIn(Reachable, k, i))
      BY <1>1
    <2>2. ASSUME NEW i \in Reachable, LastIn(Reachable, k, i)
          PROVE  (CHOOSE j \in Reachable : LastIn(Reachable, k, j)) \in Reachable
      BY <2>2
    <2>3. QED BY <1>1, <2>1, <2>2
  <1>3. QED BY <1>2 DEF Recoverable

\* The replay stops at the first fragment with the map of what is before it.
LEMMA ReplayEndView ==
    ASSUME IInv, ReplayEnd PROVE View = Recoverable
  <1> USE DEF IInv, TypeOK
  <1>1. Reachable = 1..(pos - 1)
    BY DEF ReplayEnd, ReplayInv, Reachable, CanRead
  <1>2. ASSUME NEW k \in Keys PROVE FindById(k) = Recoverable[k]
    <2>1. CASE offsetm[k] # 0
      <3>1. LastIn(Reachable, k, offsetm[k])
        BY <1>1, <2>1 DEF ReplayEnd, ReplayInv, ReplayedUpTo
      <3>2. QED BY <2>1, <3>1, RecoverableIs DEF FindById
    <2>2. CASE offsetm[k] = 0
      <3>1. \A i \in Reachable : LastIn(Reachable, k, i) => log[i].type = DELETED
        BY <1>1, <2>2 DEF ReplayEnd, ReplayInv, ReplayedUpTo
      <3>2. CASE \E i \in Reachable : LastIn(Reachable, k, i)
        <4>1. PICK i \in Reachable : LastIn(Reachable, k, i)
          BY <3>2
        <4>2. log[i].val = Absent
          BY <3>1, <4>1 DEF ValueOfType, Reachable
        <4>3. QED BY <2>2, <4>1, <4>2, RecoverableIs DEF FindById
      <3>3. CASE ~ \E i \in Reachable : LastIn(Reachable, k, i)
        BY <2>2, <3>3 DEF FindById, Recoverable
      <3>4. QED BY <3>2, <3>3
    <2>3. QED BY <2>1, <2>2
  <1>3. QED BY <1>2 DEF View, Recoverable

Tainted == \E i \in DOMAIN log : Torn(i)

\* A completed record is recoverable exactly when no fragment precedes it.
LEMMA FinishAppendRecoverable ==
    ASSUME IInv, FinishAppend
    PROVE  Recoverable' = IF Tainted THEN Recoverable
                          ELSE [Recoverable EXCEPT ![log[Len(log)].key] = log[Len(log)].val]
  <1> USE DEF IInv, TypeOK
  <1> DEFINE n == Len(log)
  <1>1. /\ n \in 1..Len(log) /\ ~log[n].whole /\ phase = "writing" /\ log[n] \in Records
    BY DEF FinishAppend, InFlight
  <1>2. /\ log' \in Seq(Records)
        /\ Len(log') = n
        /\ \A i \in 1..n : log'[i].key = log[i].key /\ log'[i].val = log[i].val
        /\ \A i \in 1..n : i # n => log'[i] = log[i]
        /\ log'[n].whole
    <2> DEFINE r == [log[n] EXCEPT !.whole = TRUE]
    <2>1. log' = [log EXCEPT ![n] = r]
      BY <1>1 DEF FinishAppend
    <2>2. /\ r \in Records /\ r.key = log[n].key /\ r.val = log[n].val /\ r.whole
      BY <1>1 DEF Records
    <2> HIDE DEF r
    <2>3. QED BY <1>1, <2>1, <2>2
  <1>3. n \notin Reachable /\ Reachable \subseteq 1..n
    BY <1>1 DEF Reachable
  <1>4. CASE Tainted
    <2>1. PICK j \in 1..(n - 1) : ~log[j].whole
      BY <1>1, <1>4 DEF Tainted, Torn
    <2>2. Reachable' = Reachable
      BY <1>1, <1>2, <2>1 DEF Reachable
    <2>3. QED BY <1>2, <1>3, <1>4, <2>2, RecoverableKept
  <1>5. CASE ~Tainted
    <2>1. \A j \in 1..n : j # n => log[j].whole
      BY <1>1, <1>5 DEF Tainted, Torn
    <2>2. Reachable = 1..(n - 1)
      BY <1>1, <2>1 DEF Reachable
    <2>3. Reachable' = 1..n
      BY <1>1, <1>2, <2>1 DEF Reachable
    <2>4. ASSUME NEW k \in Keys
          PROVE  Recoverable'[k] = IF k = log[n].key THEN log[n].val ELSE Recoverable[k]
      <3>1. CASE k = log[n].key
        <4>1. LastIn(Reachable, k, n)'
          BY <1>1, <1>2, <2>3, <3>1 DEF LastIn
        <4>2. (CHOOSE j \in Reachable' : LastIn(Reachable, k, j)') = n
          <5>1. n \in Reachable'
            BY <1>1, <2>3
          <5>2. ASSUME NEW j \in Reachable', LastIn(Reachable, k, j)' PROVE j = n
            BY <1>1, <1>2, <2>3, <4>1, <5>2 DEF LastIn
          <5>3. QED BY <4>1, <5>1, <5>2
        <4>3. QED BY <1>1, <1>2, <2>3, <3>1, <4>1, <4>2 DEF Recoverable
      <3>2. CASE k # log[n].key
        <4>1. ASSUME NEW i \in 1..n
              PROVE  LastIn(Reachable, k, i)' <=> (i \in Reachable /\ LastIn(Reachable, k, i))
          <5>1. \A j \in 1..n : log'[j].key = k <=> j \in 1..(n - 1) /\ log[j].key = k
            BY <1>1, <1>2, <3>2
          <5>2. LastIn(Reachable, k, i)' <=> /\ log'[i].key = k
                                             /\ \A j \in 1..n : log'[j].key = k => j <= i
            BY <2>3 DEF LastIn
          <5>3. i \in Reachable /\ LastIn(Reachable, k, i)
                  <=> /\ i \in 1..(n - 1) /\ log[i].key = k
                      /\ \A j \in 1..(n - 1) : log[j].key = k => j <= i
            BY <2>2 DEF LastIn
          <5>4. n \in Nat /\ (\A j \in 1..(n - 1) : j \in 1..n)
            BY <1>1
          <5> HIDE DEF n
          <5>5. QED BY <5>1, <5>2, <5>3, <5>4
        <4>2. CASE \E i \in Reachable : LastIn(Reachable, k, i)
          <5>1. PICK i \in Reachable : LastIn(Reachable, k, i)
            BY <4>2
          <5>2. Recoverable[k] = log[i].val
            BY <5>1, RecoverableIs
          <5>3. i \in Reachable' /\ LastIn(Reachable, k, i)'
            BY <1>3, <2>3, <4>1, <5>1
          <5>4. ASSUME NEW j \in Reachable', LastIn(Reachable, k, j)' PROVE j = i
            BY <1>2, <2>3, <5>3, <5>4 DEF LastIn
          <5>5. (CHOOSE j \in Reachable' : LastIn(Reachable, k, j)') = i
            BY <5>3, <5>4
          <5>6. Recoverable'[k] = log'[i].val
            BY <5>3, <5>5 DEF Recoverable
          <5>7. QED BY <1>2, <1>3, <3>2, <5>1, <5>2, <5>6
        <4>3. CASE ~ \E i \in Reachable : LastIn(Reachable, k, i)
          <5>1. ~ \E i \in Reachable' : LastIn(Reachable, k, i)'
            BY <2>3, <4>1, <4>3
          <5>2. QED BY <3>2, <4>3, <5>1 DEF Recoverable
        <4>4. QED BY <4>2, <4>3
      <3>3. QED BY <3>1, <3>2
    <2>5. Recoverable' = [k \in Keys |-> Recoverable'[k]] /\ Recoverable = [k \in Keys |-> Recoverable[k]]
      BY DEF Recoverable
    <2>6. QED BY <1>5, <2>4, <2>5
  <1>6. QED BY <1>4, <1>5

-----------------------------------------------------------------------------
(***************************************************************************)
(* The repository implements the store: every step of the log file is an   *)
(* Open, a Put, a Tear, a Crash or no step at all of KVStore.tla.          *)
(***************************************************************************)

\* What LiveView is in each phase.
LEMMA LiveViewIs ==
    /\ phase \in {"closed", "replaying"} => LiveView = Store!Down
    /\ phase \in {"ready", "writing"} => LiveView = View
    /\ phase = "written" =>
         LiveView = [View EXCEPT ![log[Len(log)].key] = log[Len(log)].val]
  BY DEF LiveView, Store!Down

\* An open store with a key is not a closed one.
LEMMA ViewIsUp ==
    ASSUME NEW k \in Keys PROVE View # Store!Down
  <1>1. DOMAIN View = Keys /\ DOMAIN Store!Down = {}
    BY DEF View, Store!Down
  <1>2. QED BY <1>1

\* The empty file is the empty store.
LEMMA StoreInit == Init => Store!Init
  <1> SUFFICES ASSUME Init PROVE Store!Init
    OBVIOUS
  <1>1. Recoverable = [k \in Keys |-> Absent]
    BY DEF Init, Recoverable, Reachable
  <1>2. ~Tainted
    BY DEF Init, Tainted, Torn
  <1>3. LiveView = Store!Down
    BY LiveViewIs DEF Init
  <1>4. QED BY <1>1, <1>2, <1>3 DEF Store!Init, Tainted

\* A step that leaves the log alone changes neither map, except through offsetm.
LEMMA SameLog ==
    ASSUME log' = log
    PROVE  Recoverable' = Recoverable /\ Reachable' = Reachable
  BY DEF Recoverable, Reachable, LastIn

LEMMA BeginAppendStutters ==
    ASSUME NEW type \in {ACTIVE, DELETED}, NEW k \in Keys,
           NEW v \in Vals \cup {Absent}, IInv, BeginAppend(type, k, v)
    PROVE  UNCHANGED <<LiveView, Recoverable, Tainted>>
  <1> USE DEF IInv, TypeOK
  <1> DEFINE r == [type |-> type, key |-> k, val |-> v, whole |-> FALSE]
  <1>1. /\ log' = Append(log, r) /\ phase = "ready" /\ phase' = "writing"
        /\ offsetm' = offsetm /\ ~r.whole
    BY DEF BeginAppend
  <1> HIDE DEF r
  <1>2. /\ Len(log') = Len(log) + 1 /\ DOMAIN log' = 1..(Len(log) + 1)
        /\ \A i \in 1..Len(log) : log'[i] = log[i]
        /\ ~log'[Len(log) + 1].whole
    BY <1>1
  <1>3. Reachable' = Reachable
    BY <1>2 DEF Reachable
  <1>4. Recoverable' = Recoverable
    BY <1>2, <1>3, RecoverableKept DEF Reachable
  <1>5. View' = View
    BY <1>1, <1>2 DEF View, FindById
  <1>6. LiveView' = LiveView
    BY <1>1, <1>5 DEF LiveView
  <1>7. \A i : Torn(i)' <=> Torn(i)
    BY <1>1, <1>2 DEF Torn
  <1>8. Tainted' = Tainted
    BY <1>2, <1>7 DEF Tainted, Torn
  <1>9. QED BY <1>4, <1>6, <1>8

LEMMA FinishAppendPuts ==
    ASSUME IInv, FinishAppend
    PROVE  Store!Put(log[Len(log)].key, log[Len(log)].val) /\ log[Len(log)] \in Records
  <1> USE DEF IInv, TypeOK
  <1> DEFINE n == Len(log)
  <1>1. /\ n \in 1..Len(log) /\ ~log[n].whole /\ log[n] \in Records
        /\ phase = "writing" /\ phase' = "written" /\ offsetm' = offsetm
    BY DEF FinishAppend, InFlight
  <1>2. /\ Len(log') = n /\ DOMAIN log' = DOMAIN log
        /\ log'[n].key = log[n].key /\ log'[n].val = log[n].val /\ log'[n].whole
        /\ \A i \in 1..n : i # n => log'[i] = log[i]
    BY <1>1 DEF FinishAppend, Records
  <1>3. View' = View
    <2>1. ASSUME NEW k \in Keys PROVE FindById(k)' = FindById(k)
      <3>1. offsetm[k] # 0 => offsetm[k] \in 1..n /\ offsetm[k] # n
        BY <1>1 DEF OffsetsSound
      <3>2. offsetm[k] # 0 => log'[offsetm[k]] = log[offsetm[k]]
        BY <1>2, <3>1
      <3>3. QED BY <1>1, <3>2 DEF FindById
    <2>2. QED BY <2>1 DEF View
  <1>4. LiveView' = [LiveView EXCEPT ![log[n].key] = log[n].val]
    BY <1>1, <1>2, <1>3, LiveViewIs DEF LiveView
  <1>5. Tainted' = Tainted
    <2>1. ASSUME NEW i \in 1..n PROVE Torn(i)' <=> Torn(i)
      <3>1. CASE i = n
        BY <1>1, <1>2, <3>1 DEF Torn
      <3>2. CASE i # n
        <4>1. log'[i] = log[i]
          BY <1>2, <3>2
        <4>2. QED BY <1>1, <1>2, <3>2, <4>1 DEF Torn
      <3>3. QED BY <3>1, <3>2
    <2>2. DOMAIN log = 1..n
      OBVIOUS
    <2>3. QED BY <1>2, <2>1, <2>2 DEF Tainted
  <1>6. log[n].key \in Keys
    BY <1>1 DEF Records
  <1>7. LiveView # Store!Down
    BY <1>1, <1>6, LiveViewIs, ViewIsUp
  <1>8. QED BY <1>1, <1>4, <1>5, <1>7, FinishAppendRecoverable DEF Store!Put, Tainted

LEMMA UpdateOffsetStutters ==
    ASSUME IInv, UpdateOffset PROVE UNCHANGED <<LiveView, Recoverable, Tainted>>
  <1> USE DEF IInv, TypeOK
  <1> DEFINE n == Len(log)
  <1>1. /\ n \in 1..Len(log) /\ log[n].whole /\ log[n] \in Records
        /\ phase = "written" /\ phase' = "ready" /\ log' = log
    BY DEF UpdateOffset, InFlight
  <1>2. ASSUME NEW k \in Keys
        PROVE  FindById(k)' = IF k = log[n].key THEN log[n].val ELSE FindById(k)
    BY <1>1 DEF UpdateOffset, FindById, ValueOfType, Records
  <1>3. View' = [View EXCEPT ![log[n].key] = log[n].val]
    BY <1>2 DEF View
  <1>4. LiveView' = LiveView
    BY <1>1, <1>3, LiveViewIs DEF LiveView
  <1>5. Tainted' = Tainted
    BY <1>1 DEF Tainted, Torn
  <1>6. QED BY <1>1, <1>4, <1>5, SameLog

LEMMA FailAppendTears == IInv /\ FailAppend => Store!Tear
  <1> SUFFICES ASSUME IInv, FailAppend PROVE Store!Tear
    OBVIOUS
  <1> USE DEF IInv, TypeOK
  <1>1. /\ Len(log) \in 1..Len(log) /\ ~log[Len(log)].whole /\ log[Len(log)] \in Records
        /\ phase = "writing" /\ phase' = "ready" /\ log' = log /\ offsetm' = offsetm
    BY DEF FailAppend, InFlight
  <1>2. View' = View
    BY <1>1 DEF View, FindById
  <1>3. LiveView' = LiveView
    BY <1>1, <1>2 DEF LiveView
  <1>4. Tainted'
    BY <1>1 DEF Tainted, Torn
  <1>5. log[Len(log)].key \in Keys
    BY <1>1 DEF Records
  <1>6. LiveView # Store!Down
    BY <1>1, <1>5, LiveViewIs, ViewIsUp
  <1>7. QED BY <1>1, <1>3, <1>4, <1>6, SameLog DEF Store!Tear, Tainted

LEMMA CrashCrashes == IInv /\ Crash => Store!Crash
  <1> SUFFICES ASSUME IInv, Crash PROVE Store!Crash
    OBVIOUS
  <1> USE DEF IInv, TypeOK
  <1>1. phase' = "closed" /\ log' = log
    BY DEF Crash
  <1>2. LiveView' = Store!Down
    BY <1>1 DEF LiveView, Store!Down
  <1>3. CASE phase = "writing"
    <2>1. Tainted'
      BY <1>1, <1>3 DEF Tainted, Torn, InFlight
    <2>2. QED BY <1>1, <1>2, <2>1, SameLog DEF Store!Crash, Store!Down, Tainted
  <1>4. CASE phase # "writing"
    <2>1. Tainted' = Tainted
      BY <1>1, <1>4 DEF Tainted, Torn
    <2>2. QED BY <1>1, <1>2, <2>1, SameLog DEF Store!Crash, Store!Down, Tainted
  <1>5. QED BY <1>3, <1>4

LEMMA OpeningSteps ==
    ASSUME IInv
    PROVE  /\ OpenRepository \/ ReplayRecord => UNCHANGED <<LiveView, Recoverable, Tainted>>
           /\ ReplayEnd => Store!Open
  <1> USE DEF IInv, TypeOK
  <1>1. ASSUME OpenRepository \/ ReplayRecord
        PROVE  UNCHANGED <<LiveView, Recoverable, Tainted>>
    <2>1. /\ log' = log /\ phase \in {"closed", "replaying"} /\ phase' = "replaying"
      BY <1>1 DEF OpenRepository, ReplayRecord
    <2>2. QED BY <2>1, SameLog DEF LiveView, Tainted, Torn
  <1>2. ASSUME ReplayEnd PROVE Store!Open
    <2>1. /\ log' = log /\ phase = "replaying" /\ phase' = "ready" /\ offsetm' = offsetm
      BY <1>2 DEF ReplayEnd
    <2>2. View' = View
      BY <2>1 DEF View, FindById
    <2>3. LiveView' = Recoverable
      BY <1>2, <2>1, <2>2, ReplayEndView DEF LiveView
    <2>4. LiveView = Store!Down
      BY <2>1, LiveViewIs
    <2>5. QED BY <2>1, <2>3, <2>4, SameLog DEF Store!Open, Tainted, Torn
  <1>3. QED BY <1>1, <1>2

LEMMA StoreNext == IInv /\ [Next]_vars => [Store!Next]_(Store!storeVars)
  <1> SUFFICES ASSUME IInv, [Next]_vars PROVE [Store!Next]_(Store!storeVars)
    OBVIOUS
  <1>1. ASSUME UNCHANGED <<LiveView, Recoverable, Tainted>>
        PROVE  UNCHANGED Store!storeVars
    BY <1>1 DEF Store!storeVars, Tainted
  <1>2. ASSUME NEW k \in Keys, NEW v \in Vals, Insert(k, v)
        PROVE  UNCHANGED Store!storeVars
    BY <1>1, <1>2, BeginAppendStutters DEF Insert
  <1>3. ASSUME NEW k \in Keys, Delete(k) PROVE UNCHANGED Store!storeVars
    BY <1>1, <1>3, BeginAppendStutters DEF Delete
  <1>4. CASE OpenRepository \/ ReplayRecord
    BY <1>1, <1>4, OpeningSteps
  <1>5. CASE ReplayEnd
    BY <1>5, OpeningSteps DEF Store!Next
  <1>6. CASE FinishAppend
    BY <1>6, FinishAppendPuts DEF Store!Next, Records
  <1>7. CASE FailAppend
    BY <1>7, FailAppendTears DEF Store!Next
  <1>8. CASE UpdateOffset
    BY <1>1, <1>8, UpdateOffsetStutters
  <1>9. CASE Crash
    BY <1>9, CrashCrashes DEF Store!Next
  <1>10. CASE UNCHANGED vars
    <2>1. log' = log /\ phase' = phase /\ offsetm' = offsetm
      BY <1>10 DEF vars
    <2>2. View' = View
      BY <2>1 DEF View, FindById
    <2>3. QED BY <1>1, <2>1, <2>2, SameLog DEF LiveView, Tainted, Torn
  <1>11. QED
    BY <1>2, <1>3, <1>4, <1>5, <1>6, <1>7, <1>8, <1>9, <1>10 DEF Next

\* The append-only log with its offset map implements the key-value store that
\* keeps its promise of durability until the first torn append.
THEOREM Implementation == Spec => ImplementsStore
  <1>1. Spec => []IInv
    BY Invariance
  <1>2. QED BY <1>1, StoreInit, StoreNext, PTL DEF Spec, ImplementsStore, Store!Spec

-----------------------------------------------------------------------------
(***************************************************************************)
(* What a crash can lose.                                                  *)
(***************************************************************************)

BehindTear(k) == \E i, j \in DOMAIN log : i < j /\ Torn(i) /\ log[j].whole /\ log[j].key = k

\* LossOnlyBehindTear, carried through the steps of an append.
LossInv == phase \in {"ready", "writing", "written"} =>
              \A k \in Keys : LiveView[k] # Recoverable[k] => BehindTear(k)

\* A record behind a fragment stays behind it.
LEMMA BehindTearStays ==
    ASSUME IInv, NEW k \in Keys, BehindTear(k),
           DOMAIN log \subseteq DOMAIN log',
           \A i \in DOMAIN log : log[i].whole => log'[i] = log[i],
           \A i \in DOMAIN log : Torn(i) => Torn(i)'
    PROVE  BehindTear(k)'
  <1>1. PICK i \in DOMAIN log, j \in DOMAIN log :
             i < j /\ Torn(i) /\ log[j].whole /\ log[j].key = k
    BY DEF BehindTear
  <1>2. i \in DOMAIN log' /\ j \in DOMAIN log' /\ Torn(i)' /\ log'[j].whole /\ log'[j].key = k
    BY <1>1
  <1>3. QED BY <1>1, <1>2 DEF BehindTear

LEMMA LossNext == IInv /\ LossInv /\ [Next]_vars => LossInv'
  <1> SUFFICES ASSUME IInv, LossInv, [Next]_vars PROVE LossInv'
    OBVIOUS
  <1> USE DEF IInv, TypeOK
  <1>1. ASSUME UNCHANGED <<LiveView, Recoverable>>,
               phase \in {"ready", "writing", "written"},
               \A k \in Keys : BehindTear(k) => BehindTear(k)'
        PROVE  LossInv'
    BY <1>1 DEF LossInv
  <1>2. ASSUME log' = log, phase' # "writing" \/ phase = "writing", NEW k \in Keys, BehindTear(k)
        PROVE  BehindTear(k)'
    BY <1>2, BehindTearStays DEF Torn
  <1>3. ASSUME NEW type \in {ACTIVE, DELETED}, NEW k \in Keys,
               NEW v \in Vals \cup {Absent}, BeginAppend(type, k, v)
        PROVE  LossInv'
    <2> DEFINE r == [type |-> type, key |-> k, val |-> v, whole |-> FALSE]
    <2>1. phase = "ready" /\ phase' = "writing" /\ log' = Append(log, r)
      BY <1>3 DEF BeginAppend
    <2> HIDE DEF r
    <2>2. /\ DOMAIN log \subseteq DOMAIN log' /\ Len(log') = Len(log) + 1
          /\ \A i \in DOMAIN log : log'[i] = log[i]
      BY <2>1
    <2>3. \A i \in DOMAIN log : Torn(i) => Torn(i)'
      BY <2>1, <2>2 DEF Torn
    <2>4. ASSUME NEW kk \in Keys, BehindTear(kk) PROVE BehindTear(kk)'
      BY <2>2, <2>3, <2>4, BehindTearStays
    <2>5. QED BY <1>1, <1>3, <2>1, <2>4, BeginAppendStutters
  <1>4. CASE FinishAppend
    <2> DEFINE n == Len(log)
    <2>1. /\ n \in DOMAIN log /\ ~log[n].whole /\ log[n] \in Records
          /\ phase = "writing" /\ phase' = "written"
      BY <1>4 DEF FinishAppend, InFlight
    <2>2. /\ DOMAIN log' = DOMAIN log /\ Len(log') = n /\ log'[n].key = log[n].key /\ log'[n].whole
          /\ \A i \in DOMAIN log : i # n => log'[i] = log[i]
      BY <1>4, <2>1 DEF FinishAppend, Records
    <2>3. ASSUME NEW i \in DOMAIN log, Torn(i) PROVE i < n /\ Torn(i)'
      <3>1. i # n /\ i < n
        BY <2>1, <2>3 DEF Torn
      <3>2. log'[i] = log[i]
        BY <2>2, <3>1
      <3>3. QED BY <2>1, <2>2, <2>3, <3>1, <3>2 DEF Torn
    <2>4. ASSUME NEW k \in Keys, BehindTear(k) PROVE BehindTear(k)'
      BY <2>1, <2>2, <2>3, <2>4, BehindTearStays
    <2>5. LiveView' = [LiveView EXCEPT ![log[n].key] = log[n].val]
      BY <1>4, FinishAppendPuts DEF Store!Put
    <2>6. DOMAIN LiveView = Keys /\ DOMAIN Recoverable = Keys
      BY <2>1, LiveViewIs DEF View, Recoverable
    <2>7. ASSUME NEW k \in Keys, LiveView'[k] # Recoverable'[k] PROVE BehindTear(k)'
      <3>1. CASE k # log[n].key
        <4>1. LiveView'[k] = LiveView[k] /\ Recoverable'[k] = Recoverable[k]
          BY <1>4, <2>5, <2>6, <3>1, FinishAppendRecoverable
        <4>2. QED BY <2>1, <2>4, <2>7, <4>1 DEF LossInv
      <3>2. CASE k = log[n].key
        <4>1. Tainted
          BY <1>4, <2>5, <2>6, <2>7, <3>2, FinishAppendRecoverable
        <4>2. PICK i \in DOMAIN log : Torn(i)
          BY <4>1 DEF Tainted
        <4>3. i < n /\ Torn(i)'
          BY <2>3, <4>2
        <4>4. QED BY <2>1, <2>2, <3>2, <4>3 DEF BehindTear
      <3>3. QED BY <3>1, <3>2
    <2>8. QED BY <2>7 DEF LossInv
  <1>5. CASE UpdateOffset
    <2>1. log' = log /\ phase = "written" /\ phase' = "ready"
      BY <1>5 DEF UpdateOffset
    <2>2. QED BY <1>1, <1>2, <1>5, <2>1, UpdateOffsetStutters
  <1>6. CASE FailAppend
    <2>1. log' = log /\ phase = "writing" /\ phase' = "ready"
      BY <1>6 DEF FailAppend
    <2>2. LiveView' = LiveView /\ Recoverable' = Recoverable
      BY <1>6, FailAppendTears DEF Store!Tear
    <2>3. QED BY <1>1, <1>2, <2>1, <2>2
  <1>7. CASE ReplayEnd
    BY <1>7, OpeningSteps DEF LossInv, Store!Open
  <1>8. CASE OpenRepository \/ ReplayRecord \/ Crash
    BY <1>8 DEF LossInv, OpenRepository, ReplayRecord, Crash
  <1>9. CASE UNCHANGED vars
    <2>1. log' = log /\ phase' = phase /\ offsetm' = offsetm
      BY <1>9 DEF vars
    <2>2. View' = View
      BY <2>1 DEF View, FindById
    <2>3. LiveView' = LiveView /\ Recoverable' = Recoverable
      BY <2>1, <2>2, SameLog DEF LiveView
    <2>4. CASE phase \in {"ready", "writing", "written"}
      BY <1>1, <1>2, <2>1, <2>3, <2>4
    <2>5. CASE phase \notin {"ready", "writing", "written"}
      BY <2>1, <2>5 DEF LossInv
    <2>6. QED BY <2>4, <2>5
  <1>10. ASSUME NEW k \in Keys, NEW v \in Vals, Insert(k, v) PROVE LossInv'
    BY <1>3, <1>10 DEF Insert
  <1>11. ASSUME NEW k \in Keys, Delete(k) PROVE LossInv'
    BY <1>3, <1>11 DEF Delete
  <1>12. QED BY <1>4, <1>5, <1>6, <1>7, <1>8, <1>9, <1>10, <1>11 DEF Next

LEMMA LossInvariance == Spec => []LossInv
  <1>1. Init => LossInv
    BY DEF Init, LossInv
  <1>2. QED BY <1>1, Invariance, LossNext, PTL DEF Spec

\* A restart loses, or brings back, a key only when a record of that key was
\* written behind a torn fragment.
THEOREM BoundedLoss == Spec => []LossOnlyBehindTear
  <1>1. LossInv => LossOnlyBehindTear
    <2> SUFFICES ASSUME LossInv PROVE LossOnlyBehindTear
      OBVIOUS
    <2>1. phase = "ready" => LiveView = View
      BY LiveViewIs
    <2>2. QED BY <2>1 DEF LossInv, LossOnlyBehindTear, BehindTear
  <1>2. QED BY <1>1, LossInvariance, PTL

\* With no torn append in the file the documented crash safety holds: the next
\* process answers what this one answers.
THEOREM SafeWithoutTear == Spec => [](Tainted \/ CrashSafe)
  <1>1. LossInv => Tainted \/ CrashSafe
    <2> SUFFICES ASSUME LossInv, ~Tainted, phase = "ready" PROVE View = Recoverable
      BY DEF CrashSafe
    <2>1. \A k \in Keys : ~BehindTear(k)
      BY DEF BehindTear, Tainted
    <2>2. \A k \in Keys : View[k] = Recoverable[k]
      BY <2>1, LiveViewIs DEF LossInv
    <2>3. QED BY <2>2 DEF View, Recoverable
  <1>2. QED BY <1>1, LossInvariance, PTL
=============================================================================
