------------------------------- MODULE KVStore -------------------------------
(***************************************************************************)
(* What a collection of the file backend promises its callers, with no     *)
(* file in sight.  `live` is what the open repository answers, `disk` is   *)
(* what the next process would find, `tainted` says that an append has     *)
(* been cut short.  A write changes both maps at once until the first      *)
(* torn append; from then on the disk map never changes again, although    *)
(* the live one keeps doing so.                                            *)
(***************************************************************************)
CONSTANTS Keys, Vals, Absent

VARIABLES live, disk, tainted

storeVars == <<live, disk, tainted>>

Down == [k \in {} |-> Absent]          \* no process has the store open

Init == /\ live = Down
        /\ disk = [k \in Keys |-> Absent]
        /\ tainted = FALSE

Open == /\ live = Down
        /\ live' = disk
        /\ UNCHANGED <<disk, tainted>>

\* Insert, update (v a value) and delete (v = Absent), at the moment the
\* record is in the file.
Put(k, v) == /\ live # Down
             /\ live' = [live EXCEPT ![k] = v]
             /\ disk' = IF tainted THEN disk ELSE [disk EXCEPT ![k] = v]
             /\ UNCHANGED tainted

\* An append that fails half way while the process lives on.
Tear == /\ live # Down
        /\ tainted' = TRUE
        /\ UNCHANGED <<live, disk>>

\* A crash, which may cut an append short.
Crash == /\ live' = Down
         /\ tainted' \in {tainted, TRUE}
         /\ UNCHANGED disk

Next == \/ Open
        \/ \E k \in Keys, v \in Vals \cup {Absent} : Put(k, v)
        \/ Tear
        \/ Crash

Spec == Init /\ [][Next]_storeVars
=============================================================================
