----------------------------- MODULE FollowedRows -----------------------------
(***************************************************************************)
(* What following the rows of the cloud promises a register, with no log,  *)
(* no numbers, no pages and no redelivery: its copy of a row only goes     *)
(* forward, from one version the row had to a later one, each whole; a row *)
(* is removed from it only after it was deleted, and does not come back;   *)
(* and no change is passed over, or taken for pulled, that the copy lacks. *)
(***************************************************************************)
EXTENDS Naturals

CONSTANT Entity

VARIABLES
    row,       \* the version of each row, 0 when there is none
    changes,   \* what was committed: a row and its new version, a deletion's too
    copy,      \* the versions the register's copy of each row is made of
    gone,      \* rows the register removed
    passed,    \* changes the register does not ask for again
    claimed    \* changes the cloud takes for pulled

vars == <<row, changes, copy, gone, passed, claimed>>

Init ==
    /\ row = [e \in Entity |-> 0] /\ changes = {}
    /\ copy = [e \in Entity |-> {}] /\ gone = {} /\ passed = {} /\ claimed = {}

\* A deleted row is not created again.
Commit(written, deleted) ==
    /\ \A e \in written : row[e] > 0 \/ \A c \in changes : c[1] # e
    /\ \A e \in deleted : row[e] > 0
    /\ row' = [e \in Entity |-> IF e \in deleted THEN 0
                                ELSE IF e \in written THEN row[e] + 1 ELSE row[e]]
    /\ changes' = changes \cup {<<e, row[e] + 1>> : e \in written}
    /\ UNCHANGED <<copy, gone, passed, claimed>>

Unchanged(e) == copy'[e] = copy[e] /\ (e \in gone' <=> e \in gone)

\* To a version that was not the row's deletion.
Renewed(e) ==
    /\ e \notin gone /\ e \notin gone'
    /\ \E c \in changes :
        /\ c[1] = e /\ copy'[e] = {c[2]} /\ \A u \in copy[e] : u <= c[2]
        /\ row[e] > 0 \/ <<e, c[2] + 1>> \in changes

Removed(e) ==
    /\ e \notin gone /\ e \in gone'
    /\ row[e] = 0 /\ copy[e] # {}
    /\ \E c \in changes :
        /\ c[1] = e /\ copy'[e] = {c[2]}
        /\ \A d \in changes : d[1] = e => d[2] <= c[2]

\* The copy has the change, or what came after it; or the row was never there for it.
Has(c) ==
    \/ \E u \in copy[c[1]] : u >= c[2]
    \/ copy[c[1]] = {} /\ row[c[1]] = 0

Follow ==
    /\ copy' \in [Entity -> SUBSET Nat] /\ gone' \subseteq Entity
    /\ \A e \in Entity : Unchanged(e) \/ Renewed(e) \/ Removed(e)
    /\ passed \subseteq passed' /\ passed' \subseteq changes
    /\ \A c \in passed' : Has(c)'
    /\ UNCHANGED <<row, changes, claimed>>

\* In whatever order the cloud comes to know it.
Claim ==
    /\ claimed' \subseteq passed
    /\ UNCHANGED <<row, changes, copy, gone, passed>>

Next ==
    \/ Claim \/ Follow
    \/ \E written \in SUBSET Entity : \E deleted \in SUBSET written : Commit(written, deleted)

Spec == Init /\ [][Next]_vars
=============================================================================
