------------------------------ MODULE EventLog ------------------------------
(***************************************************************************)
(* What pushing an outbox promises, with no network, no batches and no     *)
(* pushers: the cloud's copy is a prefix of the register's log that only   *)
(* grows, the register only believes received what was, and everything     *)
(* logged is received and known to be received in the end.                 *)
(***************************************************************************)
EXTENDS Integers, Sequences

CONSTANTS Ids, MaxLength   \* MaxLength bounds the log

VARIABLES
    log,        \* the ids the register logged, oldest first
    received,   \* the part of the log the cloud holds without a hole
    confirmed   \* how much of it the register knows to be held

vars == <<log, received, confirmed>>

Init == log = <<>> /\ received = <<>> /\ confirmed = 0

Log ==
    /\ Len(log) < MaxLength
    /\ \E id \in Ids : log' = Append(log, id)
    /\ UNCHANGED <<received, confirmed>>

Deliver ==
    /\ \E n \in Len(received) + 1 .. Len(log) : received' = SubSeq(log, 1, n)
    /\ UNCHANGED <<log, confirmed>>

Confirm ==
    /\ \E n \in confirmed + 1 .. Len(received) : confirmed' = n
    /\ UNCHANGED <<log, received>>

Next == Log \/ Deliver \/ Confirm

Spec == Init /\ [][Next]_vars

EverythingConfirmed == \A n \in 1..MaxLength : (Len(log) >= n) ~> (confirmed >= n)
=============================================================================
