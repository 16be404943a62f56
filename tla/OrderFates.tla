------------------------------ MODULE OrderFates ------------------------------
(***************************************************************************)
(* What a charge promises of the money, with no calls, no lane and no      *)
(* notifications: however many orders were made for it, and whoever comes  *)
(* upon them, the sale keeps the payment of one at most, one that was paid *)
(* and while the sale was open, and for good; any other paid order may be  *)
(* given back, and none is twice.                                          *)
(***************************************************************************)
EXTENDS Naturals

CONSTANT Order

VARIABLES
    paid,         \* orders the customer paid
    kept,         \* of them, the one whose payment the sale keeps
    timesGiven,   \* of each order, how many times its payment was given back
    sale          \* open or closed

vars == <<paid, kept, timesGiven, sale>>

Init ==
    /\ paid = {} /\ kept = {} /\ sale = "open"
    /\ timesGiven = [o \in Order |-> 0]

Pay(o) ==
    /\ o \notin paid /\ paid' = paid \cup {o}
    /\ UNCHANGED <<kept, timesGiven, sale>>

\* It may have been all that was due.
Keep(o) ==
    /\ o \in paid /\ kept = {} /\ timesGiven[o] = 0 /\ sale = "open"
    /\ kept' = {o} /\ sale' \in {"open", "closed"}
    /\ UNCHANGED <<paid, timesGiven>>

\* Several at once, if one look finds several.
GiveBack(back) ==
    /\ back \subseteq paid \ kept
    /\ \A o \in back : timesGiven[o] = 0
    /\ timesGiven' = [o \in Order |-> IF o \in back THEN 1 ELSE timesGiven[o]]
    /\ UNCHANGED <<paid, kept, sale>>

\* With what it keeps, or charged otherwise.
Close ==
    /\ sale = "open" /\ sale' = "closed"
    /\ UNCHANGED <<paid, kept, timesGiven>>

Next ==
    \/ \E o \in Order : Pay(o) \/ Keep(o)
    \/ \E back \in SUBSET Order : GiveBack(back)
    \/ Close

Spec == Init /\ [][Next]_vars
=============================================================================
