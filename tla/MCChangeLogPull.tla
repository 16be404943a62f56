--------------------------- MODULE MCChangeLogPull ---------------------------
(* Instances of ChangeLogPull for TLC. *)
EXTENDS ChangeLogPull, TLC

\* Every row is of a table of its own.
KindOfEach == [e \in Entity |-> e]
=============================================================================
