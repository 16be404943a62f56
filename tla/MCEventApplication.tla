------------------------- MODULE MCEventApplication -------------------------
(***************************************************************************)
(* Instances of EventApplication for TLC.  An installation opens a cash    *)
(* session, removes a line of a sale and, its clock set back meanwhile,    *)
(* completes the sale.                                                     *)
(***************************************************************************)
EXTENDS EventApplication, TLC

Opened == "opened"
LineRemoved == "line removed"
Completed == "completed"

DeviceOfEach == [e \in Event |-> 1]
SeqOfEach == [e \in Event |-> IF e = LineRemoved THEN 2 ELSE IF e = Completed THEN 3 ELSE 1]
OccurredAtOfEach == [e \in Event |-> IF e = LineRemoved THEN 5 ELSE 3]
AggregateOfEach == [e \in Event |-> IF e = Opened THEN "session" ELSE "sale"]
DependsOnOfEach == [e \in Event |-> IF e = Completed THEN {"session"} ELSE {}]

RunSymmetry == Permutations(Runs)
=============================================================================
