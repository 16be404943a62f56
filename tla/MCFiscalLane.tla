----------------------------- MODULE MCFiscalLane -----------------------------
(* Instances of FiscalLane for TLC. *)
EXTENDS FiscalLane, TLC

\* The sales are of different amounts, so that a voucher tells them apart; a voucher
\* invoiced elsewhere can be of the amount of either.
AmountOfEach == [s \in Sale |-> IF s = "s1" THEN 1 ELSE 2]
=============================================================================
