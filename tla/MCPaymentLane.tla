---------------------------- MODULE MCPaymentLane ----------------------------
(* Instances of PaymentLane for TLC. Two orders are the fewest that one charge *)
(* can have too many; two faults lose an answer and then what would repair it. *)
EXTENDS PaymentLane

ChargeMaxOrders == 2
ChargeMaxSends == 2
ChargeMaxFaults == 2
=============================================================================
