SPECIFICATION Spec
CONSTANTS
    MaxOrders <- ChargeMaxOrders
    MaxSends <- ChargeMaxSends
    MaxFaults <- ChargeMaxFaults
INVARIANTS TypeOK NoOrderOutOfSight HeldIsNotRefunded EndedAgreesWithCloud NoPaymentIsForgotten
PROPERTIES ImplementsOrderFates
