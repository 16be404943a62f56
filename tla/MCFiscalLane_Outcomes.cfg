SPECIFICATION FairSpec
CONSTANTS
    Sale = {"s1", "s2"}
    Amount = {1, 2}
    AmountOf <- AmountOfEach
    MaxDocs = 2
    MaxFaults = 1
    MaxForeign = 2
    MaxLate = 1
INVARIANTS TypeOK SeriesHasNoGap ClaimedOnce InvoicedOnce CountedIsAccounted NoSaleForgotten
PROPERTIES EveryDocumentSettles FreezeEnds ImplementsFiscalVerdicts
CHECK_DEADLOCK FALSE
