SPECIFICATION FairSpec
CONSTANTS
    Entity = {"product", "brand"}
    Kind = {"product", "brand"}
    KindOf <- KindOfEach
    Compound = {"product"}
    Removable = {"product"}
    HeldBack = {"brand"}
    Widened = {"product"}
    Writers = {w1, w2}
    PageSize = 1
    MaxSeq = 3
    MaxDelayed = 1
    w1 = w1
    w2 = w2
INVARIANTS TypeOK NothingSkipped ObservedIsHeld RedeliveredIsWhole
PROPERTIES Convergence ImplementsFollowedRows
