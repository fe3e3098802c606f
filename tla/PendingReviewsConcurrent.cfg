CONSTANTS
    s1 = s1
    s2 = s2
    p1 = p1
    l1 = l1
    l2 = l2
    Subs <- TwoSubs
    Texts <- TwoSubs
    Text <- OwnText
    Seconds <- OneSecond
    Tabs <- OneTab
    Author <- InOneTab
    Loads <- TwoLoads
    PageSize = 1
    Pages <- TwoPages
    Deletable <- NoSub
    Faults = TRUE
SPECIFICATION Spec
SYMMETRY Symmetry
INVARIANTS
    TypeOK
    PendingUntilStored
    NeverVanishes
