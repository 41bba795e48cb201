SPECIFICATION Spec
CONSTANTS
    d1 = d1
    d2 = d2
    c1 = c1
    c2 = c2
    ann = ann
    bob = bob
    Fresh = {d1}
    NoDraft = NoDraft
    NoCounter = NoCounter
    Drafts = {d1, d2}
    Counters = {c1, c2}
    Users = {ann, bob}
    User <- MCUser
    MaxShifts = 1
    MaxVersion <- MCMaxVersion
SYMMETRY MCSymmetry
CONSTRAINT MCNotOverwritten
INVARIANTS
    TypeOK
    RestoredOnceUnlessOverwritten
    ClosedShiftHasNoDraft
CHECK_DEADLOCK FALSE
