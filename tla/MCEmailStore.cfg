SPECIFICATION Spec
CONSTANTS
    Msg = {m1, m2}
    Label = {inbox, archive}
    Key = {k1, k2}
    NoKey = NoKey
    NoIndex = NoIndex
    NoJob = NoJob
    Kinds = {"imap", "proton"}
    FaultSets = {{"crash", "rotate", "rotateCrash", "race"}, {"crash", "rotate"}, {"rotate"}, {}, {"crash", "sqlite"}, {"sqlite"}}
SYMMETRY Symmetric
INVARIANTS
    TypeOK
    IndexFollowsVault
    IndexMatchesShards
PROPERTIES
    LosesNoMail
    KeepsReadableContent
