SPECIFICATION Spec
CONSTANTS
    Msg = {m1, m2}
    Label = {inbox, archive}
    Key = {k1, k2}
    NoKey = NoKey
    NoIndex = NoIndex
    NoJob = NoJob
    Kinds = {"imap"}
    FaultSets = {{"rotate"}}
SYMMETRY Symmetric
INVARIANTS
    IndexIsOnDisk
