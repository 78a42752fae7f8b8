SPECIFICATION Spec
CONSTANTS
    Password = {p1, p2}
    Phrase = {h1, h2}
    Salt = {s1, s2, s3}
    Keep = Keep
    NoFile = NoFile
    Short = Short
    NoPair = NoPair
SYMMETRY Symmetric
INVARIANTS
    RecoveryNeedsNoFile
CHECK_DEADLOCK FALSE
