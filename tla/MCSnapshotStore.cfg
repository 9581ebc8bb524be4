CONSTANTS
    Procs = {p1, p2}
    Tags = {t1, t2}
    Extractors = {stale, current}
    Formats = {old, new}
    Extractor = current
    Format = new
    None = None
    Hole = Hole
    Chunks = 2
    Exclusive = {t1}
    MaxFaults = 1
SPECIFICATION Spec
INVARIANTS
    TypeOK
    PublishedIsWhole
    SnapshotsAreOfTheirTag
    EnsuredPinsAreReadable
PROPERTIES
    OnlyAskedForSnapshotsChange
    StoreIsTable
SYMMETRY MCSymmetry
