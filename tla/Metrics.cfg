\* Three requests recorded by threads of their own, two polling readers.
SPECIFICATION Spec
CONSTANTS
    r1 = r1
    r2 = r2
    r3 = r3
    q1 = q1
    q2 = q2
    Requests <- MCRequests
    Readers <- MCReaders
SYMMETRY Symmetry
INVARIANTS
    TypeOK
    SnapshotConsistent
    NothingLost
PROPERTY SnapshotsGrow
