CONSTANTS
    Threads <- MCThreads
    NINODE = 2
    NINUM = 2
    FileTypes = {1}
    T_DIR = 1
    MaxRefs = 2
    NoSlot = NoSlot
    t1 = t1
    t2 = t2
    t3 = t3

SPECIFICATION Spec

INVARIANT TypeOK
INVARIANT RefCountExact
INVARIANT UniqueIdentity
INVARIANT LockedViewCoherent
INVARIANT TruncateUnshared
INVARIANT NoOrphanInode

\* Symmetry is left out: it is unsound for the liveness property.
PROPERTY SleeperWoken


