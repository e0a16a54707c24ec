CONSTANTS
    Inodes <- MCInodes
    f1 = f1
    f2 = f2
    NDIRECT = 1
    NINDIRECT = 2
    BSIZE = 1
    NBLOCKS = 8
    Values = {1, 2}
    ValuesOf <- MCValuesOf

SPECIFICATION Spec

INVARIANT TypeOK
INVARIANT AllocationExact

PROPERTY RefinesAbstractFile

VIEW MCView
