CONSTANTS
    Names <- ChainNames
    Inodes <- ChainInodes
    ROOTINO = 1
    Type <- ChainType
    Entries <- ChainEntries
    Link <- ChainLink
    MAX_SYMLINK_LOOPS = 16
    Inputs <- ChainInputs
    Cwds <- ChainCwds

SPECIFICATION Spec

INVARIANT CanonicalAgreesWithReference
