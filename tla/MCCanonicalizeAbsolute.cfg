CONSTANTS
    Names <- TreeNames
    Inodes <- TreeInodes
    ROOTINO = 1
    Type <- TreeType
    Entries <- TreeEntries
    Link <- TreeLink
    MAX_SYMLINK_LOOPS = 16
    Inputs <- TreeInputs
    Cwds <- TreeCwds

SPECIFICATION Spec

INVARIANT ResultAbsolute
