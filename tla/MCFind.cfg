CONSTANTS
    Names <- MCNames
    Inodes <- MCInodes
    ROOTINO = 1
    Type <- MCType
    Size <- MCSize
    Dirents <- MCDirents
    Link <- MCLink
    MAX_SYMLINK_LOOPS = 16
    DIRSIZ = 14
    MAXPATH = 128
    UINT_BITS = 16
    Lead <- MCLead
    Digits <- MCDigits
    Argvs <- MCArgvs

SPECIFICATION Spec

INVARIANT FindAgreesWithReference
