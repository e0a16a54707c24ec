\* Three distinct keys: "." and ".." plus three entries fill MAXENT = 5
\* exactly, so any slot dirlink failed to reuse would reach the panic.
CONSTANTS
    Names <- MCNames
    Inums = {2, 3}
    DIRSIZ = 2
    MAXENT = 5
    SELF = 1
    PARENT = 4
SPECIFICATION Spec
INVARIANT TypeOK
INVARIANT NeverFull
PROPERTY RefinesDirectoryMap
