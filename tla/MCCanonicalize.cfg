CONSTANTS
    Names <- TreeNames
    Inodes <- TreeInodes
    ROOTINO = 1
    Type <- TreeType
    Entries <- TreeEntries
    Link <- TreeLink
    \* 8, not 16: the cyclic links of the tree exhaust any budget, and a
    \* shorter chain of restarts keeps the recursion within the evaluator stack.
    MAX_SYMLINK_LOOPS = 8
    Inputs <- TreeInputs
    Cwds <- TreeCwds

SPECIFICATION Spec

INVARIANT CanonicalAgreesWithReference
INVARIANT NameiParentAgrees
