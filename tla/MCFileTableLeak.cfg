\* Two processes share two slots over two files: enough for a slot to be freed
\* by one process and reused by the other before the first calls iput, for a
\* table-full open, and (MAXBATCH 1 < n 2) for a filewrite that fails after its
\* first batch has been committed at MAXBYTES.
CONSTANTS
    Procs = {p1, p2}
    Inums = {i1, i2}
    NFILE = 2
    MAXBYTES = 2
    MAXBATCH = 1
    Lens = {1, 2}
    MaxDesc = 1
SPECIFICATION Spec
PROPERTY ReadReturns
\* A lock leaked by filereadlink really stops every process that needs the inode.
CHECK_DEADLOCK FALSE
