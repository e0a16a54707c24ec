CONSTANTS
    Inums <- MCInums
    FileInums <- MCFileInums
    Passwords <- MCPasswords
    Empty = ""
    NPROC = 3
    MaxPid = 4

SPECIFICATION Spec

INVARIANT PasswordDurable
