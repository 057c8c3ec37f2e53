SPECIFICATION FairSpec
CONSTANTS
    t1 = t1
    t2 = t2
    A = A
    B = B
    Threads = {t1, t2}
    Ports = {A, B}
    Owner = t1
    Uses <- ReadersAndWriters
    LineLen = 2
    OutSpace = 1
    MaxFd = 2
    Faults = {"open", "config", "close"}
INVARIANTS
    TypeOK
    ReadUndivided
    WriteUndivided
    SelectsOnDescriptor
    DescriptorsAccounted
PROPERTIES
    WriteLockReturns
    ReadLockReturns
