CONSTANTS
    r0 = r0
    s1 = s1
    s2 = s2
    a = a
    b = b
    h1 = h1
    h2 = h2
    Sectors = {r0, s1, s2}
    ROOT = r0
    Names = {a, b}
    Handles = {h1, h2}
    Paths <- MCPaths
    EntryCnt = 2
    MaxEntries = 3
    None = None
SPECIFICATION Spec
INVARIANT DirTypeOK
INVARIANT EntriesNameLiveInodes
