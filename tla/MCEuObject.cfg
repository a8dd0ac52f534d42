SPECIFICATION Spec
CONSTANTS
    Limit = 16
    Images <- MCImages
    Cmds = {"RDWR", "RDWR_MMAP", "WRITE", "WRITE_MMAP"}
    NSCNSALLOC = 2
    PN_XNUM = 2
    SHN_LORESERVE = 4
    Contents <- MCContents
    Aligns = {2}
    Headers <- MCHeaders
    PhNums = {0, 1, 2}
    Layouts = {TRUE, FALSE}
    MaxScns = 4
    MaxPieces = 2
    MaxEdits = 3
    MaxUpdates = 2
    MaxFaults = 1
INVARIANTS Consistent LayoutSound Stable ContentsWritten ReadsBack DataKept
CHECK_DEADLOCK FALSE
