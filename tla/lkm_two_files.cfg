SPECIFICATION Spec
CONSTANTS
    p1 = p1
    p2 = p2
    None = None
    Processes <- MCProcesses
    Values <- MCValues
    Characters = {"0", "1", "2"}
    Texts <- MCTexts
    Parsed = 2
    Files = {"status_register", "data_buffer"}
INVARIANTS
    ReadIsRegular
