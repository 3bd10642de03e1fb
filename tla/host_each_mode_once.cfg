SPECIFICATION FairHSpec
CONSTANTS
    d0 = d0
    d1 = d1
    Half = 1
    Data = {d0, d1}
    Zero = d0
    Refused = Refused
    Commands <- MCCommands
    Compute <- MCCompute
    Accepts <- MCAccepts
    HostModes = {1, 4, 5, 15}
    Repeats = FALSE
    Expected <- WrittenStatus
    Rounds = 5
    MaxResets = 1
INVARIANTS
    HostTypeOK
    FetchedIsMine
PROPERTIES
    EveryCommandAnswered
CHECK_DEADLOCK FALSE
