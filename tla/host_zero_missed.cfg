SPECIFICATION FairHSpec
CONSTANTS
    d0 = d0
    d1 = d1
    Half = 1
    Data = {d0, d1}
    Zero = d0
    Refused = Refused
    Commands <- MCCommands
    Compute <- MCCompute
    Accepts <- MCAccepts
    HostModes = {1}
    Repeats = TRUE
    Expected <- WrittenStatus
    Rounds = 2
    MaxResets = 0
PROPERTY
    ZeroResets
CHECK_DEADLOCK FALSE
