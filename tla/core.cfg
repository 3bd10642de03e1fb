SPECIFICATION Spec
CONSTANTS
    d0 = d0
    d1 = d1
    Half = 1
    Data = {d0, d1}
    Zero = d0
    Refused = Refused
    Commands <- MCCommands
    Compute <- MCCompute
    Accepts <- MCAccepts
INVARIANTS
    TypeOK
    CopyIsRegular
    DoneMeansAnswered
    FailureIsSilent
PROPERTIES
    AnswerStaysPut
    OncePerRequest
    ServiceSpec
