SPECIFICATION FairSpec
CONSTANTS
    Half = 1
    WritePlaces <- MCWritePlaces
    LinuxWords <- MCLinuxWords
    Strobes <- MCStrobes
    SoftWords <- MCSoftWords
    OutputWords <- MCOutputWords
INVARIANTS
    TypeOK
    WriteOnce
    ReadIsRegular
    AnswersHold
PROPERTIES
    InterruptOncePerPress
    NoStarvation
    PortAtomic
