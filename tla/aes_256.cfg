SPECIFICATION Spec
CONSTANTS
    Nk = 4
    Blocks <- MCBlocks
    Keys <- MCKeys
    Ivs <- FirmwareIv
    Modes <- FirmwareMode
    Message <- out
    Arrived <- BramArrived
    ExpandKey <- KeyExpansion
    EncryptBlock <- Cipher
    DecryptBlock <- InvCipher
    XorBlocks <- XorWithIv
    NextCounter <- IncrementIv
    Standard <- MCStandard
    StandardNext <- StdNext
INVARIANTS
    DecryptRestores
