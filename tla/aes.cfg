SPECIFICATION Spec
CONSTANTS
    Nk = 4
    Blocks <- MCBlocks
    Keys <- MCKeys
    Ivs <- MCIvs
    Modes <- MCModes
    Message <- out
    Arrived <- NothingArrived
    ExpandKey <- KeyExpansion
    EncryptBlock <- Cipher
    DecryptBlock <- InvCipher
    XorBlocks <- XorWithIv
    NextCounter <- IncrementIv
    Standard <- MCStandard
    StandardNext <- StdNext
INVARIANTS
    TypeOK
    SentIsStandard
    DecryptRestores
