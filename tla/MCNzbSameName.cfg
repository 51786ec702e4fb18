SPECIFICATION Spec
CONSTANTS
    Args <- MCSameName
    Quoted <- MCQuoted
    YName <- MCYName
    Mentions <- MCMentions
    Par <- MCPar
    NoName = "none"
    SkipPar = TRUE
    OutDirName = FALSE
    TmpDir = "out"
    BigName <- MCBigName
    NRuns = 2
INVARIANT EveryNzbServed
