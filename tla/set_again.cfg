SPECIFICATION PartsSpec
CONSTANTS
    k1 = k1
    k2 = k2
    k3 = k3
    k4 = k4
    v = v
    Words <- MCWords
    Sendable <- MCSendable
    Cut <- MCCut
    Numerals <- MCNumerals
    Leftover <- MCLeftover
    Symbols <- MCSymbols
    Sites <- MCSites
    Roots <- MCRoots
    ContextKeys <- MCContextKeys
    ContextValues <- MCContextValues
    MaxSets = 2
    People <- MCPeople
    Queries <- MCQueries
    Limit = 2
    MaxAccounts = 3
    Keys <- MCKeys
    Values <- MCValues
    NotFound = NotFound
    Hash <- MCHash
    InitCap = 4
    SizeMod = 16
    Ops <- MCOps
    GivenAgain = FALSE
    Chars <- MCChars
    MaxText = 4
    MAX_BODY_LEN = 4
    Alphabet <- MCAlphabet
    High <- MCHigh
    MaxLen = 5
    Patterns <- MCPatterns
    Stray <- MCStray
    Inputs <- MCInputs
    Signals <- MCSignals
    MaxEvents = 3
    Names <- MCNames
    SuffixOf <- MCSuffixOf
    Bytes <- MCBytes
    FileContents <- MCFileContents
    PageSize = 2
    Directory = Directory
    Absent = Absent
    MaxRequests = 2
    MaxWrites = 1
    NameLens <- MCNameLens
    EmailLens <- MCEmailLens
    BodyLens <- MCBodyLens
    Numbers <- MCNumbers
INVARIANT SetOverwrites
CHECK_DEADLOCK FALSE
