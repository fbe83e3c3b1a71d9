SPECIFICATION Spec
CONSTANTS
    Tokens <- MCTokens
    Statuses = {"FOUND"}
    Names <- MCNames
    Texts <- MCTexts
    Bodies <- MCBodies
    Attributes = {"Expires"}
    None = None
    InitialSize = 9
    MaxBlocks = 9
    MaxCalls = 4
    MaxReplies = 1
INVARIANT OneOwner
INVARIANT WritesInside
PROPERTY ArrivesAsSet
CHECK_DEADLOCK FALSE
