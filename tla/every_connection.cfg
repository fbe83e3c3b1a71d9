SPECIFICATION FairSpec
CONSTANTS
    ann = ann
    bob = bob
    cat = cat
    Clients <- Two
    MaxFds = 2
    EpollNum = 1
    Backlog = 2
    HeadLen = 1
    RequestLen = 2
    BufSize = 2
    Pieces <- TwoPieces
    SndBuf = 2
    AcceptMayFail = FALSE
INVARIANT NobodyForgotten
PROPERTY EveryConnectionEnds
