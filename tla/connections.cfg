SPECIFICATION Spec
CONSTANTS
    ann = ann
    bob = bob
    cat = cat
    Clients <- Three
    MaxFds = 2
    EpollNum = 2
    Backlog = 1
    HeadLen = 2
    RequestLen = 2
    BufSize = 2
    Pieces <- TwoPieces
    SndBuf = 2
    AcceptMayFail = TRUE
SYMMETRY Symmetry
INVARIANT FdsExact
INVARIANT EventsAreFresh
INVARIANT OwnReply
