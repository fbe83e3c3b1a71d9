SPECIFICATION Spec
CONSTANTS
    Browsers = {"ann"}
    TabsPerBrowser = 2
    Tabs = {t1, t2}
    BrowserOf <- OneBrowser
    Emails = {"ann@", "bob@"}
    Usernames = {"ann", "bob"}
    Passwords = {"secret-a", Blank}
    GoodEmails = {"ann@"}
    GoodUsernames = {"ann", "bob"}
    GoodPasswords = {"secret-a"}
    Blank = Blank
    Ids = {}
    Ops = {"signup", "login", "logout"}
    Bases = {36, 43}
    WordSize = 256
    TableSize = 4
    SidLength = 3
    NoSid = NoSid
    UnreliableTables = {"sessions"}
    MaxRequests = 3
    MaxClock = 0
    PageSize = 10
    Seed <- SeedAnn
SYMMETRY TabSymmetry
INVARIANTS TypeOK EmailsUnique CookiesHonoured LoginMatches
PROPERTIES SidStable
CHECK_DEADLOCK FALSE
