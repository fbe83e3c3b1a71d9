SPECIFICATION FairSpec
CONSTANTS
    Browsers = {"ann", "bob"}
    TabsPerBrowser = 1
    Tabs <- MCTabs
    BrowserOf <- MCBrowserOf
    Emails = {"ann@", "bob@"}
    Usernames = {"ann"}
    Passwords = {"secret-a"}
    GoodEmails = {}
    GoodUsernames = {"ann"}
    GoodPasswords = {}
    Blank = Blank
    Ids = {1, 3}
    Ops = {"home", "loginPage", "signupPage", "missing", "login", "logout", "signup", "post", "like", "unlike", "connect", "dashboard", "profile"}
    Bases = {36, 43}
    WordSize = 256
    TableSize = 4
    SidLength = 3
    NoSid = NoSid
    UnreliableTables = {"accounts", "sessions", "posts", "likes", "connections"}
    MaxRequests = 2
    MaxClock = 0
    PageSize = 10
    Seed <- SeedOneSignedIn
INVARIANTS NoOrphans
PROPERTIES EveryRequestEnds
CHECK_DEADLOCK FALSE
