SPECIFICATION Spec
CONSTANTS
    Browsers = {"ann"}
    TabsPerBrowser = 2
    Tabs <- MCTabs
    BrowserOf <- MCBrowserOf
    Emails = {"ann@", "bob@"}
    Usernames = {"ann", "bob"}
    Passwords = {"secret-a", "secret-b"}
    GoodEmails = {"ann@", "bob@"}
    GoodUsernames = {"ann", "bob"}
    GoodPasswords = {"secret-a", "secret-b"}
    Blank = Blank
    Ids = {}
    Ops = {"login"}
    Bases = {36}
    WordSize = 256
    TableSize = 4
    SidLength = 3
    NoSid = NoSid
    UnreliableTables = {}
    MaxRequests = 4
    MaxClock = 0
    PageSize = 10
    Seed <- SeedAnnBob
INVARIANTS SidsUnique
CHECK_DEADLOCK FALSE
