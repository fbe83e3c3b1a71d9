SPECIFICATION Spec
CONSTANTS
    Browsers = {"ann", "bob"}
    TabsPerBrowser = 1
    Tabs <- MCTabs
    BrowserOf <- MCBrowserOf
    Emails = {"ann@", "bob@", "cat@"}
    Usernames = {"ann", "bob", "cat"}
    Passwords = {"secret-a", "secret-b"}
    GoodEmails = {"ann@", "bob@", "cat@"}
    GoodUsernames = {"ann", "bob", "cat"}
    GoodPasswords = {"secret-a", "secret-b"}
    Blank = Blank
    Ids = {1, 3}
    Ops = {"connect", "dashboard"}
    Bases = {43}
    WordSize = 256
    TableSize = 4
    SidLength = 3
    NoSid = NoSid
    UnreliableTables = {}
    MaxRequests = 4
    MaxClock = 0
    PageSize = 2
    Seed <- SeedTwoAuthors
PROPERTIES DashboardShowsFriends
CHECK_DEADLOCK FALSE
