SPECIFICATION Spec
CONSTANTS
    Browsers = {"ann", "bob"}
    TabsPerBrowser = 1
    Tabs <- MCTabs
    BrowserOf <- MCBrowserOf
    Emails = {"ann@", "bob@"}
    Usernames = {"ann", "bob"}
    Passwords = {"secret-a", "secret-b"}
    GoodEmails = {"ann@", "bob@"}
    GoodUsernames = {"ann", "bob"}
    GoodPasswords = {"secret-a", "secret-b"}
    Blank = Blank
    Ids = {1}
    Ops = {"post", "like", "unlike", "connect", "dashboard", "profile"}
    Bases = {43}
    WordSize = 256
    TableSize = 4
    SidLength = 3
    NoSid = NoSid
    UnreliableTables = {}
    MaxRequests = 3
    MaxClock = 1
    PageSize = 2
    Seed <- SeedWall
PROPERTIES SocialSpec AnswerMeansDone
CHECK_DEADLOCK FALSE
