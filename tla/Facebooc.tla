------------------------------ MODULE Facebooc ------------------------------
(***************************************************************************)
(* The running site: browsers, the single-threaded server process and the  *)
(* SQLite file.                                                            *)
(*                                                                         *)
(* handle() in src/server.c reads a request, runs one handler to its end,  *)
(* writes the reply and closes the connection, and SQLite commits every    *)
(* statement by itself, so a handler is one step.  No handler writes the   *)
(* file twice: the process can only die before a step, or between the      *)
(* write and the reply (see Reply).  A dead process is started again by    *)
(* the container runtime; the file and the cookies in browsers survive it. *)
(***************************************************************************)
EXTENDS FaceboocDB, Utility

CONSTANTS
    Browsers, Tabs, BrowserOf,      \* each tab belongs to a browser: one cookie jar
    Emails, Usernames, Passwords,   \* values a form can carry
    GoodEmails, GoodUsernames, GoodPasswords,
                                    \* those that pass signup's own checks
    Blank,                          \* the empty password field
    Ids,                            \* ids that links can name
    Ops,                            \* the kinds of request browsers make
    Bases,                          \* addresses the code can be loaded at
    NoSid,                          \* no session cookie
    UnreliableTables,               \* tables whose writes may fail (disk full...)
    MaxRequests, MaxClock,          \* bounds: requests made, seconds elapsed
    Seed                            \* the file and the cookies of an earlier run

ASSUME ConstantsAssumption ==
    /\ BrowserOf \in [Tabs -> Browsers]
    /\ GoodEmails \subseteq Emails
    /\ GoodUsernames \subseteq Usernames
    /\ GoodPasswords \subseteq Passwords
    /\ Ids \subseteq Nat
    /\ Bases \subseteq Nat \ {0}
    /\ NoSid \notin Sids
    /\ MaxRequests \in Nat
    /\ MaxClock \in Nat

\* A file as earlier runs leave it, and cookies those runs gave out.
ASSUME SeedAssumption ==
    /\ Seed.accounts \in Seq(AccountRow(Emails, Usernames, Passwords))
    /\ Seed.sessions \in Seq([account : Nat, session : Sids])
    /\ Seed.posts \in Seq([author : Nat, createdAt : Nat])
    /\ Seed.connections \in [DOMAIN Seed.connections -> Nat \ {0}]
    /\ DOMAIN Seed.connections \subseteq (DOMAIN Seed.accounts) \X (DOMAIN Seed.accounts)
    /\ \A i, j \in DOMAIN Seed.accounts :
           Seed.accounts[i].email = Seed.accounts[j].email => i = j
    /\ \A i \in DOMAIN Seed.sessions : Seed.sessions[i].account \in DOMAIN Seed.accounts
    /\ \A i \in DOMAIN Seed.posts : Seed.posts[i].author \in DOMAIN Seed.accounts
    /\ Seed.jar \in [Browsers -> {NoSid} \cup
                        {Seed.sessions[i].session : i \in DOMAIN Seed.sessions}]

VARIABLES
    accounts, sessions, posts, connections, likes,  \* the SQLite file
    server,         \* "up", "stopped" (by a signal) or "aborted" (by its own fault)
    base, counter,  \* get_rand: where it was loaded, its static counter
    clock,          \* time(NULL)
    jar,            \* per browser: its sid cookie
    tab,            \* per tab: its request and where that has got to
    issued          \* requests made so far

file    == <<accounts, sessions, posts, connections, likes>>
memory  == <<base, counter>>
vars    == <<file, server, memory, clock, jar, tab, issued>>

---------------------------------------------------------------------------
(* Requests and replies *)

PageRequest   == [op : {"home", "loginPage", "signupPage", "dashboard", "logout", "missing"}]
LoginRequest  == [op : {"login"}, username : Usernames, password : Passwords]
SignupRequest == [op : {"signup"}, nameOk : BOOLEAN, email : Emails,
                  username : Usernames, password : Passwords, confirm : Passwords]
PostRequest   == [op : {"post"}, body : {"empty", "fits", "tooLong"}]
IdRequest     == [op : {"like", "unlike", "connect", "profile"}, id : Ids]

Requests == PageRequest \cup LoginRequest \cup SignupRequest
              \cup PostRequest \cup IdRequest

NoRequest == [op |-> "none"]

NoView == [shown |-> << >>, connected |-> {}]

Views == [shown : Seq([post : Nat, liked : BOOLEAN]), connected : SUBSET Nat]

Statuses == {0, 200, 302, 404}  \* 0: no reply yet

Replies == [status : Statuses, setsCookie : BOOLEAN,
            cookie : Sids \cup {NoSid}, view : Views]

\* cookie is what Set-Cookie puts in place of the browser's sid, if it is there.
ReplyWith(status, setsCookie, cookie, view) ==
    [status |-> status, setsCookie |-> setsCookie, cookie |-> cookie, view |-> view]

Plain(status)    == ReplyWith(status, FALSE, NoSid, NoView)
SetCookie(sid)   == ReplyWith(302, TRUE, sid, NoView)
Rendered(view)   == ReplyWith(200, FALSE, NoSid, view)
NoReply          == Plain(0)

Idle == [st |-> "idle", req |-> NoRequest, sid |-> NoSid, reply |-> NoReply]

Sent(t, q) == [st |-> "sent", req |-> q, sid |-> jar[BrowserOf[t]], reply |-> NoReply]

---------------------------------------------------------------------------
(* What every handler does *)

\* Mutant: a connection the browser has closed is not read (EveryRequestEnds).
PendingOpen(t, op) == server = "up" /\ tab[t].st = "sent" /\ tab[t].req.op = op

\* The server has t's request in a socket and its route leads to handler op.
Pending(t, op) == /\ server = "up"
                  /\ tab[t].st \in {"sent", "abandoned"}
                  /\ tab[t].req.op = op

\* get_account: whom the request's cookie stands for.
Me(t) == IF tab[t].sid = NoSid THEN NoRow
         ELSE AccountBySid(accounts, sessions, tab[t].sid)

SignedIn(t) == Me(t) # NoRow

\* Mutant: the request outlives its reply (TypeOK).
AnswerKept(t, reply) ==
    /\ tab' = IF tab[t].st = "sent"
              THEN [tab EXCEPT ![t].st = "replied", ![t].reply = reply]
              ELSE [tab EXCEPT ![t].st = "idle"]
    /\ UNCHANGED server

\* responseWrite and close; nobody reads the reply to an abandoned request.
Answer(t, reply) ==
    /\ tab' = IF tab[t].st = "sent"
              THEN [tab EXCEPT ![t].st = "replied", ![t].reply = reply]
              ELSE [tab EXCEPT ![t] = Idle]
    /\ UNCHANGED server

\* The process ends: the kernel resets the connections it had not answered.
Die(how) ==
    /\ server' = how
    /\ tab' = [t \in Tabs |->
                  CASE tab[t].st = "sent"      -> [tab[t] EXCEPT !.st = "lost"]
                    [] tab[t].st = "abandoned" -> Idle
                    [] OTHER                   -> tab[t]]

\* A handler's last act.  A signal (SIGTERM, or SIGPIPE from send) may get there
\* first, after the handler wrote the file.
Reply(t, reply) == Answer(t, reply) \/ Die("stopped")

\* An INSERT or DELETE on this table can return something else than SQLITE_DONE.
MayFail(table) == table \in UnreliableTables

---------------------------------------------------------------------------
(* Handlers *)

\* Pages that only strangers need: members are sent to their dashboard.
EntryPage(t, op) ==
    /\ Pending(t, op)
    /\ Reply(t, IF SignedIn(t) THEN Plain(302) ELSE Plain(200))
    /\ UNCHANGED <<file, memory>>

Home(t)       == EntryPage(t, "home")
LoginPage(t)  == EntryPage(t, "loginPage")
SignupPage(t) == EntryPage(t, "signupPage")

NotFound(t) == Pending(t, "missing") /\ Reply(t, Plain(404)) /\ UNCHANGED <<file, memory>>

\* signup.c sets valid to TRUE for each field that passes and never back to
\* FALSE: one good field is enough.
FormValid(q) ==
    \/ q.nameOk
    \/ q.email \in GoodEmails /\ CheckEmail(accounts, q.email)
    \/ q.username \in GoodUsernames /\ CheckUsername(accounts, q.username)
    \/ q.password \in GoodPasswords
    \/ q.confirm # Blank /\ q.confirm = q.password

\* The result of accountCreate is dropped: a failed INSERT redirects all the same.
Signup(t) ==
    LET q   == tab[t].req
        row == [email |-> q.email, username |-> q.username, password |-> q.password]
    IN  /\ Pending(t, "signup")
        /\ \/ /\ SignedIn(t)
              /\ Reply(t, Plain(302)) /\ UNCHANGED accounts
           \/ /\ ~SignedIn(t) /\ ~FormValid(q)
              /\ Reply(t, Plain(200)) /\ UNCHANGED accounts
           \/ /\ ~SignedIn(t) /\ FormValid(q)
              /\ \/ accounts' = AccountInsert(accounts, row)
                 \/ MayFail("accounts") /\ UNCHANGED accounts
              /\ Reply(t, Plain(302))
        /\ UNCHANGED <<sessions, posts, connections, likes, memory>>

\* sessionCreate, once the password is right, and what login does with its result.
\* When the INSERT fails login frees the two form strings a second time: the
\* allocator notices and aborts, or the error page still goes out.
OpenSession(t) ==
    LET q   == tab[t].req
        sid == RandomString(base, counter)
    IN  /\ counter' = counter + SidLength
        /\ \/ /\ sessions' = SessionInsert(sessions,
                     [account |-> LoginAccount(accounts, q.username, q.password),
                      session |-> sid])
              /\ Reply(t, SetCookie(sid))
           \/ /\ MayFail("sessions") /\ UNCHANGED sessions
              /\ Reply(t, Plain(200)) \/ Die("aborted")

Login(t) ==
    LET ok == Auth(accounts, tab[t].req.username, tab[t].req.password)
    IN  /\ Pending(t, "login")
        /\ \/ /\ SignedIn(t)
              /\ Reply(t, Plain(302)) /\ UNCHANGED <<sessions, counter>>
           \/ /\ ~SignedIn(t) /\ ~ok
              /\ Reply(t, Plain(200)) /\ UNCHANGED <<sessions, counter>>
           \/ /\ ~SignedIn(t) /\ ok
              /\ OpenSession(t)
        /\ UNCHANGED <<accounts, posts, connections, likes, base>>

\* The browser is told to forget its cookie; the session row stays.
Logout(t) ==
    /\ Pending(t, "logout")
    /\ Reply(t, IF SignedIn(t) THEN SetCookie(NoSid) ELSE Plain(302))
    /\ UNCHANGED <<file, memory>>

\* A body of MAX_BODY_LEN or more, an empty one, and a failed INSERT are all
\* passed over in silence.
Post(t) ==
    /\ Pending(t, "post")
    /\ \/ /\ SignedIn(t) /\ tab[t].req.body = "fits"
          /\ posts' = Append(posts, [author |-> Me(t), createdAt |-> clock])
       \/ /\ \/ ~SignedIn(t) \/ tab[t].req.body # "fits" \/ MayFail("posts")
          /\ UNCHANGED posts
    /\ Reply(t, Plain(302))
    /\ UNCHANGED <<accounts, sessions, connections, likes, memory>>

\* No look at whether the member likes the post already.
Like(t) ==
    LET id == tab[t].req.id
        ok == SignedIn(t) /\ PostExists(posts, id)
    IN  /\ Pending(t, "like")
        /\ \/ ok /\ likes' = LikeInsert(likes, Me(t), id)
           \/ (~ok \/ MayFail("likes")) /\ UNCHANGED likes
        /\ Reply(t, Plain(302))
        /\ UNCHANGED <<accounts, sessions, posts, connections, memory>>

Unlike(t) ==
    LET id == tab[t].req.id
        ok == SignedIn(t) /\ PostExists(posts, id)
    IN  /\ Pending(t, "unlike")
        /\ \/ ok /\ likes' = LikeDelete(likes, Me(t), id)
           \/ (~ok \/ MayFail("likes")) /\ UNCHANGED likes
        /\ Reply(t, Plain(302))
        /\ UNCHANGED <<accounts, sessions, posts, connections, memory>>

\* No look at whether they are connected already, or the same account.
Connect(t) ==
    LET id == tab[t].req.id
        ok == SignedIn(t) /\ AccountExists(accounts, id)
    IN  /\ Pending(t, "connect")
        /\ \/ ok /\ connections' = ConnectionInsert(connections, Me(t), id)
           \/ (~ok \/ MayFail("connections")) /\ UNCHANGED connections
        /\ Reply(t, Plain(302))
        /\ UNCHANGED <<accounts, sessions, posts, likes, memory>>

\* concat_posts: a list item for every row of the listing, with its Like or Liked.
Entries(listed, me) ==
    [k \in DOMAIN listed |-> [post |-> listed[k], liked |-> LikeLiked(likes, me, listed[k])]]

\* concat_posts uses the author's account without a test for NULL.
Dashboard(t) ==
    LET listed == LatestGraph(posts, connections, Me(t))
    IN  /\ Pending(t, "dashboard")
        /\ IF ~SignedIn(t) THEN Reply(t, Plain(404))
           ELSE IF \A k \in DOMAIN listed : AccountExists(accounts, posts[listed[k]].author)
           THEN Reply(t, Rendered([NoView EXCEPT !.shown = Entries(listed, Me(t))]))
           ELSE Die("aborted")
        /\ UNCHANGED <<file, memory>>

Profile(t) ==
    LET id   == tab[t].req.id
        view == [shown     |-> Entries(LatestOf(posts, id), Me(t)),
                 connected |-> {c \in {id} : ConnectionExists(connections, Me(t), c)}]
    IN  /\ Pending(t, "profile")
        /\ Reply(t, IF ~SignedIn(t) \/ ~AccountExists(accounts, id) THEN Plain(404)
                    ELSE IF id = Me(t) THEN Plain(302) ELSE Rendered(view))
        /\ UNCHANGED <<file, memory>>

Handle(t) ==
    /\ \/ Home(t) \/ LoginPage(t) \/ SignupPage(t) \/ NotFound(t)
       \/ Signup(t) \/ Login(t) \/ Logout(t) \/ Post(t) \/ Like(t) \/ Unlike(t)
       \/ Connect(t) \/ Dashboard(t) \/ Profile(t)
    /\ UNCHANGED <<clock, jar, issued>>

---------------------------------------------------------------------------
(* The process *)

\* FB_delete and exit from the handler of SIGINT and SIGTERM, between requests.
Stop == /\ server = "up"
        /\ Die("stopped")
        /\ UNCHANGED <<file, memory, clock, jar, issued>>

\* docker-compose.yml, "restart: always"; main, FB_new, initDB: the tables exist
\* already, the code is loaded anywhere, and the static counter of get_rand is 0 again.
Start == /\ server # "up"
         /\ server' = "up"
         /\ base' \in Bases
         /\ counter' = 0
         /\ UNCHANGED <<file, clock, jar, tab, issued>>

---------------------------------------------------------------------------
(* Browsers *)

Quiet == UNCHANGED <<file, server, memory, clock>>

Submit(t) == /\ tab[t].st = "idle" /\ issued < MaxRequests
             /\ \E q \in Requests : q.op \in Ops /\ tab' = [tab EXCEPT ![t] = Sent(t, q)]
             /\ issued' = issued + 1
             /\ UNCHANGED jar /\ Quiet

\* The reader closes the page or follows another link before the reply is there:
\* the request stays in the server's socket.
Abandon(t) == /\ tab[t].st \in {"sent", "replied"}
              /\ tab' = IF tab[t].st = "sent"
                        THEN [tab EXCEPT ![t].st = "abandoned", ![t].reply = NoReply]
                        ELSE [tab EXCEPT ![t] = Idle]
              /\ UNCHANGED <<jar, issued>> /\ Quiet

\* The connection was reset: reload, or leave it.
Retry(t) == /\ tab[t].st = "lost" /\ issued < MaxRequests
            /\ tab' = [tab EXCEPT ![t] = Sent(t, tab[t].req)]
            /\ issued' = issued + 1
            /\ UNCHANGED jar /\ Quiet

GiveUp(t) == /\ tab[t].st = "lost"
             /\ tab' = [tab EXCEPT ![t] = Idle]
             /\ UNCHANGED <<jar, issued>> /\ Quiet

\* The reply arrives and its Set-Cookie takes effect.
Deliver(t) == /\ tab[t].st = "replied"
              /\ jar' = IF tab[t].reply.setsCookie
                        THEN [jar EXCEPT ![BrowserOf[t]] = tab[t].reply.cookie] ELSE jar
              /\ tab' = [tab EXCEPT ![t] = Idle]
              /\ UNCHANGED issued /\ Quiet

\* Thirty days pass, or the reader clears the cookies.
CookieExpires(b) == /\ jar[b] # NoSid
                    /\ jar' = [jar EXCEPT ![b] = NoSid]
                    /\ UNCHANGED <<tab, issued>> /\ Quiet

Tick == /\ clock < MaxClock
        /\ clock' = clock + 1
        /\ UNCHANGED <<file, server, memory, jar, tab, issued>>

---------------------------------------------------------------------------
Init == /\ accounts = Seed.accounts /\ sessions = Seed.sessions
        /\ posts = Seed.posts /\ connections = Seed.connections
        /\ likes = [pair \in {} |-> 0]
        /\ server = "up" /\ base \in Bases /\ counter = 0
        /\ clock = 0
        /\ jar = Seed.jar
        /\ tab = [t \in Tabs |-> Idle]
        /\ issued = 0

Next == \/ \E t \in Tabs : \/ Handle(t)
                           \/ Submit(t) \/ Abandon(t) \/ Retry(t) \/ GiveUp(t) \/ Deliver(t)
        \/ \E b \in Browsers : CookieExpires(b)
        \/ Stop \/ Start \/ Tick

Spec == Init /\ [][Next]_vars

\* epoll_wait comes back to every ready connection; docker-compose.yml starts
\* the process again whenever it ends.
Fairness == WF_vars(Start) /\ \A t \in Tabs : WF_vars(Handle(t))

FairSpec == Spec /\ Fairness
=============================================================================
