---------------------------- MODULE FaceboocProps ----------------------------
(***************************************************************************)
(* What should be true of the running site.                                *)
(***************************************************************************)
EXTENDS Facebooc

Pairs == Nat \X Nat

\* A bag of pairs, as the likes and connections tables are.
IsTable(b) == /\ b \in [DOMAIN b -> Nat \ {0}]
              /\ DOMAIN b \subseteq Pairs /\ IsFiniteSet(DOMAIN b)

FileOK ==
    /\ accounts \in Seq(AccountRow(Emails, Usernames, Passwords))
    /\ sessions \in Seq([account : Nat, session : Sids])
    /\ posts \in Seq([author : Nat, createdAt : Nat])
    /\ IsTable(connections) /\ IsTable(likes)

ServerOK ==
    /\ server \in {"up", "stopped", "aborted"}
    /\ base \in Bases /\ counter \in Nat
    /\ clock \in 0..MaxClock

TabState == [st    : {"idle", "sent", "abandoned", "replied", "lost"},
             req   : Requests \cup {NoRequest},
             sid   : Sids \cup {NoSid},
             reply : Replies]

\* A tab holds no more than its state needs.
TabOK(x) == /\ x \in TabState
            /\ x.st = "idle" => x = Idle
            /\ x.st # "idle" => x.req \in Requests
            /\ x.st # "replied" => x.reply = NoReply

BrowsersOK ==
    /\ jar \in [Browsers -> Sids \cup {NoSid}]
    /\ tab \in [Tabs -> TabState]
    /\ \A t \in Tabs : TabOK(tab[t])
    /\ issued \in 0..MaxRequests

\* The shape of the file, of the process and of the browsers; a tab without a
\* request keeps nothing of the last one, and only an answered tab has a reply.
TypeOK == FileOK /\ ServerOK /\ BrowsersOK

\* Rows refer to rows that exist, although no foreign key says so: a session and
\* a post to an account, a connection to two accounts, a like to an account and
\* a post.  dashboard.c reads the author of every post it lists without asking
\* whether there is one.
NoOrphans ==
    /\ \A i \in DOMAIN sessions : sessions[i].account \in DOMAIN accounts
    /\ \A p \in DOMAIN posts : posts[p].author \in DOMAIN accounts
    /\ DOMAIN connections \subseteq (DOMAIN accounts) \X (DOMAIN accounts)
    /\ DOMAIN likes \subseteq (DOMAIN accounts) \X (DOMAIN posts)

\* No two accounts share an email, whatever order the signups, their retries and
\* the restarts come in, and although signup goes on to the INSERT when the
\* email is known to be taken.
EmailsUnique ==
    \A i, j \in DOMAIN accounts : accounts[i].email = accounts[j].email => i = j

\* The sid a request or a reply carries.
CarriedSids == {tab[t].sid : t \in Tabs} \cup {tab[t].reply.cookie : t \in Tabs}

\* Every sid that a browser keeps or that is under way, in a request or in the
\* reply to a login, is one that the server will take for an account.
CookiesHonoured ==
    \A s \in ({jar[b] : b \in Browsers} \cup CarriedSids) \ {NoSid} :
        AccountBySid(accounts, sessions, s) # NoRow

\* Until the reply to a login is read, one of the sessions that bear its sid is of
\* an account with the name and the password that were submitted.  (The server
\* will take the first that bears it: see SidsUnique.)
LoginMatches ==
    \A t \in Tabs :
        tab[t].reply.cookie # NoSid =>
            /\ tab[t].req.op = "login"
            /\ \E i \in DOMAIN sessions :
                  LET a == sessions[i].account
                  IN  /\ sessions[i].session = tab[t].reply.cookie
                      /\ a \in DOMAIN accounts
                      /\ accounts[a].username = tab[t].req.username
                      /\ accounts[a].password = tab[t].req.password

\* A stored sid never comes to stand for another account, nor does the account
\* change under it: not after a restart that draws the same ids again, a signup
\* with an email in use or a second login.  A request that waits in the
\* socket acts for the member who sent it.
SidStable ==
    [][\A i \in DOMAIN sessions :
           LET s == sessions[i].session
               a == AccountBySid(accounts, sessions, s)
           IN  /\ AccountBySid(accounts', sessions', s) = a
               /\ a # NoRow => accounts'[a] = accounts[a]]_vars

\* When the member is told that an unlike, a like or a connect is done, it is:
\* no like row is left however many a double click or a retry made, or there is
\* one.
AnswerMeansDone ==
    [][\A t \in Tabs :
          (tab[t].st = "sent" /\ tab'[t].st = "replied" /\ SignedIn(t)) =>
             LET q == tab[t].req
             IN  /\ q.op = "unlike" => ~LikeLiked(likes', Me(t), q.id)
                 /\ (q.op = "like" /\ PostExists(posts, q.id)) => LikeLiked(likes', Me(t), q.id)
                 /\ (q.op = "connect" /\ AccountExists(accounts, q.id)) =>
                        ConnectionExists(connections', Me(t), q.id)]_vars

\* The site is the social network of module Social: retried and abandoned requests,
\* restarts and repeated likes do not show on any page, repeated connections only
\* as repetitions, each page is made for the member who asked for it and lists the
\* newest first, and whoever changes something asked to.
SocialView ==
    INSTANCE Social WITH
        Screens <- Tabs,
        members <- [i \in DOMAIN accounts |-> accounts[i].email],
        wall    <- posts,
        liked   <- DOMAIN likes,
        follows <- DOMAIN connections,
        now     <- clock,
        acting  <- [t \in Tabs |-> Me(t)],
        page    <- [t \in Tabs |-> tab[t].reply.view]

SocialSpec == SocialView!Spec

\* Every request gets its reply or sees its connection reset: no handler leaves
\* one waiting, whatever is in the file.
EveryRequestEnds ==
    \A t \in Tabs : tab[t].st \in {"sent", "abandoned"} ~> tab[t].st \in {"idle", "replied", "lost"}

---------------------------------------------------------------------------
(* What the repository says of the program and the code does not do. *)

\* dashboard.html:6, "Here's what your friends have been up to": as long as the
\* posts of the reader and of those they connected to fit on a page, the
\* dashboard shows them all.
DashboardShowsFriends ==
    [][\A t \in Tabs :
          (tab[t].req.op = "dashboard" /\ tab'[t].reply.status = 200 /\ tab[t].st = "sent") =>
             LET mine    == {b \in DOMAIN accounts : b = Me(t) \/ ConnectionExists(connections, Me(t), b)}
                 visible == {p \in DOMAIN posts : posts[p].author \in mine}
                 shown   == tab'[t].reply.view.shown
             IN  Cardinality(visible) <= PageSize =>
                     {shown[k].post : k \in DOMAIN shown} = visible]_vars

\* utility.h:67, "Suppose ASLR is enabled": that is all it takes for session ids
\* drawn at random, so that a cookie stands for the account that logged in.
SidsUnique ==
    \A i, j \in DOMAIN sessions :
        sessions[i].session = sessions[j].session => sessions[i].account = sessions[j].account
=============================================================================
