----------------------------- MODULE MCFacebooc -----------------------------
(***************************************************************************)
(* Instances of Facebooc for TLC.  Account 1 is ann and account 2 is bob.  *)
(***************************************************************************)
EXTENDS FaceboocProps, TLC

CONSTANT TabsPerBrowser

MCTabs == Browsers \X (1..TabsPerBrowser)

MCBrowserOf == [t \in Tabs |-> t[1]]

\* Or all tabs are one browser's, and it does not matter which is which.
OneBrowser  == [t \in Tabs |-> CHOOSE b \in Browsers : TRUE]
TabSymmetry == Permutations(Tabs)

Ann == [email |-> "ann@", username |-> "ann", password |-> "secret-a"]
Bob == [email |-> "bob@", username |-> "bob", password |-> "secret-b"]

AnnSid == [i \in 1..SidLength |-> TableSize - 1]
BobSid == [AnnSid EXCEPT ![1] = 0]

Empty == [pair \in {} |-> 0]

\* A new file.
SeedNothing == [accounts |-> << >>, sessions |-> << >>, posts |-> << >>,
                connections |-> Empty, jar |-> [b \in Browsers |-> NoSid]]

\* Accounts, nobody signed in.
SeedAnn    == [SeedNothing EXCEPT !.accounts = <<Ann>>]
SeedAnnBob == [SeedNothing EXCEPT !.accounts = <<Ann, Bob>>]

\* Two members signed in, each in a browser named after them; ann has posted.
SeedMembers ==
    [accounts    |-> <<Ann, Bob>>,
     sessions    |-> <<[account |-> 1, session |-> AnnSid],
                       [account |-> 2, session |-> BobSid]>>,
     posts       |-> <<[author |-> 1, createdAt |-> 0]>>,
     connections |-> Empty,
     jar         |-> [b \in Browsers |-> IF b = "ann" THEN AnnSid ELSE BobSid]]

\* As SeedMembers, with a full page by ann when PageSize is 2.
SeedWall == [SeedMembers EXCEPT !.posts = <<@[1], @[1]>>]

\* As SeedMembers, but bob has no cookie, and no account either.
SeedOneSignedIn ==
    [SeedMembers EXCEPT !.accounts = <<Ann>>, !.sessions = <<@[1]>>,
                        !.jar = [b \in Browsers |-> IF b = "ann" THEN AnnSid ELSE NoSid]]

\* As SeedMembers, with a third member who has posted too, a little after ann.
SeedTwoAuthors ==
    [SeedMembers EXCEPT !.accounts = Append(@, [Bob EXCEPT !.email = "cat@", !.username = "cat"]),
                        !.posts    = Append(@, [author |-> 3, createdAt |-> 0])]
=============================================================================
