------------------------------- MODULE Social -------------------------------
(***************************************************************************)
(* What facebooc promises its members, with no tables, cookies, retries or *)
(* restarts: people join once per email; at a screen a member publishes,   *)
(* likes and unlikes posts, follows others, and reads pages.  Liking and   *)
(* following are sets, so doing them again changes nothing here.  A page   *)
(* lists the newest of what its reader may see, the newest first, and says *)
(* which of it the reader likes.  How often it lists a post is left open   *)
(* on a dashboard as soon as somebody follows the author, and is once      *)
(* everywhere else.                                                        *)
(***************************************************************************)
EXTENDS Integers, Sequences, FiniteSets

CONSTANTS Screens, Emails

VARIABLES members,              \* emails, in the order of joining
          wall,                 \* posts, in the order of publishing
          liked,                \* pairs <<member, post>>
          follows,              \* pairs <<member, member>>
          now,                  \* the time
          acting,               \* per screen: the member who asks something there
          page                  \* per screen: what it shows

vars == <<members, wall, liked, follows, now, acting, page>>

Nobody       == 0
NothingShown == [shown |-> << >>, connected |-> {}]

Member    == DOMAIN members
Published == DOMAIN wall
Entries   == [post : Published, liked : BOOLEAN]

Init == /\ members \in Seq(Emails)
        /\ \A i, j \in Member : members[i] = members[j] => i = j
        /\ \A p \in Published : wall[p].author \in Member
        /\ liked = {}
        /\ follows \subseteq Member \X Member
        /\ now = 0
        /\ acting = [s \in Screens |-> Nobody]
        /\ page = [s \in Screens |-> NothingShown]

\* Members leave their screens, several at once when the site goes down.
SomeLeave == \E gone \in SUBSET Screens :
                 acting' = [s \in Screens |-> IF s \in gone THEN Nobody ELSE acting[s]]

Join == /\ \E e \in Emails : /\ \A i \in Member : members[i] # e
                             /\ members' = Append(members, e)
        /\ SomeLeave
        /\ UNCHANGED <<wall, liked, follows, now, page>>

Publish(s) ==
    /\ acting[s] \in Member
    /\ wall' = Append(wall, [author |-> acting[s], createdAt |-> now])
    /\ SomeLeave
    /\ UNCHANGED <<members, liked, follows, now, page>>

Like(s) ==
    /\ acting[s] \in Member
    /\ \E p \in Published : liked' = liked \cup {<<acting[s], p>>}
    /\ SomeLeave
    /\ UNCHANGED <<members, wall, follows, now, page>>

Unlike(s) ==
    /\ acting[s] \in Member
    /\ \E p \in Published : liked' = liked \ {<<acting[s], p>>}
    /\ SomeLeave
    /\ UNCHANGED <<members, wall, follows, now, page>>

Follow(s) ==
    /\ acting[s] \in Member
    /\ \E b \in Member : follows' = follows \cup {<<acting[s], b>>}
    /\ SomeLeave
    /\ UNCHANGED <<members, wall, liked, now, page>>

---------------------------------------------------------------------------
(* Reading *)

\* The newest of the posts by these authors, at least one, as member a sees them.
Newest(authors, a, shown) ==
    LET visible == {p \in Published : wall[p].author \in authors}
        posts   == {shown[k].post : k \in DOMAIN shown}
    IN  /\ posts \subseteq visible
        /\ visible # {} => posts # {}
        /\ \A p \in posts, q \in visible :
               wall[q].createdAt > wall[p].createdAt => q \in posts
        /\ \A k \in DOMAIN shown : shown[k].liked = (<<a, shown[k].post>> \in liked)

\* The newest come first, and what is listed several times is listed in a row.
InOrder(shown) ==
    \A j, k \in DOMAIN shown :
        j < k => /\ wall[shown[j].post].createdAt >= wall[shown[k].post].createdAt
                 /\ shown[j].post = shown[k].post =>
                        \A i \in j..k : shown[i].post = shown[j].post

\* Only these posts are listed several times.
OnceExcept(repeated, shown) ==
    \A j, k \in DOMAIN shown :
        j # k /\ shown[j].post = shown[k].post => shown[j].post \in repeated

Show(s, shown, connected) ==
    /\ page' = [page EXCEPT ![s] = [shown |-> shown, connected |-> connected]]
    /\ UNCHANGED <<members, wall, liked, follows, now, acting>>

\* A member's dashboard: their own posts and those of the people they follow.  A
\* post whose author somebody follows may be there more than once.
ReadOwn(s) ==
    LET a        == acting[s]
        shown    == page'[s].shown
        followed == {p \in Published : \E b \in Member : <<b, wall[p].author>> \in follows}
    IN  /\ a \in Member
        /\ shown \in Seq(Entries)
        /\ Newest({a} \cup {b \in Member : <<a, b>> \in follows}, a, shown)
        /\ InOrder(shown)
        /\ OnceExcept(followed, shown)
        /\ Show(s, shown, {})

\* The profile of another member, and whether the reader follows them.
ReadOther(s) ==
    LET a     == acting[s]
        shown == page'[s].shown
    IN  /\ a \in Member
        /\ shown \in Seq(Entries)
        /\ InOrder(shown)
        /\ OnceExcept({}, shown)
        /\ \E b \in Member \ {a} :
              /\ Newest({b}, a, shown)
              /\ Show(s, shown, {c \in {b} : <<a, c>> \in follows})

---------------------------------------------------------------------------
(* Coming and going *)

Ask(s) == /\ page[s] = NothingShown
          /\ \E a \in Member \cup {Nobody} : acting' = [acting EXCEPT ![s] = a]
          /\ UNCHANGED <<members, wall, liked, follows, now, page>>

Leave(s) == /\ page' = [page EXCEPT ![s] = NothingShown]
            /\ acting' = [acting EXCEPT ![s] = Nobody]
            /\ UNCHANGED <<members, wall, liked, follows, now>>

Disperse == SomeLeave /\ UNCHANGED <<members, wall, liked, follows, now, page>>

TimePasses == now' = now + 1 /\ UNCHANGED <<members, wall, liked, follows, acting, page>>

Next == \/ Join \/ Disperse \/ TimePasses
        \/ \E s \in Screens : \/ Publish(s) \/ Like(s) \/ Unlike(s) \/ Follow(s)
                              \/ ReadOwn(s) \/ ReadOther(s) \/ Ask(s) \/ Leave(s)

Spec == Init /\ [][Next]_vars
=============================================================================
