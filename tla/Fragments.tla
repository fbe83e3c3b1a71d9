------------------------------ MODULE Fragments ------------------------------
(***************************************************************************)
(* The pieces of pages that handlers write with snprintf into buffers of   *)
(* their own, and the times in them: src/handler/dashboard.c, profile.c,   *)
(* search.c, like.c, connect.c, static_handler.c.  Of a text only its      *)
(* length counts.                                                          *)
(***************************************************************************)
EXTENDS Integers

CONSTANTS
    NameLens,       \* lengths of names, of emails
    EmailLens,
    BodyLens,       \* of posts, as stored
    Numbers         \* of accounts and posts: values of an int

\* The largest int.
IntMax == 2147483647

ASSUME FragmentsAssumption ==
    /\ NameLens \subseteq 0..50 /\ EmailLens \subseteq 0..50     \* handler/signup.c
    /\ BodyLens \subseteq Nat
    /\ Numbers \subseteq 1..IntMax

VARIABLES
    piece,      \* which piece was written last
    length,     \* the length of what it is to say
    limit,      \* what snprintf was told of the buffer
    room        \* the buffer

pieceVars == <<piece, length, limit, room>>

\* %d of a number that is not negative.
Digits(n) ==
    IF n < 10 THEN 1 ELSE IF n < 100 THEN 2 ELSE IF n < 1000 THEN 3
    ELSE IF n < 10000 THEN 4 ELSE IF n < 100000 THEN 5 ELSE IF n < 1000000 THEN 6
    ELSE IF n < 10000000 THEN 7 ELSE IF n < 100000000 THEN 8
    ELSE IF n < 1000000000 THEN 9 ELSE 10

Snprintf(what, chars, size, buffer) ==
    piece' = what /\ length' = chars /\ limit' = size /\ room' = buffer

\* What is there in the end, without the terminator.
Printed == IF length < limit THEN length ELSE limit - 1

---------------------------------------------------------------------------
\* concat_posts of dashboard.c
DashboardEntry(name, body) ==
    Snprintf("dashboard_entry", 85 + name + body, body + name + 86, body + name + 87)

\* Mutant: the limit of the shorter one (PiecesPrinted).
UnlikeLinkTight(id) == Snprintf("unlike_link", 44 + Digits(id), 52, 128)

UnlikeLink(id) == Snprintf("unlike_link", 44 + Digits(id), 55, 128)

LikeLink(id) == Snprintf("like_link", 41 + Digits(id), 52, 128)

\* Mutant: no room for the terminator (PiecesPrinted).
ProfileEntryShort(body) == Snprintf("profile_entry", 53 + body, 54 + body, body + 53)

\* profile.c
ProfileEntry(body) == Snprintf("profile_entry", 53 + body, 54 + body, body + 55)

ProfileId(id) == Snprintf("profile_id", Digits(id), 10, 11)

Connected(name) == Snprintf("connected", 23 + name, 26 + name, 128)

NotConnected(name, id) == Snprintf("not_connected", 75 + name + Digits(id), 86 + name, 128)

\* search.c
SearchRow(id, name, email) ==
    Snprintf("search_row", 51 + Digits(id) + name + email, 62 + name + email, 128)

\* like.c and connect.c: "/profile/%d/"
RedirectTo(id) == Snprintf("redirect", 10 + Digits(id), 32, 32)

---------------------------------------------------------------------------
PieceInit == piece = "none" /\ length = 0 /\ limit = 1 /\ room = 1

PieceNext ==
    \/ \E n \in NameLens, b \in BodyLens : DashboardEntry(n, b)
    \/ \E id \in Numbers : UnlikeLink(id) \/ LikeLink(id) \/ ProfileId(id) \/ RedirectTo(id)
    \/ \E b \in BodyLens : ProfileEntry(b)
    \/ \E n \in NameLens : Connected(n)
    \/ \E n \in NameLens, id \in Numbers : NotConnected(n, id)
    \/ \E id \in Numbers, n \in NameLens, m \in EmailLens : SearchRow(id, n, m)

PieceSpec == PieceInit /\ [][PieceNext]_pieceVars

---------------------------------------------------------------------------
(* Properties *)

\* Whatever members are called, post, and however many there are, no piece of markup is
\* cut in its middle, but for the tenth digit of the profile's own number.
PiecesWhole == piece # "profile_id" => Printed = length

\* What goes into a buffer fits it with its terminator, but for the two that were made for
\* a name or an email that is shorter.
PiecesFit == piece \notin {"not_connected", "search_row"} => Printed + 1 <= room

\* snprintf of the handlers: pieces are whole and fit.
PiecesPrinted == PiecesWhole /\ PiecesFit
=============================================================================
