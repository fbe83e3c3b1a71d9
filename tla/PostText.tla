------------------------------- MODULE PostText -------------------------------
(***************************************************************************)
(* The way of a post's text to a page: handler/post.c, html_escape_trans   *)
(* before it is stored, newline_to_br after it was read again.  Both of    *)
(* them count, allocate, and write into what they allocated.  Text is a    *)
(* sequence of characters.                                                 *)
(***************************************************************************)
EXTENDS Integers, Sequences, FiniteSets

CONSTANTS
    Chars,          \* that a member may enter
    MaxText,        \* bound on what is entered
    MAX_BODY_LEN    \* 65536 in the code

ASSUME PostTextAssumption == MaxText \in Nat /\ MAX_BODY_LEN \in Nat

VARIABLES
    entered,    \* what the member entered
    pass,       \* "escape" or "breaks": the function that runs
    phase,      \* "post", "count", "write", "stored", "shown" or "refused"
    body, size, \* of the Basic_string
    at,         \* of the loops
    counter,    \* how many characters are to be replaced
    capacity,   \* of new_buf
    buf         \* what is written into it

postVars == <<entered, pass, phase, body, size, at, counter, capacity, buf>>

---------------------------------------------------------------------------
(* The tables *)

\* Mutant: the apostrophe is not counted (InBounds).
CountedShort == IF pass = "escape" THEN {"\"", "&", "<", ">"} ELSE {"\n"}

\* escape_key, and the newline: what the first loop counts ...
Counted == IF pass = "escape" THEN {"\"", "'", "&", "<", ">"} ELSE {"\n"}

\* escape_map
Escape(c) ==
    CASE c = "\"" -> <<"&", "#", "3", "4", ";">> [] c = "'" -> <<"&", "#", "3", "9", ";">>
      [] c = "&"  -> <<"&", "#", "3", "8", ";">> [] c = "<" -> <<"&", "#", "6", "0", ";">>
      [] c = ">"  -> <<"&", "#", "6", "2", ";">> [] OTHER -> <<c>>

\* Mutant: the two tables are not in the same order (ShownAsEntered).
WrittenSwapped(c) ==
    IF pass = "escape" THEN Escape(CASE c = "<" -> ">" [] c = ">" -> "<" [] OTHER -> c)
    ELSE IF c = "\n" THEN <<"<", "b", "r", ">">> ELSE <<c>>

\* ... and what the second one writes.
Written(c) == IF pass = "escape" THEN Escape(c)
              ELSE IF c = "\n" THEN <<"<", "b", "r", ">">> ELSE <<c>>

\* How much longer a replacement is.
More == IF pass = "escape" THEN 4 ELSE 3

---------------------------------------------------------------------------
\* handler/post.c: nothing is stored of an empty text, or of one that is too long.
Post ==
    /\ phase = "post"
    /\ phase' = IF entered = << >> \/ Len(entered) >= MAX_BODY_LEN THEN "refused" ELSE "count"
    /\ UNCHANGED <<entered, pass, body, size, at, counter, capacity, buf>>

Count ==
    /\ phase = "count" /\ at < size
    /\ at' = at + 1
    /\ counter' = IF body[at + 1] \in Counted THEN counter + 1 ELSE counter
    /\ UNCHANGED <<entered, pass, phase, body, size, capacity, buf>>

Done == IF pass = "escape" THEN "stored" ELSE "shown"

\* Nothing is replaced, and the text stays.
Keep ==
    /\ phase = "count" /\ at = size /\ counter = 0
    /\ phase' = Done
    /\ UNCHANGED <<entered, pass, body, size, at, counter, capacity, buf>>

Allocate ==
    /\ phase = "count" /\ at = size /\ counter > 0
    /\ phase' = "write" /\ at' = 0
    /\ capacity' = size + More * counter + 1 /\ buf' = << >>
    /\ UNCHANGED <<entered, pass, body, size, counter>>

Write ==
    /\ phase = "write" /\ at < size
    /\ at' = at + 1
    /\ buf' = buf \o Written(body[at + 1])
    /\ UNCHANGED <<entered, pass, phase, body, size, counter, capacity>>

\* The terminator goes behind the size that was computed.
Replace ==
    /\ phase = "write" /\ at = size
    /\ phase' = Done
    /\ body' = buf /\ size' = size + More * counter
    /\ UNCHANGED <<entered, pass, at, counter, capacity, buf>>

\* Stored and read again: postCreate_move, and postGetById or postGetLatest.
Read ==
    /\ phase = "stored"
    /\ pass' = "breaks" /\ phase' = "count" /\ at' = 0 /\ counter' = 0
    /\ UNCHANGED <<entered, body, size, capacity, buf>>

---------------------------------------------------------------------------
Texts == UNION {[1..n -> Chars] : n \in 0..MaxText}

PostInit ==
    /\ entered \in Texts
    /\ pass = "escape" /\ phase = "post" /\ body = entered /\ size = Len(entered)
    /\ at = 0 /\ counter = 0 /\ capacity = 0 /\ buf = << >>

PostNext == Post \/ Count \/ Keep \/ Allocate \/ Write \/ Replace \/ Read

PostSpec == PostInit /\ [][PostNext]_postVars

---------------------------------------------------------------------------
(* Properties *)

\* The second loop writes what the first one counted, no more and no less: it stays inside
\* the buffer, there is room for the terminator, and the size is that of the text.
InBounds ==
    /\ phase = "write" => Len(buf) < capacity
    /\ size = Len(body)
    /\ phase = "write" /\ at = size => Len(buf) + 1 = capacity

\* What stands for a character on the page.
OnPage(c) == IF c = "\n" THEN <<"<", "b", "r", ">">> ELSE Escape(c)

\* Where the n-th character of what was entered begins on the page.
Begin[n \in 1..(MaxText + 1)] == IF n = 1 THEN 0 ELSE Begin[n - 1] + Len(OnPage(entered[n - 1]))

\* A page shows what the member entered, character by character and nothing else: each
\* special character as its entity, each line end as a break, so no text becomes markup,
\* and what the first pass wrote is not replaced by the second.
ShownAsEntered ==
    phase = "shown" =>
        /\ Len(body) = Begin[Len(entered) + 1]
        /\ \A n \in DOMAIN entered :
               SubSeq(body, Begin[n] + 1, Begin[n + 1]) = OnPage(entered[n])
=============================================================================
