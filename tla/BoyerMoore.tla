------------------------------ MODULE BoyerMoore ------------------------------
(***************************************************************************)
(* find_first_of (utility.c): the search that finds the ends of lines,     *)
(* the colons of headers and the separators of cookies, one comparison to  *)
(* a step.  Places count from 0, as pointers do.                           *)
(***************************************************************************)
EXTENDS Integers, Sequences

CONSTANTS
    Alphabet,   \* the bytes of a text, without the terminator
    High,       \* those of 128 and more, which as a char are negative
    MaxLen,     \* bound on the length of a text
    Patterns,   \* what is looked for
    Stray       \* what may lie on the stack in front of badchar

\* The program looks for ASCII separators of one and two bytes; a char holds a place below 128.
ASSUME BoyerMooreAssumption ==
    /\ MaxLen \in Nat
    /\ Patterns \subseteq Seq(Alphabet \ High)
    /\ \A p \in Patterns : Len(p) < 128
    /\ Stray \subseteq -128..127

VARIABLES
    txt, pat,   \* str and delim
    search,         \* "start", "learn", "compare", "found" or "null": what was returned
    badchar,    \* by byte: for a high one the index is negative, and something else is read
    i,          \* of badCharHeuristic's loop
    s,          \* where the pattern is tried
    j,          \* the place of the pattern that is compared
    found       \* the place that was returned

findVars == <<txt, pat, search, badchar, i, s, j, found>>

n == Len(txt)
m == Len(pat)

At(t, k) == t[k + 1]

\* The pattern stands at place q.
Occurs(q) == q + m <= n /\ \A k \in 0..(m - 1) : At(txt, q + k) = At(pat, k)

---------------------------------------------------------------------------
\* An empty text, and the quick edge cases.
TooShort ==
    /\ search = "start" /\ (n = 0 \/ m = 0 \/ m > n)
    /\ search' = "null"
    /\ UNCHANGED <<txt, pat, badchar, i, s, j, found>>

\* strchr returns the first place of the byte.
Strchr ==
    /\ search = "start" /\ m = 1 /\ n > 0
    /\ \/ \E q \in 0..(n - 1) :
            /\ Occurs(q) /\ \A r \in 0..(q - 1) : ~ Occurs(r)
            /\ search' = "found" /\ found' = q
       \/ /\ \A q \in 0..(n - 1) : ~ Occurs(q)
          /\ search' = "null" /\ UNCHANGED found
    /\ UNCHANGED <<txt, pat, badchar, i, s, j>>

\* memset fills the array, not what lies in front of it.
Memset ==
    /\ search = "start" /\ 1 < m /\ m <= n
    /\ search' = "learn" /\ i' = 0
    /\ \E stray \in [High -> Stray] :
         badchar' = [c \in Alphabet |-> IF c \in High THEN stray[c] ELSE -1]
    /\ UNCHANGED <<txt, pat, s, j, found>>

\* Mutant: the first place of a byte is kept (FirstFound).
KeepFirst(c) == IF badchar[c] = -1 THEN i ELSE badchar[c]

\* What badCharHeuristic notes for byte c: its last place so far.
Note(c) == i

Learn ==
    /\ search = "learn" /\ i < m
    /\ badchar' = [badchar EXCEPT ![At(pat, i)] = Note(At(pat, i))]
    /\ i' = i + 1
    /\ UNCHANGED <<txt, pat, search, s, j, found>>

FirstTry ==
    /\ search = "learn" /\ i = m
    /\ search' = "compare" /\ s' = 0 /\ j' = m - 1
    /\ UNCHANGED <<txt, pat, badchar, i, found>>

Match ==
    /\ search = "compare" /\ j >= 0 /\ At(pat, j) = At(txt, s + j)
    /\ j' = j - 1
    /\ UNCHANGED <<txt, pat, search, badchar, i, s, found>>

\* The place in front of the match is returned: string_view_ctor adds one to it.
Found ==
    /\ search = "compare" /\ j < 0
    /\ search' = "found" /\ found' = s - 1
    /\ UNCHANGED <<txt, pat, badchar, i, s, j>>

\* Mutant: max(0, ...) (CallsReturn).
StepOrNone(c) == IF j - badchar[c] > 0 THEN j - badchar[c] ELSE 0

\* How far the pattern is moved when the text has byte c at its place j.
Step(c) == IF j - badchar[c] > 1 THEN j - badchar[c] ELSE 1

\* Mutant: the pattern is tried where it does not fit (ReadsInside).
TryTooFar(q) == q <= n

Try(q) == q <= n - m

Shift ==
    /\ search = "compare" /\ j >= 0 /\ At(pat, j) # At(txt, s + j)
    /\ s' = s + Step(At(txt, s + j))
    /\ IF Try(s') THEN j' = m - 1 /\ UNCHANGED search ELSE search' = "null" /\ UNCHANGED j
    /\ UNCHANGED <<txt, pat, badchar, i, found>>

---------------------------------------------------------------------------
FindInit ==
    /\ txt \in UNION {[1..k -> Alphabet] : k \in 0..MaxLen}
    /\ pat \in Patterns
    /\ search = "start" /\ badchar = [c \in Alphabet |-> -1]
    /\ i = 0 /\ s = 0 /\ j = 0 /\ found = 0

FindNext == TooShort \/ Strchr \/ Memset \/ Learn \/ FirstTry \/ Match \/ Found \/ Shift

FindSpec == FindInit /\ [][FindNext]_findVars

---------------------------------------------------------------------------
(* Properties *)

Ascii == \A k \in 1..n : txt[k] \notin High

\* Where the match is that the result stands for.
Place == IF m = 1 THEN found ELSE found + 1

\* What is found is there, whatever the text.  In an ASCII text it is the first one, and if
\* nothing is found there is none: the rule never moves the pattern past a match.
FirstFound ==
    /\ search = "found" => Occurs(Place) /\ 0 <= Place
    /\ search = "found" /\ Ascii => \A q \in 0..(Place - 1) : ~ Occurs(q)
    /\ search = "null" /\ Ascii /\ m > 0 => \A q \in 0..n : ~ Occurs(q)

\* Nothing is read behind the end of the text, though a high byte may move the pattern far.
ReadsInside == search = "compare" => s + m <= n /\ j < m

\* The pattern is still being moved: whatever the table says of a byte, it moves on.
Searching == search \notin {"found", "null"}
=============================================================================
