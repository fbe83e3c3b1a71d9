------------------------------ MODULE ReplyProps ------------------------------
(***************************************************************************)
(* The reply that arrives is the one that was put together, and memory is  *)
(* looked after on the way.                                                *)
(***************************************************************************)
EXTENDS Reply

HeldByHeader(b) == \E i \in DOMAIN headers : b = headers[i].key \/ b = headers[i].value
HeldByCookie(b) == cookie # None /\ b \in CookieBlocks(cookie)

HeadersApart ==
    /\ \A i, j \in DOMAIN headers : headers[i].key # headers[j].value
    /\ \A i, j \in DOMAIN headers :
           headers[i].key = headers[j].key \/ headers[i].value = headers[j].value => i = j

AttributesApart ==
    cookie # None =>
        /\ cookie.key # cookie.value
        /\ \A a \in Attributes : cookie.attr[a] \notin {cookie.key, cookie.value}
        /\ \A a, b \in Attributes :
               cookie.attr[a] = cookie.attr[b] => a = b \/ cookie.attr[a] = NoBlock

\* Each string on the heap has one owner, a header, the cookie or the body, is not freed
\* under it, and none is forgotten: whatever is copied, moved, set again or deleted, in
\* any order, also over several replies.
OneOwner ==
    /\ \A b \in Blocks : b \in live <=> HeldByHeader(b) \/ HeldByCookie(b) \/ b = body
    /\ \A b \in Blocks : /\ ~(HeldByHeader(b) /\ HeldByCookie(b))
                         /\ ~(HeldByHeader(b) /\ b = body)
                         /\ ~(HeldByCookie(b) /\ b = body)
    /\ HeadersApart
    /\ AttributesApart

\* Every header would fit the buffer that header_to_string began with.
Short == \A i \in DOMAIN headers : EntryLen(headers[i]) <= InitialSize

\* header_to_string writes inside its buffer, terminator and all, whatever the replies
\* before have left RESP_SIZE at: doubling once is enough if each header is short.
WritesInside == pc = "list" /\ Short /\ listed > 0 => Len(sbuf) + 1 <= capacity

---------------------------------------------------------------------------
(* What a browser reads *)

At(s, c) == CHOOSE i \in 1..(Len(s) + 1) : /\ i = Len(s) + 1 \/ s[i] = c
                                          /\ \A j \in 1..(i - 1) : s[j] # c

Before(s, c) == SubSeq(s, 1, At(s, c) - 1)
After(s, c)  == SubSeq(s, At(s, c) + 1, Len(s))

Marks == {"; Expires=", "; Max-Age=", "; Domain=", "; Path=", "; Secure", "; HttpOnly"}

\* The text behind a mark, up to the next.
Marked(s, m) ==
    LET t == After(s, m)
        n == CHOOSE n \in 0..Len(t) : /\ n = Len(t) \/ t[n + 1] \in Marks
                                      /\ \A i \in 1..n : t[i] \notin Marks
    IN  IF At(s, m) > Len(s) THEN None ELSE SubSeq(t, 1, n)

MarkOf(a) == CASE a = "Expires" -> "; Expires=" [] a = "Max-Age"  -> "; Max-Age="
               [] a = "Domain"  -> "; Domain="  [] a = "Path"     -> "; Path="
               [] a = "Secure"  -> "; Secure"   [] a = "HttpOnly" -> "; HttpOnly"

CookieRead(t) == [name |-> Before(t, "="), text |-> Marked(t, "="),
                  attr |-> [a \in Attributes |-> Marked(t, MarkOf(a))]]

FieldRead(line) ==
    LET n == Before(line, ": ")
        t == After(line, ": ")
    IN  [name |-> n, text |-> IF n = <<"Set-Cookie">> THEN CookieRead(t) ELSE t]

\* Where the lines of what arrives end.
Ends(w) ==
    LET upTo[n \in 0..Len(w)] == IF n = 0 THEN << >>
                                 ELSE IF w[n] = "CRLF" THEN Append(upTo[n - 1], n)
                                 ELSE upTo[n - 1]
    IN  upTo[Len(w)]

\* The head ends before the first line that is empty.
HeadEnd(ends) == CHOOSE n \in 1..(Len(ends) - 1) : /\ ends[n + 1] = ends[n] + 1
                                                   /\ \A k \in 1..(n - 1) : ends[k + 1] # ends[k] + 1

Read(w) ==
    LET ends == Ends(w)
        last == HeadEnd(ends)
    IN  [status |-> w[2],
         fields |-> [n \in 1..(last - 1) |-> FieldRead(SubSeq(w, ends[n] + 1, ends[n + 1] - 1))],
         body   |-> SubSeq(w, ends[last + 1] + 1, Len(w))]

---------------------------------------------------------------------------
(* The reply implements the message *)

Attr(c) == [a \in Attributes |-> IF c.attr[a] = NoBlock THEN None ELSE Tail(heap[c.attr[a]])]

Jar == IF cookie = None THEN None
       ELSE [name |-> heap[cookie.key], text |-> heap[cookie.value], attr |-> Attr(cookie)]

FieldSet(h) == [name |-> heap[h.key],
                text |-> IF heap[h.key] = <<"Set-Cookie">> THEN CookieRead(heap[h.value])
                                                          ELSE heap[h.value]]

FieldsSet == [i \in DOMAIN headers |-> FieldSet(headers[i])]
BodySet   == IF body = NoBlock THEN << >> ELSE heap[body]
Arrived   == IF pc = "sent" THEN Read(wire) ELSE None

Meant == INSTANCE Message WITH
             fields <- FieldsSet, jar <- Jar, body <- BodySet, arrived <- Arrived

\* What a browser reads off the wire is the message that the handler meant: its status,
\* its headers in order, each cookie as it was when it was added, and the body.
ArrivesAsSet == Meant!Spec
=============================================================================
