-------------------------------- MODULE Reply --------------------------------
(***************************************************************************)
(* A reply from responseNew to responseDel: src/response.c, the list of    *)
(* headers (src/http/header.c) and the cookie that a handler sets          *)
(* (src/http/cookies.c), with the strings that they own on the heap.  Text *)
(* is a sequence of tokens; ": ", "=", "CRLF" and the beginnings of cookie *)
(* attributes are tokens.                                                  *)
(***************************************************************************)
EXTENDS Integers, Sequences

CONSTANTS
    Tokens,                           \* what text is made of
    Statuses, Names, Texts, Bodies,   \* what handlers pass
    Attributes,                       \* of Cookie_set_attr
    None,
    InitialSize,                      \* of RESP_SIZE, 2048
    MaxBlocks, MaxCalls, MaxReplies   \* bounds: strings, calls for a reply that allocate, replies

ASSUME ReplyAssumption ==
    /\ {": ", "=", "CRLF", "/", "Set-Cookie", "; Expires=", "; Max-Age=", "; Domain=",
        "; Path=", "; ", "; Secure", "; HttpOnly", "freed"} \subseteq Tokens
    /\ Names \cup Texts \cup Bodies \subseteq Seq(Tokens)
    /\ Attributes \subseteq {"Expires", "Max-Age", "Domain", "Path", "Secure", "HttpOnly"}
    /\ InitialSize \in Nat \ {0}
    /\ MaxBlocks \in Nat /\ MaxCalls \in Nat /\ MaxReplies \in Nat

Blocks  == 1..MaxBlocks
NoBlock == 0

Cookie == [key : Blocks, value : Blocks, attr : [Attributes -> Blocks \cup {NoBlock}]]

ASSUME NoneAssumption == None \notin Cookie

VARIABLES
    heap, live,     \* the text in each block, and the blocks that are allocated
    status, headers, body,
    cookie,         \* of the handler
    RESP_SIZE,      \* static: it stays from one reply to the next
    sbuf, capacity, \* of header_to_string: what is written, and how much is allocated
    listed,         \* how many headers are written
    wire,           \* what is sent
    pc, calls, replies

store == <<heap, live>>
reply == <<status, headers, body>>
out   == <<RESP_SIZE, sbuf, capacity, listed, wire>>
vars  == <<store, reply, cookie, out, pc, calls, replies>>

---------------------------------------------------------------------------
(* malloc and free *)

\* malloc hands out a block that is not in use.
New(used) == CHOOSE b \in Blocks \ used : TRUE
Room(used) == Blocks \ used # {}

Freed(dead) == [b \in Blocks |-> IF b \in dead THEN <<"freed">> ELSE heap[b]]

\* One string, after what dead holds is freed, at New(live \ dead).
Put(text, dead) ==
    /\ Room(live \ dead)
    /\ heap' = [Freed(dead) EXCEPT ![New(live \ dead)] = text]
    /\ live' = (live \ dead) \cup {New(live \ dead)}

First  == New(live)
Second == New(live \cup {First})

\* A pair of strings.
PutPair(key, value) ==
    /\ Room(live) /\ Room(live \cup {First})
    /\ heap' = [heap EXCEPT ![First] = key, ![Second] = value]
    /\ live' = live \cup {First, Second}

Free(dead) == heap' = Freed(dead) /\ live' = live \ dead

\* The handler makes a call.
Handling == pc = "handler"
Call     == Handling /\ calls < MaxCalls /\ calls' = calls + 1

---------------------------------------------------------------------------
(* The handler: responses *)

ResponseSetStatus ==
    /\ Handling
    /\ \E s \in Statuses : status' = s
    /\ UNCHANGED <<store, calls, headers, body, cookie, out, pc, replies>>

\* header_insert copies the pair: those of handlers are on the stack.
ResponseAddHeader ==
    /\ Call
    /\ \E n \in Names, t \in Texts : PutPair(n, t)
    /\ headers' = Append(headers, [key |-> First, value |-> Second])
    /\ UNCHANGED <<status, body, cookie, out, pc, replies>>

\* The old body is freed, the new one is copied; there is no NUL in it here.
ResponseSetBody ==
    /\ Call
    /\ \E b \in Bodies : Put(b, {body})
    /\ body' = New(live \ {body})
    /\ UNCHANGED <<status, headers, cookie, out, pc, replies>>

\* The new one is there before the old one is freed, and is taken as it is.
ResponseSetBodyMove ==
    /\ Call /\ Room(live)
    /\ \E b \in Bodies : heap' = [Freed({body}) EXCEPT ![First] = b]
    /\ live' = (live \ {body}) \cup {First}
    /\ body' = First
    /\ UNCHANGED <<status, headers, cookie, out, pc, replies>>

---------------------------------------------------------------------------
(* The handler: a cookie *)

CookieInit ==
    /\ Call /\ cookie = None
    /\ \E n \in Names, t \in Texts : PutPair(n, t)
    /\ cookie' = [key |-> First, value |-> Second, attr |-> [a \in Attributes |-> NoBlock]]
    /\ UNCHANGED <<reply, out, pc, replies>>

\* c_av_fmt_str
Mark(a) == CASE a = "Expires" -> "; Expires=" [] a = "Max-Age" -> "; Max-Age="
             [] a = "Domain"  -> "; Domain="  [] a = "Path"    -> "; Path="
             [] a \in {"Secure", "HttpOnly"} -> "; "

\* Mutant: the attribute that was there is not freed (OneOwner).
CookieSetAttrKeeps ==
    /\ Call /\ cookie # None
    /\ \E a \in Attributes, t \in Texts \ {<< >>} :
           /\ Put(<<Mark(a)>> \o t, {})
           /\ cookie' = [cookie EXCEPT !.attr[a] = First]
    /\ UNCHANGED <<reply, out, pc, replies>>

\* An empty value changes nothing.
CookieSetAttr ==
    /\ Call /\ cookie # None
    /\ \E a \in Attributes, t \in Texts \ {<< >>} :
           /\ Put(<<Mark(a)>> \o t, {cookie.attr[a]})
           /\ cookie' = [cookie EXCEPT !.attr[a] = New(live \ {cookie.attr[a]})]
    /\ UNCHANGED <<reply, out, pc, replies>>

\* An attribute as it goes into the string, and what stands in for one that is not set.
Attribute(a) ==
    IF a \notin Attributes \/ cookie.attr[a] = NoBlock
    THEN IF a = "Path" THEN <<"; Path=", "/">> ELSE << >>
    ELSE IF a = "Secure" THEN <<"; Secure">>
    ELSE IF a = "HttpOnly" THEN <<"; HttpOnly">>
    ELSE heap[cookie.attr[a]]

CookieToString ==
    heap[cookie.key] \o <<"=">> \o heap[cookie.value]
        \o Attribute("Expires") \o Attribute("Max-Age") \o Attribute("Domain")
        \o Attribute("Path") \o Attribute("Secure") \o Attribute("HttpOnly")

\* Mutant: the header takes the cookie's value itself and not a copy (ArrivesAsSet).
ResponseAddCookieShares ==
    /\ Call /\ cookie # None
    /\ PutPair(<<"Set-Cookie">>, CookieToString)
    /\ headers' = Append(headers, [key |-> First, value |-> cookie.value])
    /\ UNCHANGED <<status, body, cookie, out, pc, replies>>

\* A pair of its own, moved into the list.
ResponseAddCookie ==
    /\ Call /\ cookie # None
    /\ PutPair(<<"Set-Cookie">>, CookieToString)
    /\ headers' = Append(headers, [key |-> First, value |-> Second])
    /\ UNCHANGED <<status, body, cookie, out, pc, replies>>

CookieBlocks(c) == {c.key, c.value} \cup {c.attr[a] : a \in Attributes}

CookieDelete ==
    /\ Handling /\ cookie # None
    /\ Free(CookieBlocks(cookie))
    /\ cookie' = None
    /\ UNCHANGED <<reply, out, pc, calls, replies>>

---------------------------------------------------------------------------
(* responseWrite *)

\* The status line; header_to_string makes nothing of an empty list.
SendStatus ==
    /\ Handling /\ cookie = None
    /\ wire' = <<"HTTP/1.0", status, "CRLF">>
    /\ capacity' = IF headers = << >> THEN 0 ELSE RESP_SIZE
    /\ pc' = IF headers = << >> THEN "separate" ELSE "list"
    /\ UNCHANGED <<store, reply, cookie, RESP_SIZE, sbuf, listed, calls, replies>>

Entry(h) == heap[h.key] \o <<": ">> \o heap[h.value] \o <<"CRLF">>

\* With the terminator.
EntryLen(h) == Len(Entry(h)) + 1

\* Mutant: the terminator is left out of account (WritesInside).
TightJust(h) == EntryLen(h) + Len(sbuf) > RESP_SIZE + 1

Tight(h) == EntryLen(h) + Len(sbuf) > RESP_SIZE

\* The buffer is doubled, once, when an entry does not fit.
ListEntry ==
    LET h == headers[listed + 1]
    IN  /\ pc = "list" /\ listed < Len(headers)
        /\ IF Tight(h) THEN RESP_SIZE' = 2 * RESP_SIZE /\ capacity' = RESP_SIZE'
                       ELSE UNCHANGED <<RESP_SIZE, capacity>>
        /\ sbuf' = sbuf \o Entry(h) /\ listed' = listed + 1
        /\ UNCHANGED <<store, reply, cookie, wire, pc, calls, replies>>

SendHeaders ==
    /\ pc = "list" /\ listed = Len(headers)
    /\ wire' = wire \o sbuf
    /\ sbuf' = << >> /\ capacity' = 0 /\ listed' = 0 /\ pc' = "separate"
    /\ UNCHANGED <<store, reply, cookie, RESP_SIZE, calls, replies>>

\* A redirect has no body.
SendBody ==
    /\ pc = "separate"
    /\ wire' = wire \o <<"CRLF">> \o (IF body = NoBlock THEN << >> ELSE heap[body])
    /\ pc' = "sent"
    /\ UNCHANGED <<store, reply, cookie, RESP_SIZE, sbuf, capacity, listed, calls, replies>>

\* responseDel, and responseNew for the next request.
ResponseDel ==
    /\ pc = "sent" /\ replies < MaxReplies
    /\ Free({body} \cup {headers[i].key : i \in DOMAIN headers}
                   \cup {headers[i].value : i \in DOMAIN headers})
    /\ status' = "OK" /\ headers' = << >> /\ body' = NoBlock
    /\ wire' = << >> /\ pc' = "handler" /\ calls' = 0 /\ replies' = replies + 1
    /\ UNCHANGED <<cookie, RESP_SIZE, sbuf, capacity, listed>>

---------------------------------------------------------------------------
Init ==
    /\ heap = [b \in Blocks |-> <<"freed">>] /\ live = {}
    /\ status = "OK" /\ headers = << >> /\ body = NoBlock /\ cookie = None
    /\ RESP_SIZE = InitialSize /\ sbuf = << >> /\ capacity = 0 /\ listed = 0
    /\ wire = << >> /\ pc = "handler" /\ calls = 0 /\ replies = 0

Next ==
    \/ ResponseSetStatus \/ ResponseAddHeader \/ ResponseSetBody
    \/ ResponseSetBodyMove \/ CookieInit \/ CookieSetAttr \/ ResponseAddCookie \/ CookieDelete
    \/ SendStatus \/ ListEntry \/ SendHeaders \/ SendBody \/ ResponseDel

Spec == Init /\ [][Next]_vars
=============================================================================
