----------------------------- MODULE ReplyProofs -----------------------------
(***************************************************************************)
(* Proofs about replies: strings have one owner, header_to_string stays    *)
(* inside its buffer, and what a browser reads off the wire is the message *)
(* that the handler meant, for every set of texts and any heap.            *)
(***************************************************************************)
EXTENDS ReplyProps, LeastNumber

Pair == [key : Blocks, value : Blocks]

TypeInv ==
    /\ heap \in [Blocks -> Seq(Tokens)]
    /\ live \in SUBSET Blocks
    /\ headers \in Seq(Pair)
    /\ body \in Blocks \cup {NoBlock}
    /\ cookie \in {None} \cup Cookie
    /\ pc # "handler" => cookie = None

\* What the buffer of header_to_string is at every moment.
BufferInv ==
    /\ RESP_SIZE \in Nat /\ InitialSize <= RESP_SIZE
    /\ sbuf \in Seq(Tokens) /\ listed \in Nat
    /\ pc # "list" => sbuf = << >> /\ listed = 0
    /\ pc = "list" => capacity = RESP_SIZE
    /\ pc = "list" /\ Short => Len(sbuf) < RESP_SIZE

---------------------------------------------------------------------------
(* Blocks that malloc hands out *)

LEMMA OneToken ==
    ASSUME NEW S, NEW x \in S
    PROVE  <<x>> \in Seq(S)
OBVIOUS

LEMMA TwoTokens ==
    ASSUME NEW S, NEW x \in S, NEW y \in S
    PROVE  <<x, y>> \in Seq(S)
OBVIOUS

LEMMA NoBlockIsNone == NoBlock \notin Blocks
<1>1. MaxBlocks \in Nat
    BY ReplyAssumption
<1>. QED
    BY <1>1 DEF NoBlock, Blocks

LEMMA SomeSize == InitialSize \in Nat \ {0}
BY ReplyAssumption

LEMMA Appended ==
    ASSUME NEW S, NEW s \in Seq(S), NEW x \in S
    PROVE  /\ Append(s, x) \in Seq(S)
           /\ DOMAIN Append(s, x) = 1..(Len(s) + 1) /\ DOMAIN s = 1..Len(s) /\ Len(s) \in Nat
           /\ Append(s, x)[Len(s) + 1] = x
           /\ \A i \in DOMAIN s : Append(s, x)[i] = s[i] /\ s[i] \in S
OBVIOUS

LEMMA NewIsFree ==
    ASSUME NEW used, Room(used)
    PROVE  New(used) \in Blocks /\ New(used) \notin used
BY DEF Room, New

\* The strings that are made from strings are strings.
LEMMA CookieStringTyped ==
    ASSUME TypeInv, cookie # None
    PROVE  CookieToString \in Seq(Tokens)
<1>1. /\ heap[cookie.key] \in Seq(Tokens) /\ heap[cookie.value] \in Seq(Tokens)
      /\ \A a \in Attributes : cookie.attr[a] # NoBlock => heap[cookie.attr[a]] \in Seq(Tokens)
    BY DEF TypeInv, Cookie, NoBlock
<1>2. ASSUME NEW a \in {"Expires", "Max-Age", "Domain", "Path", "Secure", "HttpOnly"}
      PROVE  Attribute(a) \in Seq(Tokens)
    <2>0. {"; Path=", "/", "; Secure", "; HttpOnly"} \subseteq Tokens
        BY ReplyAssumption
    <2>1. /\ << >> \in Seq(Tokens) /\ <<"; Path=", "/">> \in Seq(Tokens)
          /\ <<"; Secure">> \in Seq(Tokens) /\ <<"; HttpOnly">> \in Seq(Tokens)
        <3>1. <<"; Path=", "/">> \in Seq(Tokens)
            BY <2>0, TwoTokens
        <3>2. <<"; Secure">> \in Seq(Tokens) /\ <<"; HttpOnly">> \in Seq(Tokens)
            BY <2>0, OneToken
        <3>3. << >> \in Seq(Tokens)
            OBVIOUS
        <3>. QED
            BY <3>1, <3>2, <3>3
    <2>2. CASE a \notin Attributes \/ cookie.attr[a] = NoBlock
        BY <2>1, <2>2 DEF Attribute
    <2>3. CASE ~(a \notin Attributes \/ cookie.attr[a] = NoBlock)
        <3>1. heap[cookie.attr[a]] \in Seq(Tokens)
            BY <1>1, <2>3
        <3>2. CASE a = "Secure"
            BY <2>1, <2>3, <3>2 DEF Attribute
        <3>3. CASE a = "HttpOnly"
            BY <2>1, <2>3, <3>3 DEF Attribute
        <3>4. CASE a # "Secure" /\ a # "HttpOnly"
            BY <2>3, <3>1, <3>4 DEF Attribute
        <3>. QED
            BY <3>2, <3>3, <3>4
    <2>. QED
        BY <2>2, <2>3
<1>3. <<"=">> \in Seq(Tokens)
    BY OneToken, ReplyAssumption
<1>. QED
    <2>. DEFINE s1 == heap[cookie.key] \o <<"=">> \o heap[cookie.value]
                s2 == s1 \o Attribute("Expires") \o Attribute("Max-Age")
                s3 == s2 \o Attribute("Domain") \o Attribute("Path")
    <2>1. s1 \in Seq(Tokens)
        BY <1>1, <1>3
    <2>2. s2 \in Seq(Tokens)
        <3>. HIDE DEF s1
        <3>. QED
            BY <1>2, <2>1
    <2>3. s3 \in Seq(Tokens)
        <3>. HIDE DEF s2
        <3>. QED
            BY <1>2, <2>2
    <2>4. CookieToString = s3 \o Attribute("Secure") \o Attribute("HttpOnly")
        BY DEF CookieToString
    <2>5. s3 \o Attribute("Secure") \o Attribute("HttpOnly") \in Seq(Tokens)
        <3>. HIDE DEF s3
        <3>. QED
            BY <1>2, <2>3
    <2>. QED
        BY <2>4, <2>5

LEMMA PairTyped ==
    ASSUME TypeInv, NEW k \in Seq(Tokens), NEW v \in Seq(Tokens), PutPair(k, v)
    PROVE  /\ heap' \in [Blocks -> Seq(Tokens)] /\ live' \in SUBSET Blocks
           /\ First \in Blocks \ live /\ Second \in Blocks \ live /\ First # Second
           /\ live' = live \cup {First, Second}
<1>1. First \in Blocks /\ First \notin live
    BY NewIsFree DEF PutPair, First
<1>2. Second \in Blocks /\ Second \notin live \cup {First}
    BY NewIsFree DEF PutPair, Second
<1>3. heap' = [[heap EXCEPT ![First] = k] EXCEPT ![Second] = v]
    BY DEF PutPair
<1>4. [heap EXCEPT ![First] = k] \in [Blocks -> Seq(Tokens)]
    BY DEF TypeInv
<1>5. heap' \in [Blocks -> Seq(Tokens)]
    BY <1>3, <1>4
<1>6. live' = live \cup {First, Second}
    BY DEF PutPair
<1>. QED
    BY <1>1, <1>2, <1>5, <1>6 DEF TypeInv

LEMMA PutTyped ==
    ASSUME TypeInv, NEW t \in Seq(Tokens), NEW dead, Put(t, dead)
    PROVE  /\ heap' \in [Blocks -> Seq(Tokens)] /\ live' \in SUBSET Blocks
           /\ New(live \ dead) \in Blocks \ (live \ dead)
           /\ live' = (live \ dead) \cup {New(live \ dead)}
<1>1. New(live \ dead) \in Blocks /\ New(live \ dead) \notin live \ dead
    BY NewIsFree DEF Put
<1>2. <<"freed">> \in Seq(Tokens)
    BY OneToken, ReplyAssumption
<1>3. Freed(dead) \in [Blocks -> Seq(Tokens)]
    BY <1>2 DEF Freed, TypeInv
<1>. QED
    BY <1>1, <1>3 DEF Put, TypeInv

---------------------------------------------------------------------------
(* Ownership *)

\* A pair that is added to the list owns its two strings.
LEMMA HeaderAdded ==
    ASSUME TypeInv, OneOwner, NEW k \in Seq(Tokens), NEW v \in Seq(Tokens), PutPair(k, v),
           headers' = Append(headers, [key |-> First, value |-> Second]),
           UNCHANGED <<body, cookie, pc>>
    PROVE  TypeInv' /\ OneOwner'
<1>1. /\ heap' \in [Blocks -> Seq(Tokens)] /\ live' \in SUBSET Blocks
      /\ First \in Blocks \ live /\ Second \in Blocks \ live /\ First # Second
      /\ live' = live \cup {First, Second}
    BY PairTyped
<1>. DEFINE h == [key |-> First, value |-> Second]
<1>2. h \in Pair /\ h.key = First /\ h.value = Second
    BY <1>1 DEF Pair
<1>3. /\ headers \in Seq(Pair) /\ headers' = Append(headers, h) /\ headers' \in Seq(Pair)
      /\ Len(headers) \in Nat
      /\ DOMAIN headers' = 1..(Len(headers) + 1) /\ DOMAIN headers = 1..Len(headers)
      /\ headers'[Len(headers) + 1] = h
      /\ \A i \in DOMAIN headers : headers'[i] = headers[i] /\ headers[i] \in Pair
    <2>1. headers \in Seq(Pair) /\ headers' = Append(headers, h)
        BY DEF TypeInv
    <2>. HIDE DEF h
    <2>. QED
        BY <1>2, <2>1, Appended
<1>. HIDE DEF h
<1>4. TypeInv'
    BY <1>1, <1>3 DEF TypeInv
<1>5. \A b : HeldByHeader(b)' <=> HeldByHeader(b) \/ b = First \/ b = Second
    <2>1. Len(headers) + 1 \in DOMAIN headers' /\ DOMAIN headers \subseteq DOMAIN headers'
        BY <1>3
    <2>2. \A i \in DOMAIN headers' : i \in DOMAIN headers \/ i = Len(headers) + 1
        BY <1>3
    <2>3. ASSUME NEW b
          PROVE  (\E i \in DOMAIN headers' : b = headers'[i].key \/ b = headers'[i].value)
                 <=> (\E i \in DOMAIN headers : b = headers[i].key \/ b = headers[i].value)
                     \/ b = First \/ b = Second
        BY <1>2, <1>3, <2>1, <2>2
    <2>. QED
        BY <2>3 DEF HeldByHeader
<1>6. \A b : HeldByCookie(b)' <=> HeldByCookie(b)
    BY DEF HeldByCookie, CookieBlocks
<1>7. /\ ~HeldByHeader(First) /\ ~HeldByHeader(Second)
      /\ ~HeldByCookie(First) /\ ~HeldByCookie(Second) /\ First # body /\ Second # body
    BY <1>1 DEF OneOwner
<1>8. HeadersApart'
    <2>1. \A i \in DOMAIN headers : /\ headers[i].key \notin {First, Second}
                                    /\ headers[i].value \notin {First, Second}
        BY <1>7 DEF HeldByHeader
    <2>2. HeadersApart
        BY DEF OneOwner
    <2>3. \A i \in DOMAIN headers' : i \in DOMAIN headers \/ i = Len(headers) + 1
        BY <1>3
    <2>4. ~(Len(headers) + 1 \in DOMAIN headers)
        BY <1>3
    <2>. QED
        BY <1>1, <1>2, <1>3, <2>1, <2>2, <2>3, <2>4 DEF HeadersApart
<1>9. AttributesApart'
    BY DEF AttributesApart, OneOwner
<1>10. \A b \in Blocks : b \in live' <=> (HeldByHeader(b)' \/ HeldByCookie(b)' \/ b = body')
    BY <1>1, <1>5, <1>6 DEF OneOwner
<1>11. \A b \in Blocks : /\ ~(HeldByHeader(b)' /\ HeldByCookie(b)')
                         /\ ~(HeldByHeader(b)' /\ b = body')
                         /\ ~(HeldByCookie(b)' /\ b = body')
    BY <1>5, <1>6, <1>7 DEF OneOwner
<1>. QED
    BY <1>4, <1>8, <1>9, <1>10, <1>11 DEF OneOwner

\* A block that takes the place of the old body owns nothing else.
LEMMA BodyChanged ==
    ASSUME TypeInv, OneOwner, NEW n \in Blocks, n \notin live \ {body},
           heap' \in [Blocks -> Seq(Tokens)],
           live' = (live \ {body}) \cup {n}, body' = n,
           UNCHANGED <<headers, cookie, pc>>
    PROVE  TypeInv' /\ OneOwner'
<1>1. TypeInv'
    BY DEF TypeInv
<1>2. \A b : HeldByHeader(b)' <=> HeldByHeader(b)
    BY DEF HeldByHeader
<1>3. \A b : HeldByCookie(b)' <=> HeldByCookie(b)
    BY DEF HeldByCookie, CookieBlocks
<1>4. HeadersApart' /\ AttributesApart'
    BY DEF OneOwner, HeadersApart, AttributesApart
<1>5. ~HeldByHeader(n) /\ ~HeldByCookie(n)
    BY DEF OneOwner
<1>. QED
    BY <1>1, <1>2, <1>3, <1>4, <1>5 DEF OneOwner

LEMMA CookieMade ==
    ASSUME TypeInv, OneOwner, CookieInit
    PROVE  TypeInv' /\ OneOwner'
<1>1. PICK n \in Names, t \in Texts : PutPair(n, t)
    BY DEF CookieInit
<1>2. /\ heap' \in [Blocks -> Seq(Tokens)] /\ live' \in SUBSET Blocks
      /\ First \in Blocks \ live /\ Second \in Blocks \ live /\ First # Second
      /\ live' = live \cup {First, Second}
    BY <1>1, PairTyped, ReplyAssumption
<1>3. /\ cookie' = [key |-> First, value |-> Second, attr |-> [a \in Attributes |-> NoBlock]]
      /\ cookie = None /\ UNCHANGED <<headers, body, pc>>
    BY DEF CookieInit, reply
<1>4. /\ cookie'.key = First /\ cookie'.value = Second
      /\ \A a \in Attributes : cookie'.attr[a] = NoBlock
      /\ cookie' \in Cookie /\ cookie' # None
    BY <1>2, <1>3, NoneAssumption DEF Cookie
<1>5. TypeInv'
    BY <1>2, <1>3, <1>4 DEF TypeInv, CookieInit, Call, Handling
<1>6. NoBlock \notin Blocks
    BY NoBlockIsNone
<1>7. \A b : HeldByHeader(b)' <=> HeldByHeader(b)
    BY <1>3 DEF HeldByHeader
<1>8. \A b \in Blocks : HeldByCookie(b)' <=> b = First \/ b = Second
    BY <1>4, <1>6 DEF HeldByCookie, CookieBlocks
<1>9. \A b : ~HeldByCookie(b)
    BY <1>3 DEF HeldByCookie
<1>10. HeadersApart'
    BY <1>3 DEF HeadersApart, OneOwner
<1>11. AttributesApart'
    BY <1>2, <1>4, <1>6 DEF AttributesApart
<1>12. \A b \in Blocks : b \in live' <=> (HeldByHeader(b)' \/ HeldByCookie(b)' \/ b = body')
    BY <1>2, <1>3, <1>7, <1>8, <1>9 DEF OneOwner
<1>13. ASSUME NEW b \in Blocks
       PROVE  /\ ~(HeldByHeader(b)' /\ HeldByCookie(b)')
              /\ ~(HeldByHeader(b)' /\ b = body')
              /\ ~(HeldByCookie(b)' /\ b = body')
    BY <1>2, <1>3, <1>7, <1>8 DEF OneOwner
<1>. QED
    BY <1>5, <1>10, <1>11, <1>12, <1>13 DEF OneOwner

LEMMA AttributeSet ==
    ASSUME TypeInv, OneOwner, CookieSetAttr
    PROVE  TypeInv' /\ OneOwner'
<1>1. PICK a \in Attributes, t \in Texts \ {<< >>} :
          /\ Put(<<Mark(a)>> \o t, {cookie.attr[a]})
          /\ cookie' = [cookie EXCEPT !.attr[a] = New(live \ {cookie.attr[a]})]
    BY DEF CookieSetAttr
<1>. DEFINE old == cookie.attr[a]
            new == New(live \ {cookie.attr[a]})
<1>2. <<Mark(a)>> \o t \in Seq(Tokens)
    <2>1. Mark(a) \in Tokens
        BY ReplyAssumption DEF Mark
    <2>2. <<Mark(a)>> \in Seq(Tokens)
        BY <2>1, OneToken
    <2>3. t \in Seq(Tokens)
        BY ReplyAssumption
    <2>. HIDE DEF Mark
    <2>. QED
        BY <2>2, <2>3
<1>3. /\ heap' \in [Blocks -> Seq(Tokens)] /\ live' \in SUBSET Blocks
      /\ new \in Blocks \ (live \ {old}) /\ live' = (live \ {old}) \cup {new}
    BY <1>1, <1>2, PutTyped
<1>4. /\ cookie # None /\ cookie \in Cookie /\ pc = "handler"
      /\ UNCHANGED <<headers, body, pc>>
    BY DEF CookieSetAttr, TypeInv, reply, Call, Handling
<1>5. /\ old \in Blocks \cup {NoBlock} /\ cookie.key \in Blocks /\ cookie.value \in Blocks
      /\ cookie.attr \in [Attributes -> Blocks \cup {NoBlock}]
    BY <1>4 DEF Cookie
<1>. HIDE DEF old, new
<1>6. cookie' = [cookie EXCEPT !.attr[a] = new]
    BY <1>1 DEF new
<1>7. /\ cookie'.key = cookie.key /\ cookie'.value = cookie.value
      /\ cookie'.attr[a] = new
      /\ \A b \in Attributes : b # a => cookie'.attr[b] = cookie.attr[b]
      /\ cookie' \in Cookie /\ cookie' # None
    <2>1. cookie = [key |-> cookie.key, value |-> cookie.value, attr |-> cookie.attr]
        BY <1>4 DEF Cookie
    <2>2. cookie' = [key |-> cookie.key, value |-> cookie.value,
                     attr |-> [cookie.attr EXCEPT ![a] = new]]
        BY <1>6, <2>1
    <2>3. [cookie.attr EXCEPT ![a] = new] \in [Attributes -> Blocks \cup {NoBlock}]
        BY <1>3, <1>5
    <2>4. cookie' \in Cookie
        BY <1>5, <2>2, <2>3 DEF Cookie
    <2>. QED
        BY <1>5, <2>2, <2>4, NoneAssumption
<1>8. TypeInv'
    BY <1>3, <1>4, <1>7 DEF TypeInv
<1>9. NoBlock \notin Blocks
    BY NoBlockIsNone
<1>10. AttributesApart /\ HeadersApart
    BY DEF OneOwner
<1>11. /\ old = cookie.attr[a]
       /\ \A b \in Attributes : b # a /\ cookie.attr[b] # NoBlock => cookie.attr[b] # old
       /\ cookie.key # old /\ cookie.value # old
    BY <1>4, <1>10 DEF AttributesApart, old
<1>12. \A b : HeldByHeader(b)' <=> HeldByHeader(b)
    BY <1>4 DEF HeldByHeader
<1>13. \A b \in Blocks : HeldByCookie(b)' <=> (HeldByCookie(b) /\ b # old) \/ b = new
    BY <1>4, <1>7, <1>9, <1>11 DEF HeldByCookie, CookieBlocks
<1>14. old \in Blocks => HeldByCookie(old)
    BY <1>4, <1>11 DEF HeldByCookie, CookieBlocks
<1>15. \A b \in Blocks : b \in live <=> HeldByHeader(b) \/ HeldByCookie(b) \/ b = body
    BY DEF OneOwner
<1>16. \A b \in Blocks : /\ ~(HeldByHeader(b) /\ HeldByCookie(b))
                         /\ ~(HeldByHeader(b) /\ b = body)
                         /\ ~(HeldByCookie(b) /\ b = body)
    BY DEF OneOwner
<1>17. new = old \/ new \notin live
    BY <1>3
<1>18. ~HeldByHeader(new) /\ new # body
    BY <1>3, <1>14, <1>15, <1>16, <1>17
<1>19. HeadersApart'
    BY <1>4, <1>10 DEF HeadersApart
<1>20. AttributesApart'
    <2>1. \A b \in Attributes : cookie.attr[b] \in Blocks => HeldByCookie(cookie.attr[b])
        BY <1>4 DEF HeldByCookie, CookieBlocks
    <2>2. HeldByCookie(cookie.key) /\ HeldByCookie(cookie.value)
        BY <1>4 DEF HeldByCookie, CookieBlocks
    <2>3. new # cookie.key /\ new # cookie.value
        BY <1>5, <1>11, <1>15, <1>17, <2>2
    <2>4. \A b \in Attributes : b # a => cookie.attr[b] # new
        BY <1>3, <1>5, <1>9, <1>11, <1>15, <1>17, <2>1
    <2>. QED
        BY <1>4, <1>7, <1>10, <2>3, <2>4 DEF AttributesApart
<1>21. \A b \in Blocks : b \in live' <=> (HeldByHeader(b)' \/ HeldByCookie(b)' \/ b = body')
    BY <1>3, <1>4, <1>12, <1>13, <1>14, <1>15, <1>16
<1>22. \A b \in Blocks : /\ ~(HeldByHeader(b)' /\ HeldByCookie(b)')
                         /\ ~(HeldByHeader(b)' /\ b = body')
                         /\ ~(HeldByCookie(b)' /\ b = body')
    BY <1>4, <1>12, <1>13, <1>16, <1>18
<1>. QED
    BY <1>8, <1>19, <1>20, <1>21, <1>22 DEF OneOwner

LEMMA FreeTyped ==
    ASSUME TypeInv, NEW dead, Free(dead)
    PROVE  heap' \in [Blocks -> Seq(Tokens)] /\ live' \in SUBSET Blocks /\ live' = live \ dead
<1>1. <<"freed">> \in Seq(Tokens)
    BY OneToken, ReplyAssumption
<1>. QED
    BY <1>1 DEF Free, Freed, TypeInv

LEMMA CookieDeleted ==
    ASSUME TypeInv, OneOwner, CookieDelete
    PROVE  TypeInv' /\ OneOwner'
<1>1. /\ heap' \in [Blocks -> Seq(Tokens)] /\ live' \in SUBSET Blocks
      /\ live' = live \ CookieBlocks(cookie)
    BY FreeTyped DEF CookieDelete
<1>2. cookie # None /\ cookie' = None /\ UNCHANGED <<headers, body, pc>>
    BY DEF CookieDelete, reply
<1>3. TypeInv'
    BY <1>1, <1>2 DEF TypeInv
<1>4. \A b : HeldByHeader(b)' <=> HeldByHeader(b)
    BY <1>2 DEF HeldByHeader
<1>5. \A b : ~HeldByCookie(b)'
    BY <1>2 DEF HeldByCookie
<1>6. \A b : HeldByCookie(b) <=> b \in CookieBlocks(cookie)
    BY <1>2 DEF HeldByCookie
<1>7. HeadersApart' /\ AttributesApart'
    BY <1>2 DEF OneOwner, HeadersApart, AttributesApart
<1>. QED
    BY <1>1, <1>2, <1>3, <1>4, <1>5, <1>6, <1>7 DEF OneOwner

LEMMA ReplyDeleted ==
    ASSUME TypeInv, OneOwner, ResponseDel
    PROVE  TypeInv' /\ OneOwner'
<1>. DEFINE dead == {body} \cup {headers[i].key : i \in DOMAIN headers}
                           \cup {headers[i].value : i \in DOMAIN headers}
<1>1. Free(dead)
    BY DEF ResponseDel
<1>2. \A b : b \in dead <=> b = body \/ HeldByHeader(b)
    BY DEF HeldByHeader
<1>. HIDE DEF dead
<1>3. /\ heap' \in [Blocks -> Seq(Tokens)] /\ live' \in SUBSET Blocks /\ live' = live \ dead
    BY <1>1, FreeTyped
<1>4. /\ headers' = << >> /\ body' = NoBlock /\ cookie = None /\ cookie' = None
      /\ pc' = "handler"
    BY DEF ResponseDel, TypeInv
<1>5. TypeInv'
    BY <1>3, <1>4 DEF TypeInv
<1>6. \A b : ~HeldByHeader(b)' /\ ~HeldByCookie(b)' /\ ~HeldByCookie(b)
    BY <1>4 DEF HeldByHeader, HeldByCookie
<1>7. HeadersApart' /\ AttributesApart'
    BY <1>4 DEF HeadersApart, AttributesApart
<1>8. \A b \in Blocks : b \notin live' /\ b # body'
    BY <1>2, <1>3, <1>4, <1>6, NoBlockIsNone DEF OneOwner
<1>. QED
    BY <1>5, <1>6, <1>7, <1>8 DEF OneOwner

---------------------------------------------------------------------------
(* The theorems *)

LEMMA InitOwner == Init => TypeInv /\ OneOwner
<1>1. <<"freed">> \in Seq(Tokens)
    BY OneToken, ReplyAssumption
<1>. QED
    BY <1>1, NoBlockIsNone DEF Init, TypeInv, OneOwner, HeldByHeader, HeldByCookie,
                               HeadersApart, AttributesApart

\* What does not touch the strings leaves their owners as they were.
LEMMA OwnersStay ==
    ASSUME TypeInv, OneOwner, UNCHANGED <<store, headers, body, cookie>>,
           pc' # "handler" => cookie = None
    PROVE  TypeInv' /\ OneOwner'
BY DEF TypeInv, OneOwner, HeldByHeader, HeldByCookie, CookieBlocks, HeadersApart,
       AttributesApart, store

LEMMA NextOwner == TypeInv /\ OneOwner /\ [Next]_vars => TypeInv' /\ OneOwner'
<1>. SUFFICES ASSUME TypeInv, OneOwner, [Next]_vars
              PROVE  TypeInv' /\ OneOwner'
    OBVIOUS
<1>1. CASE ResponseSetStatus
    BY <1>1, OwnersStay DEF ResponseSetStatus, Handling
<1>2. CASE ResponseAddHeader
    <2>1. PICK n \in Names, t \in Texts : PutPair(n, t)
        BY <1>2 DEF ResponseAddHeader
    <2>2. n \in Seq(Tokens) /\ t \in Seq(Tokens)
        BY ReplyAssumption
    <2>. QED
        BY <1>2, <2>1, <2>2, HeaderAdded DEF ResponseAddHeader
<1>3. CASE ResponseSetBody
    <2>1. PICK b \in Bodies : Put(b, {body})
        BY <1>3 DEF ResponseSetBody
    <2>2. b \in Seq(Tokens)
        BY ReplyAssumption
    <2>3. body' = New(live \ {body}) /\ UNCHANGED <<headers, cookie, pc>>
        BY <1>3 DEF ResponseSetBody
    <2>. QED
        BY <2>1, <2>2, <2>3, PutTyped, BodyChanged
<1>4. CASE ResponseSetBodyMove
    <2>1. PICK b \in Bodies : heap' = [Freed({body}) EXCEPT ![First] = b]
        BY <1>4 DEF ResponseSetBodyMove
    <2>2. First \in Blocks /\ First \notin live
        BY <1>4, NewIsFree DEF ResponseSetBodyMove, First
    <2>3. heap' \in [Blocks -> Seq(Tokens)]
        <3>1. <<"freed">> \in Seq(Tokens)
            BY OneToken, ReplyAssumption
        <3>2. b \in Seq(Tokens)
            BY ReplyAssumption
        <3>3. Freed({body}) \in [Blocks -> Seq(Tokens)]
            BY <3>1 DEF Freed, TypeInv
        <3>. QED
            BY <2>1, <2>2, <3>2, <3>3
    <2>4. /\ live' = (live \ {body}) \cup {First} /\ body' = First
          /\ UNCHANGED <<headers, cookie, pc>>
        BY <1>4 DEF ResponseSetBodyMove
    <2>. QED
        BY <2>2, <2>3, <2>4, BodyChanged
<1>5. CASE CookieInit
    BY <1>5, CookieMade
<1>6. CASE CookieSetAttr
    BY <1>6, AttributeSet
<1>7. CASE ResponseAddCookie
    <2>1. CookieToString \in Seq(Tokens)
        BY <1>7, CookieStringTyped DEF ResponseAddCookie
    <2>2. <<"Set-Cookie">> \in Seq(Tokens)
        BY OneToken, ReplyAssumption
    <2>. QED
        BY <1>7, <2>1, <2>2, HeaderAdded DEF ResponseAddCookie
<1>8. CASE CookieDelete
    BY <1>8, CookieDeleted
<1>9. CASE SendStatus
    BY <1>9, OwnersStay DEF SendStatus, reply
<1>10. CASE ListEntry
    BY <1>10, OwnersStay DEF ListEntry, reply, TypeInv
<1>11. CASE SendHeaders
    BY <1>11, OwnersStay DEF SendHeaders, reply, TypeInv
<1>12. CASE SendBody
    BY <1>12, OwnersStay DEF SendBody, reply, TypeInv
<1>13. CASE ResponseDel
    BY <1>13, ReplyDeleted
<1>14. CASE UNCHANGED vars
    BY <1>14, OwnersStay DEF vars, reply, TypeInv
<1>. QED
    BY <1>1, <1>2, <1>3, <1>4, <1>5, <1>6, <1>7, <1>8, <1>9, <1>10, <1>11, <1>12, <1>13,
       <1>14 DEF Next

\* Each string of a reply and of its cookie has one owner, for any number of headers,
\* cookies, attributes and replies, and whatever blocks malloc hands out (src/response.c,
\* src/http/header.c, src/http/cookies.c).
THEOREM OneOwnerHolds == Spec => []OneOwner
<1>1. Spec => [](TypeInv /\ OneOwner)
    BY InitOwner, NextOwner, PTL DEF Spec
<1>. QED
    BY <1>1, PTL

\* One entry more is in the buffer that it was given.
LEMMA EntryWritten ==
    ASSUME TypeInv, BufferInv, ListEntry
    PROVE  BufferInv' /\ WritesInside'
<1>. DEFINE h == headers[listed + 1]
<1>1. /\ pc = "list" /\ pc' = "list" /\ listed \in Nat /\ listed' = listed + 1
      /\ UNCHANGED <<heap, headers>>
      /\ sbuf' = sbuf \o Entry(h) /\ capacity = RESP_SIZE
      /\ IF Tight(h) THEN RESP_SIZE' = 2 * RESP_SIZE /\ capacity' = RESP_SIZE'
                     ELSE RESP_SIZE' = RESP_SIZE /\ capacity' = capacity
    BY DEF ListEntry, BufferInv, store, reply
<1>2. listed + 1 \in DOMAIN headers /\ h \in Pair
    BY DEF ListEntry, BufferInv, TypeInv
<1>3. Entry(h) \in Seq(Tokens)
    <2>1. heap[h.key] \in Seq(Tokens) /\ heap[h.value] \in Seq(Tokens)
        BY <1>2 DEF Pair, TypeInv
    <2>2. <<": ">> \in Seq(Tokens) /\ <<"CRLF">> \in Seq(Tokens)
        BY OneToken, ReplyAssumption
    <2>3. \A s, r \in Seq(Tokens) : s \o r \in Seq(Tokens)
        OBVIOUS
    <2>4. heap[h.key] \o <<": ">> \o heap[h.value] \o <<"CRLF">> \in Seq(Tokens)
        <3>. HIDE DEF h
        <3>. QED
            BY <2>1, <2>2, <2>3, Zenon
    <2>. QED
        BY <2>4, Zenon DEF Entry
<1>. DEFINE e == Entry(h)
<1>4. EntryLen(h) = Len(e) + 1 /\ e \in Seq(Tokens)
    BY <1>3 DEF EntryLen
<1>5. Tight(h) <=> EntryLen(h) + Len(sbuf) > RESP_SIZE
    BY DEF Tight
<1>6. Short' <=> Short
    BY <1>1 DEF Short, EntryLen, Entry
<1>7. Short => EntryLen(h) <= InitialSize
    BY <1>2 DEF Short
<1>8. sbuf' = sbuf \o e
    BY <1>1
<1>. HIDE DEF e, h
<1>9. sbuf \in Seq(Tokens) /\ Len(sbuf) \in Nat /\ Len(e) \in Nat
    BY <1>4 DEF BufferInv
<1>10. sbuf' \in Seq(Tokens) /\ Len(sbuf') = Len(sbuf) + Len(e)
    BY <1>4, <1>8, <1>9
<1>11. RESP_SIZE' \in Nat /\ InitialSize <= RESP_SIZE' /\ capacity' = RESP_SIZE'
    BY <1>1, SomeSize DEF BufferInv
<1>12. Short => Len(sbuf') < RESP_SIZE'
    BY <1>1, <1>4, <1>5, <1>7, <1>9, <1>10, SomeSize DEF BufferInv
<1>. QED
    BY <1>1, <1>6, <1>10, <1>11, <1>12 DEF BufferInv, WritesInside

LEMMA NextBuffer ==
    TypeInv /\ BufferInv /\ [Next]_vars => BufferInv'
<1>. SUFFICES ASSUME TypeInv, BufferInv, [Next]_vars
              PROVE  BufferInv'
    OBVIOUS
<1>1. ASSUME pc # "list", pc' # "list", UNCHANGED <<RESP_SIZE, sbuf, listed>>
      PROVE  BufferInv'
    BY <1>1 DEF BufferInv
<1>2. CASE ResponseSetStatus
    BY <1>1, <1>2 DEF ResponseSetStatus, Handling, out
<1>3. CASE ResponseAddHeader
    BY <1>1, <1>3 DEF ResponseAddHeader, Call, Handling, out
<1>4. CASE ResponseSetBody
    BY <1>1, <1>4 DEF ResponseSetBody, Call, Handling, out
<1>5. CASE ResponseSetBodyMove
    BY <1>1, <1>5 DEF ResponseSetBodyMove, Call, Handling, out
<1>6. CASE CookieInit
    BY <1>1, <1>6 DEF CookieInit, Call, Handling, out
<1>7. CASE CookieSetAttr
    BY <1>1, <1>7 DEF CookieSetAttr, Call, Handling, out
<1>8. CASE ResponseAddCookie
    BY <1>1, <1>8 DEF ResponseAddCookie, Call, Handling, out
<1>9. CASE CookieDelete
    BY <1>1, <1>9 DEF CookieDelete, Handling, out
<1>10. CASE SendStatus
    <2>1. /\ pc = "handler" /\ pc' \in {"separate", "list"} /\ UNCHANGED <<RESP_SIZE, sbuf, listed>>
          /\ pc' = "list" => capacity' = RESP_SIZE
        BY <1>10 DEF SendStatus, Handling
    <2>2. sbuf = << >> /\ Len(sbuf) = 0 /\ listed = 0
        BY <2>1 DEF BufferInv
    <2>. QED
        BY <2>1, <2>2, SomeSize DEF BufferInv
<1>11. CASE ListEntry
    BY <1>11, EntryWritten
<1>12. CASE SendHeaders
    BY <1>12 DEF SendHeaders, BufferInv
<1>13. CASE SendBody
    BY <1>1, <1>13 DEF SendBody
<1>14. CASE ResponseDel
    BY <1>1, <1>14 DEF ResponseDel
<1>15. CASE UNCHANGED vars
    BY <1>15 DEF vars, out, store, reply, BufferInv, Short, EntryLen, Entry
<1>. QED
    BY <1>2, <1>3, <1>4, <1>5, <1>6, <1>7, <1>8, <1>9, <1>10, <1>11, <1>12, <1>13, <1>14,
       <1>15 DEF Next

\* header_to_string never writes past its buffer while each header would fit the buffer
\* that the process began with, for any number of headers and any growth before
\* (src/http/header.c).
THEOREM WritesInsideHolds == Spec => []WritesInside
<1>1. Init => BufferInv
    BY SomeSize DEF Init, BufferInv
<1>2. BufferInv => WritesInside
    BY DEF BufferInv, WritesInside
<1>. QED
    BY <1>1, <1>2, InitOwner, NextOwner, NextBuffer, PTL DEF Spec

---------------------------------------------------------------------------
(* Texts that are cut at a token *)

\* Token c does not occur in text t.
Lacks(t, c) == \A i \in 1..Len(t) : t[i] # c

LEMMA Joined ==
    ASSUME NEW S, NEW u \in Seq(S), NEW v \in Seq(S)
    PROVE  /\ u \o v \in Seq(S) /\ Len(u \o v) = Len(u) + Len(v)
           /\ Len(u) \in Nat /\ Len(v) \in Nat
           /\ \A i \in 1..Len(u) : (u \o v)[i] = u[i] /\ u[i] \in S
           /\ \A i \in 1..Len(v) : (u \o v)[Len(u) + i] = v[i] /\ v[i] \in S
           /\ \A i \in (Len(u) + 1)..(Len(u) + Len(v)) : (u \o v)[i] = v[i - Len(u)]
    OBVIOUS

LEMMA Parts ==
    ASSUME NEW S, NEW u \in Seq(S), NEW v \in Seq(S)
    PROVE  SubSeq(u \o v, 1, Len(u)) = u /\ SubSeq(u \o v, Len(u) + 1, Len(u \o v)) = v
<1>. DEFINE w == u \o v
<1>1. /\ w \in Seq(S) /\ Len(w) = Len(u) + Len(v) /\ Len(u) \in Nat /\ Len(v) \in Nat
      /\ \A i \in 1..Len(u) : w[i] = u[i]
      /\ \A i \in 1..Len(v) : w[Len(u) + i] = v[i]
    BY Joined
<1>. HIDE DEF w
<1>2. SubSeq(w, 1, Len(u)) = u
    BY <1>1
<1>3. SubSeq(w, Len(u) + 1, Len(w)) = v
    BY <1>1
<1>. QED
    BY <1>2, <1>3 DEF w

LEMMA AtFirst ==
    ASSUME NEW S, NEW u \in Seq(S), NEW v \in Seq(S), NEW c \in S, Lacks(u, c)
    PROVE  /\ At(u \o (<<c>> \o v), c) = Len(u) + 1
           /\ Before(u \o (<<c>> \o v), c) = u
           /\ After(u \o (<<c>> \o v), c) = v
<1>. DEFINE r == <<c>> \o v
            w == u \o r
<1>1. r \in Seq(S) /\ Len(r) = Len(v) + 1 /\ r[1] = c /\ SubSeq(r, 2, Len(r)) = v
    <2>1. <<c>> \in Seq(S) /\ Len(<<c>>) = 1 /\ <<c>>[1] = c
        OBVIOUS
    <2>. QED
        BY <2>1, Joined, Parts
<1>. HIDE DEF r
<1>2. /\ w \in Seq(S) /\ Len(w) = Len(u) + Len(r) /\ Len(u) \in Nat /\ Len(v) \in Nat
      /\ \A i \in 1..Len(u) : w[i] = u[i]
      /\ \A i \in 1..Len(r) : w[Len(u) + i] = r[i]
    <2>1. r \in Seq(S)
        BY <1>1
    <2>. QED
        BY <2>1, Joined
<1>. HIDE DEF w
<1>3. w[Len(u) + 1] = c /\ \A j \in 1..Len(u) : w[j] # c
    <2>1. 1 \in 1..Len(r)
        BY <1>1, <1>2
    <2>2. w[Len(u) + 1] = r[1]
        BY <1>2, <2>1
    <2>. QED
        BY <1>1, <1>2, <2>2 DEF Lacks
<1>4. At(w, c) = Len(u) + 1
    BY <1>1, <1>2, <1>3 DEF At
<1>5. Before(w, c) = u
    <2>1. SubSeq(w, 1, Len(u)) = u
        BY <1>1, Parts DEF w
    <2>. QED
        BY <1>2, <1>4, <2>1 DEF Before
<1>6. After(w, c) = v
    <2>1. SubSeq(w, Len(u) + 2, Len(w)) = SubSeq(r, 2, Len(r))
        <3>1. r \in Seq(S) /\ Len(r) \in Nat
            BY <1>1
        <3>. QED
            BY <1>2, <3>1
    <2>2. SubSeq(w, Len(u) + 2, Len(w)) = v
        BY <1>1, <2>1
    <2>. QED
        BY <1>2, <1>4, <2>2 DEF After
<1>. QED
    BY <1>4, <1>5, <1>6 DEF w, r

LEMMA AtNone ==
    ASSUME NEW S, NEW s \in Seq(S), NEW c, Lacks(s, c)
    PROVE  At(s, c) = Len(s) + 1
<1>1. Len(s) \in Nat
    OBVIOUS
<1>. QED
    BY <1>1 DEF At, Lacks

LEMMA LacksJoined ==
    ASSUME NEW S, NEW u \in Seq(S), NEW v \in Seq(S), NEW c
    PROVE  Lacks(u \o v, c) <=> Lacks(u, c) /\ Lacks(v, c)
<1>. DEFINE w == u \o v
<1>1. /\ w \in Seq(S) /\ Len(w) = Len(u) + Len(v) /\ Len(u) \in Nat /\ Len(v) \in Nat
      /\ \A i \in 1..Len(u) : w[i] = u[i]
      /\ \A i \in 1..Len(v) : w[Len(u) + i] = v[i]
      /\ \A i \in (Len(u) + 1)..(Len(u) + Len(v)) : w[i] = v[i - Len(u)]
    BY Joined
<1>. HIDE DEF w
<1>2. ASSUME Lacks(u, c), Lacks(v, c), NEW i \in 1..Len(w) PROVE w[i] # c
    <2>1. CASE i <= Len(u)
        BY <1>1, <1>2, <2>1 DEF Lacks
    <2>2. CASE i > Len(u)
        <3>1. w[i] = v[i - Len(u)] /\ i - Len(u) \in 1..Len(v)
            BY <1>1, <2>2
        <3>. QED
            BY <1>2, <3>1 DEF Lacks
    <2>. QED
        BY <1>1, <2>1, <2>2
<1>3. ASSUME Lacks(w, c) PROVE Lacks(u, c) /\ Lacks(v, c)
    <2>1. ASSUME NEW i \in 1..Len(u) PROVE u[i] # c
        BY <1>1, <1>3 DEF Lacks
    <2>2. ASSUME NEW i \in 1..Len(v) PROVE v[i] # c
        <3>1. Len(u) + i \in 1..Len(w)
            BY <1>1
        <3>. QED
            BY <1>1, <1>3, <3>1 DEF Lacks
    <2>. QED
        BY <2>1, <2>2 DEF Lacks
<1>4. Lacks(u, c) /\ Lacks(v, c) => Lacks(w, c)
    BY <1>2 DEF Lacks
<1>. QED
    BY <1>3, <1>4 DEF w

\* U[n] holds the line ends among the first n symbols.
EndsTo(w, U) ==
    /\ U \in [0..Len(w) -> Seq(Nat)]
    /\ U[0] = << >>
    /\ \A n \in 1..Len(w) : U[n] = IF w[n] = "CRLF" THEN Append(U[n - 1], n) ELSE U[n - 1]

LEMMA EndsAre ==
    ASSUME NEW S, NEW w \in Seq(S)
    PROVE  \E U : EndsTo(w, U) /\ Ends(w) = U[Len(w)]
<1>. DEFINE Body(f) == [n \in 0..Len(w) |-> IF n = 0 THEN << >>
                                            ELSE IF w[n] = "CRLF" THEN Append(f[n - 1], n)
                                            ELSE f[n - 1]]
            step == [k \in 1..Len(w) |-> [s \in Seq(Nat) |-> IF w[k] = "CRLF" THEN Append(s, k) ELSE s]]
            U == CHOOSE f : f = Body(f)
<1>1. Len(w) \in Nat /\ << >> \in Seq(Nat)
    OBVIOUS
<1>2. Steps(Len(w), Seq(Nat), step)
    <2>1. \A k \in 1..Len(w), s \in Seq(Nat) : Append(s, k) \in Seq(Nat)
        BY <1>1
    <2>. QED
        BY <2>1 DEF Steps
<1>3. PICK g : Stepwise(Len(w), Seq(Nat), << >>, step, g)
    <2>. HIDE DEF step
    <2>. QED
        BY <1>1, <1>2, StepwiseExists
<1>4. EndsTo(w, g)
    <2>1. \A k \in 1..Len(w) : k - 1 \in 0..Len(w)
        BY <1>1
    <2>. QED
        BY <1>3, <2>1 DEF Stepwise, EndsTo
<1>5. g = Body(g)
    <2>1. g = [n \in 0..Len(w) |-> g[n]]
        BY <1>4 DEF EndsTo
    <2>2. \A n \in 0..Len(w) : n = 0 \/ n \in 1..Len(w)
        BY <1>1
    <2>3. ASSUME NEW n \in 0..Len(w)
          PROVE  g[n] = Body(g)[n]
        <3>1. CASE n = 0
            BY <1>4, <3>1 DEF EndsTo
        <3>2. CASE n # 0
            <4>1. n \in 1..Len(w)
                BY <2>2, <3>2
            <4>. QED
                BY <1>4, <3>2, <4>1 DEF EndsTo
        <3>. QED
            BY <3>1, <3>2
    <2>. HIDE DEF Body
    <2>4. Body(g) = [n \in 0..Len(w) |-> Body(g)[n]]
        BY DEF Body
    <2>. QED
        BY <2>1, <2>3, <2>4, Zenon
<1>6. U = Body(U)
    <2>. HIDE DEF Body
    <2>. QED
        BY <1>5
<1>. HIDE DEF U
<1>7. \A n \in 0..Len(w) : U[n] = IF n = 0 THEN << >>
                                  ELSE IF w[n] = "CRLF" THEN Append(U[n - 1], n) ELSE U[n - 1]
    BY <1>6
<1>8. \A n \in 0..Len(w) : U[n] \in Seq(Nat)
    <2>. DEFINE P == {n \in 0..Len(w) : U[n] \in Seq(Nat)}
    <2>1. 0 \in P
        <3>1. 0 \in 0..Len(w)
            BY <1>1
        <3>2. U[0] = << >>
            BY <1>7, <3>1
        <3>. QED
            BY <1>1, <3>1, <3>2
    <2>2. ASSUME NEW k \in 0..Len(w), k \in P, k < Len(w)
          PROVE  k + 1 \in P
        <3>1. k + 1 \in 0..Len(w) /\ k + 1 # 0 /\ k + 1 - 1 = k /\ k + 1 \in Nat
            BY <1>1, <2>2
        <3>2. U[k + 1] = IF w[k + 1] = "CRLF" THEN Append(U[k], k + 1) ELSE U[k]
            BY <1>7, <3>1
        <3>3. U[k] \in Seq(Nat)
            BY <2>2
        <3>4. Append(U[k], k + 1) \in Seq(Nat)
            BY <3>1, <3>3
        <3>. QED
            BY <3>1, <3>2, <3>3, <3>4
    <2>3. 0..Len(w) \subseteq P
        <3>. HIDE DEF P
        <3>. QED
            BY <1>1, <2>1, <2>2, UpTo
    <2>. QED
        BY <2>3
<1>9. U \in [0..Len(w) -> Seq(Nat)]
    <2>1. U = [n \in 0..Len(w) |-> U[n]]
        BY <1>6
    <2>. QED
        BY <1>8, <2>1
<1>10. EndsTo(w, U)
    <2>1. \A n \in 1..Len(w) : n \in 0..Len(w) /\ n # 0
        BY <1>1
    <2>2. 0 \in 0..Len(w)
        BY <1>1
    <2>. QED
        BY <1>7, <1>9, <2>1, <2>2 DEF EndsTo
<1>11. Ends(w) = U[Len(w)]
    BY DEF Ends, U
<1>. QED
    BY <1>10, <1>11

\* The line ends of a text are among those of any that it begins.
LEMMA EndsJoin ==
    ASSUME NEW S, NEW w \in Seq(S), NEW z \in Seq(S)
    PROVE  \E U : /\ EndsTo(w \o z, U) /\ U[Len(w)] = Ends(w)
                  /\ U[Len(w) + Len(z)] = Ends(w \o z) /\ Ends(w) \in Seq(Nat)
<1>1. PICK T : EndsTo(w, T) /\ Ends(w) = T[Len(w)]
    BY EndsAre
<1>. DEFINE y == w \o z
<1>2. /\ y \in Seq(S) /\ Len(y) = Len(w) + Len(z) /\ Len(w) \in Nat /\ Len(z) \in Nat
      /\ \A i \in 1..Len(w) : y[i] = w[i]
    BY Joined
<1>. HIDE DEF y
<1>3. PICK U : EndsTo(y, U) /\ Ends(y) = U[Len(y)]
    BY <1>2, EndsAre
<1>. DEFINE P == {n \in 0..Len(w) : U[n] = T[n]}
<1>4. 0 \in P
    BY <1>1, <1>2, <1>3 DEF EndsTo
<1>5. ASSUME NEW k \in 0..Len(w), k \in P, k < Len(w)
      PROVE  k + 1 \in P
    <2>1. k + 1 \in 1..Len(w) /\ k + 1 \in 1..Len(y) /\ k + 1 - 1 = k /\ k + 1 \in 0..Len(w)
        BY <1>2, <1>5
    <2>2. T[k + 1] = IF w[k + 1] = "CRLF" THEN Append(T[k], k + 1) ELSE T[k]
        BY <1>1, <2>1 DEF EndsTo
    <2>3. U[k + 1] = IF y[k + 1] = "CRLF" THEN Append(U[k], k + 1) ELSE U[k]
        BY <1>3, <2>1 DEF EndsTo
    <2>. QED
        BY <1>2, <1>5, <2>1, <2>2, <2>3
<1>6. 0..Len(w) \subseteq P
    <2>. HIDE DEF P
    <2>. QED
        BY <1>2, <1>4, <1>5, UpTo
<1>7. Len(w) \in 0..Len(w)
    BY <1>2
<1>8. U[Len(w)] = Ends(w) /\ Ends(w) \in Seq(Nat)
    BY <1>1, <1>6, <1>7 DEF EndsTo
<1>. QED
    BY <1>2, <1>3, <1>8 DEF y

LEMMA EndsNoMore ==
    ASSUME NEW S, NEW w \in Seq(S), NEW z \in Seq(S), Lacks(z, "CRLF")
    PROVE  Ends(w \o z) = Ends(w)
<1>1. PICK U : /\ EndsTo(w \o z, U) /\ U[Len(w)] = Ends(w)
               /\ U[Len(w) + Len(z)] = Ends(w \o z)
    BY EndsJoin
<1>. DEFINE y == w \o z
<1>2. /\ Len(y) = Len(w) + Len(z) /\ Len(w) \in Nat /\ Len(z) \in Nat
      /\ \A i \in 1..Len(z) : y[Len(w) + i] = z[i]
    BY Joined
<1>3. EndsTo(y, U)
    BY <1>1
<1>. HIDE DEF y
<1>. DEFINE P == {n \in 0..Len(z) : U[Len(w) + n] = Ends(w)}
<1>4. 0 \in P
    BY <1>1, <1>2
<1>5. ASSUME NEW k \in 0..Len(z), k \in P, k < Len(z)
      PROVE  k + 1 \in P
    <2>1. k + 1 \in 1..Len(z) /\ Len(w) + (k + 1) \in 1..Len(y) /\ Len(w) + (k + 1) - 1 = Len(w) + k
        BY <1>2, <1>5
    <2>2. y[Len(w) + (k + 1)] # "CRLF"
        BY <1>2, <2>1 DEF Lacks
    <2>3. U[Len(w) + (k + 1)] = U[Len(w) + k]
        BY <1>3, <2>1, <2>2 DEF EndsTo
    <2>. QED
        BY <1>5, <2>1, <2>3
<1>6. 0..Len(z) \subseteq P
    <2>. HIDE DEF P
    <2>. QED
        BY <1>2, <1>4, <1>5, UpTo
<1>7. Len(z) \in 0..Len(z)
    BY <1>2
<1>. QED
    BY <1>1, <1>6, <1>7

LEMMA EndsOneMore ==
    ASSUME NEW S, NEW w \in Seq(S), "CRLF" \in S
    PROVE  Ends(w \o <<"CRLF">>) = Append(Ends(w), Len(w) + 1)
<1>. DEFINE z == <<"CRLF">>
<1>1. z \in Seq(S) /\ Len(z) = 1 /\ z[1] = "CRLF"
    OBVIOUS
<1>. HIDE DEF z
<1>2. PICK U : /\ EndsTo(w \o z, U) /\ U[Len(w)] = Ends(w)
               /\ U[Len(w) + Len(z)] = Ends(w \o z)
    BY <1>1, EndsJoin
<1>. DEFINE y == w \o z
<1>3. /\ Len(y) = Len(w) + Len(z) /\ Len(w) \in Nat
      /\ \A i \in 1..Len(z) : y[Len(w) + i] = z[i]
    BY <1>1, Joined
<1>4. EndsTo(y, U)
    BY <1>2
<1>. HIDE DEF y
<1>5. Len(w) + 1 \in 1..Len(y) /\ Len(w) + 1 - 1 = Len(w) /\ y[Len(w) + 1] = "CRLF"
    BY <1>1, <1>3
<1>6. U[Len(w) + 1] = Append(U[Len(w)], Len(w) + 1)
    <2>1. \A n \in 1..Len(y) : y[n] = "CRLF" => U[n] = Append(U[n - 1], n)
        BY <1>4 DEF EndsTo
    <2>. DEFINE m == Len(w) + 1
    <2>2. m \in 1..Len(y) /\ m - 1 = Len(w) /\ y[m] = "CRLF"
        BY <1>5
    <2>. HIDE DEF m
    <2>3. U[m] = Append(U[Len(w)], m)
        BY <2>1, <2>2
    <2>. QED
        BY <2>3 DEF m
<1>. QED
    BY <1>1, <1>2, <1>6 DEF z

\* s begins sequence t.
Begins(s, t) == Len(s) <= Len(t) /\ \A k \in 1..Len(s) : t[k] = s[k]

LEMMA EndsBegin ==
    ASSUME NEW S, NEW w \in Seq(S), NEW z \in Seq(S)
    PROVE  Begins(Ends(w), Ends(w \o z)) /\ Ends(w \o z) \in Seq(Nat)
<1>1. PICK U : /\ EndsTo(w \o z, U) /\ U[Len(w)] = Ends(w)
               /\ U[Len(w) + Len(z)] = Ends(w \o z) /\ Ends(w) \in Seq(Nat)
    BY EndsJoin
<1>. DEFINE y == w \o z
<1>2. /\ Len(y) = Len(w) + Len(z) /\ Len(w) \in Nat /\ Len(z) \in Nat
    BY Joined
<1>3. EndsTo(y, U)
    BY <1>1
<1>. HIDE DEF y
<1>. DEFINE e == Ends(w)
            P == {n \in 0..Len(z) : Begins(e, U[Len(w) + n]) /\ U[Len(w) + n] \in Seq(Nat)}
<1>4. e \in Seq(Nat) /\ Len(e) \in Nat
    BY <1>1
<1>5. 0 \in P
    BY <1>1, <1>2 DEF Begins
<1>. HIDE DEF e
<1>6. ASSUME NEW k \in 0..Len(z), k \in P, k < Len(z)
      PROVE  k + 1 \in P
    <2>1. /\ k + 1 \in 0..Len(z) /\ Len(w) + (k + 1) \in 1..Len(y)
          /\ Len(w) + (k + 1) - 1 = Len(w) + k /\ Len(w) + (k + 1) \in Nat
        BY <1>2, <1>6
    <2>. DEFINE s == U[Len(w) + k]
                c == Len(w) + (k + 1)
    <2>2. U[c] = Append(s, c) \/ U[c] = s
        <3>1. \A n \in 1..Len(y) : U[n] = Append(U[n - 1], n) \/ U[n] = U[n - 1]
            BY <1>3 DEF EndsTo
        <3>2. c \in 1..Len(y) /\ c - 1 = Len(w) + k
            BY <2>1
        <3>3. U[c] = Append(U[c - 1], c) \/ U[c] = U[c - 1]
            BY <3>1, <3>2, Zenon
        <3>. QED
            BY <3>2, <3>3
    <2>3. s \in Seq(Nat) /\ Begins(e, s) /\ c \in Nat
        BY <1>6, <2>1
    <2>4. Append(s, c) \in Seq(Nat) /\ Begins(e, Append(s, c))
        <3>. HIDE DEF s, c
        <3>1. /\ Append(s, c) \in Seq(Nat) /\ Len(Append(s, c)) = Len(s) + 1 /\ Len(s) \in Nat
              /\ \A i \in 1..Len(s) : Append(s, c)[i] = s[i]
            BY <2>3
        <3>. QED
            BY <1>4, <2>3, <3>1 DEF Begins
    <2>5. U[c] \in Seq(Nat) /\ Begins(e, U[c])
        <3>. HIDE DEF s, c
        <3>. QED
            BY <2>2, <2>3, <2>4
    <2>. QED
        BY <2>1, <2>5
<1>7. 0..Len(z) \subseteq P
    <2>. HIDE DEF P
    <2>. QED
        BY <1>2, <1>5, <1>6, UpTo
<1>8. Len(z) \in 0..Len(z)
    BY <1>2
<1>. QED
    BY <1>1, <1>7, <1>8 DEF e

---------------------------------------------------------------------------
(* Lines *)

LEMMA EndsTyped ==
    ASSUME NEW S, NEW w \in Seq(S)
    PROVE  Ends(w) \in Seq(Nat)
<1>1. PICK U : EndsTo(w, U) /\ Ends(w) = U[Len(w)]
    BY EndsAre
<1>2. Len(w) \in 0..Len(w)
    OBVIOUS
<1>. QED
    BY <1>1, <1>2 DEF EndsTo

\* Text b is n lines; none is empty, and those behind the first are the ones of l.
Lines(b, n, l) ==
    /\ n \in Nat \ {0} /\ Len(Ends(b)) = n /\ Ends(b)[n] = Len(b)
    /\ \A k \in 1..(n - 1) : /\ Ends(b)[k] + 1 < Ends(b)[k + 1] /\ Ends(b)[k + 1] <= Len(b)
                             /\ SubSeq(b, Ends(b)[k] + 1, Ends(b)[k + 1] - 1) = l[k]

LEMMA Within ==
    ASSUME NEW S, NEW u \in Seq(S), NEW v \in Seq(S), NEW i \in Nat \ {0}, NEW j \in Int, j <= Len(u)
    PROVE  SubSeq(u \o v, i, j) = SubSeq(u, i, j)
    OBVIOUS

LEMMA LinesNext ==
    ASSUME NEW S, "CRLF" \in S, NEW b \in Seq(S), NEW u \in Seq(S), NEW n, NEW l, Lines(b, n, l),
           Lacks(u, "CRLF"), Len(u) > 0, l[n] = u
    PROVE  Lines(b \o (u \o <<"CRLF">>), n + 1, l)
<1>. DEFINE e == Ends(b)
            c == b \o u
            d == c \o <<"CRLF">>
            m == Len(b) + Len(u) + 1
<1>1. <<"CRLF">> \in Seq(S) /\ Len(<<"CRLF">>) = 1
    OBVIOUS
<1>2. d = b \o (u \o <<"CRLF">>)
    BY <1>1
<1>3. c \in Seq(S) /\ Len(c) = Len(b) + Len(u) /\ Len(b) \in Nat /\ Len(u) \in Nat
    BY Joined
<1>4. Ends(c) = e
    BY EndsNoMore
<1>5. e \in Seq(Nat)
    BY EndsTyped
<1>6. n \in Nat \ {0} /\ Len(e) = n /\ e[n] = Len(b)
      /\ \A k \in 1..(n - 1) : /\ e[k] + 1 < e[k + 1] /\ e[k + 1] <= Len(b)
                               /\ SubSeq(b, e[k] + 1, e[k + 1] - 1) = l[k]
    BY DEF Lines
<1>7. SubSeq(c, Len(b) + 1, Len(c)) = u
    BY Parts
<1>. HIDE DEF c
<1>8. /\ d \in Seq(S) /\ Len(d) = m /\ m \in Nat
    BY <1>1, <1>3, Joined
<1>9. Ends(d) = Append(e, m)
    BY <1>3, <1>4, EndsOneMore
<1>10. \A i \in Nat \ {0}, j \in Int : j <= Len(c) => SubSeq(d, i, j) = SubSeq(c, i, j)
    BY <1>1, <1>3, Within
<1>11. \A i \in Nat \ {0}, j \in Int : j <= Len(b) => SubSeq(c, i, j) = SubSeq(b, i, j)
    BY Within DEF c
<1>. HIDE DEF d, e
<1>12. /\ Len(Append(e, m)) = n + 1 /\ Append(e, m)[n + 1] = m
       /\ \A k \in 1..n : Append(e, m)[k] = e[k] /\ e[k] \in Nat
    <2>. HIDE DEF m
    <2>. QED
        BY <1>5, <1>6, <1>8
<1>13. ASSUME NEW k \in 1..n
       PROVE  /\ Ends(d)[k] + 1 < Ends(d)[k + 1] /\ Ends(d)[k + 1] <= Len(d)
              /\ SubSeq(d, Ends(d)[k] + 1, Ends(d)[k + 1] - 1) = l[k]
    <2>1. CASE k = n
        <3>1. Ends(d)[k] = Len(b) /\ Ends(d)[k + 1] = m
            BY <1>6, <1>9, <1>12, <2>1
        <3>2. SubSeq(d, Len(b) + 1, m - 1) = SubSeq(c, Len(b) + 1, m - 1)
            <4>1. Len(b) + 1 \in Nat \ {0} /\ m - 1 \in Int /\ m - 1 <= Len(c)
                BY <1>3
            <4>. HIDE DEF m
            <4>. QED
                BY <1>10, <4>1
        <3>3. m - 1 = Len(c)
            BY <1>3
        <3>4. SubSeq(d, Len(b) + 1, m - 1) = l[k]
            BY <1>7, <2>1, <3>2, <3>3
        <3>. QED
            BY <1>3, <1>8, <3>1, <3>4
    <2>2. CASE k # n
        <3>1. k \in 1..(n - 1) /\ k \in 1..n /\ k + 1 \in 1..n
            BY <1>6, <2>2
        <3>2. Ends(d)[k] = e[k] /\ Ends(d)[k + 1] = e[k + 1] /\ e[k] \in Nat /\ e[k + 1] \in Nat
            BY <1>9, <1>12, <3>1
        <3>3. e[k] + 1 < e[k + 1] /\ e[k + 1] <= Len(b) /\ SubSeq(b, e[k] + 1, e[k + 1] - 1) = l[k]
            BY <1>6, <3>1
        <3>4. /\ e[k] + 1 \in Nat \ {0} /\ e[k + 1] - 1 \in Int
              /\ e[k + 1] - 1 <= Len(b) /\ e[k + 1] - 1 <= Len(c)
            <4>1. PICK x, y, p, q, r : /\ x = e[k] /\ y = e[k + 1]
                                       /\ p = Len(b) /\ q = Len(c) /\ r = Len(u)
                OBVIOUS
            <4>2. x \in Nat /\ y \in Nat /\ p \in Nat /\ r \in Nat
                BY <1>3, <3>2, <4>1
            <4>3. y <= p
                BY <3>3, <4>1
            <4>4. q = p + r
                BY <1>3, <4>1
            <4>5. x + 1 \in Nat \ {0} /\ y - 1 \in Int /\ y - 1 <= p /\ y - 1 <= q
                BY <4>2, <4>3, <4>4
            <4>. QED
                BY <4>1, <4>5
        <3>5. SubSeq(d, e[k] + 1, e[k + 1] - 1) = l[k]
            BY <1>10, <1>11, <3>3, <3>4
        <3>6. e[k + 1] <= Len(d)
            BY <1>3, <1>8, <3>2, <3>3
        <3>. QED
            BY <3>2, <3>3, <3>5, <3>6
    <2>. QED
        BY <2>1, <2>2
<1>14. n + 1 \in Nat \ {0} /\ Len(Ends(d)) = n + 1 /\ Ends(d)[n + 1] = Len(d) /\ n + 1 - 1 = n
    BY <1>6, <1>8, <1>9, <1>12
<1>15. Lines(d, n + 1, l)
    BY <1>13, <1>14 DEF Lines
<1>. QED
    BY <1>2, <1>15

\* What is read of n lines, an empty one and what follows.
LEMMA ReadLines ==
    ASSUME NEW S, "CRLF" \in S, NEW b \in Seq(S), NEW t \in Seq(S), NEW n, NEW l, Lines(b, n, l),
           Len(b) >= 2
    PROVE  Read((b \o <<"CRLF">>) \o t) = [status |-> b[2],
                                           fields |-> [k \in 1..(n - 1) |-> FieldRead(l[k])],
                                           body   |-> t]
<1>. DEFINE e == Ends(b)
            d == b \o <<"CRLF">>
            w == d \o t
            f == Ends(w)
            m == Len(b) + 1
<1>1. <<"CRLF">> \in Seq(S) /\ Len(<<"CRLF">>) = 1
    OBVIOUS
<1>2. e \in Seq(Nat)
    BY EndsTyped
<1>3. n \in Nat \ {0} /\ Len(e) = n /\ e[n] = Len(b) /\ Len(b) \in Nat
      /\ \A k \in 1..(n - 1) : /\ e[k] + 1 < e[k + 1] /\ e[k + 1] <= Len(b)
                               /\ SubSeq(b, e[k] + 1, e[k + 1] - 1) = l[k]
    BY DEF Lines
<1>4. Ends(d) = Append(e, m)
    BY EndsOneMore
<1>5. /\ d \in Seq(S) /\ Len(d) = m /\ \A i \in 1..Len(b) : d[i] = b[i]
    BY <1>1, Joined
<1>6. \A i \in Nat \ {0}, j \in Int : j <= Len(b) => SubSeq(d, i, j) = SubSeq(b, i, j)
    BY <1>1, Within
<1>. HIDE DEF d
<1>7. /\ w \in Seq(S) /\ Len(w) = m + Len(t) /\ Len(t) \in Nat /\ \A i \in 1..m : w[i] = d[i]
      /\ SubSeq(w, m + 1, Len(w)) = t
    <2>1. d \in Seq(S) /\ Len(d) = m
        BY <1>5
    <2>2. w \in Seq(S) /\ Len(w) = Len(d) + Len(t) /\ Len(t) \in Nat
        BY <2>1, Joined
    <2>3. \A i \in 1..Len(d) : w[i] = d[i]
        BY <2>1
    <2>4. SubSeq(w, Len(d) + 1, Len(w)) = t
        BY <2>1, Parts
    <2>. HIDE DEF w, m
    <2>. QED
        BY <2>1, <2>2, <2>3, <2>4
<1>8. \A i \in Nat \ {0}, j \in Int : j <= m => SubSeq(w, i, j) = SubSeq(d, i, j)
    BY <1>5, Within
<1>9. Begins(Ends(d), f) /\ f \in Seq(Nat)
    BY <1>5, EndsBegin
<1>. HIDE DEF w, e
<1>10. /\ Len(f) \in Nat /\ n + 1 <= Len(f) /\ f[n + 1] = m
       /\ \A k \in 1..n : f[k] = e[k] /\ e[k] \in Nat
    <2>1. /\ Len(Append(e, m)) = n + 1 /\ Append(e, m)[n + 1] = m
          /\ \A k \in 1..n : Append(e, m)[k] = e[k] /\ e[k] \in Nat
        <3>. HIDE DEF m
        <3>. QED
            BY <1>2, <1>3
    <2>. HIDE DEF f
    <2>2. /\ n + 1 <= Len(f) /\ \A k \in 1..(n + 1) : f[k] = Append(e, m)[k]
        BY <1>4, <1>9, <2>1 DEF Begins
    <2>. QED
        BY <1>3, <1>9, <2>1, <2>2
<1>. HIDE DEF f
<1>11. HeadEnd(f) = n
    <2>1. /\ n \in 1..(Len(f) - 1) /\ f[n + 1] = f[n] + 1
        BY <1>3, <1>10
    <2>2. \A k \in 1..(n - 1) : f[k + 1] # f[k] + 1
        <3>. SUFFICES ASSUME NEW k \in 1..(n - 1) PROVE f[k + 1] # f[k] + 1
            OBVIOUS
        <3>1. k \in 1..n /\ k + 1 \in 1..n
            BY <1>3
        <3>2. f[k] = e[k] /\ f[k + 1] = e[k + 1] /\ e[k] \in Nat /\ e[k + 1] \in Nat
            BY <1>10, <3>1
        <3>. QED
            BY <1>3, <3>2
    <2>3. ASSUME NEW i \in 1..(Len(f) - 1), f[i + 1] = f[i] + 1,
                 \A k \in 1..(i - 1) : f[k + 1] # f[k] + 1
          PROVE  i = n
        <3>1. ~(i < n)
            BY <1>3, <1>10, <2>2, <2>3
        <3>2. ~(n < i)
            BY <1>3, <1>10, <2>1, <2>3
        <3>. QED
            BY <1>3, <1>10, <3>1, <3>2
    <2>. DEFINE Q(i) == f[i + 1] = f[i] + 1 /\ \A k \in 1..(i - 1) : f[k + 1] # f[k] + 1
    <2>4. Q(n) /\ n \in 1..(Len(f) - 1) /\ \A i \in 1..(Len(f) - 1) : Q(i) => i = n
        BY <2>1, <2>2, <2>3
    <2>5. HeadEnd(f) = CHOOSE i \in 1..(Len(f) - 1) : Q(i)
        BY DEF HeadEnd
    <2>. HIDE DEF Q
    <2>. QED
        BY <2>4, <2>5
<1>12. ASSUME NEW k \in 1..(n - 1)
       PROVE  SubSeq(w, f[k] + 1, f[k + 1] - 1) = l[k]
    <2>1. k \in 1..n /\ k + 1 \in 1..n
        BY <1>3
    <2>2. f[k] = e[k] /\ f[k + 1] = e[k + 1] /\ e[k] \in Nat /\ e[k + 1] \in Nat
        BY <1>10, <2>1
    <2>3. e[k] + 1 < e[k + 1] /\ e[k + 1] <= Len(b) /\ SubSeq(b, e[k] + 1, e[k + 1] - 1) = l[k]
        BY <1>3
    <2>4. /\ e[k] + 1 \in Nat \ {0} /\ e[k + 1] - 1 \in Int
          /\ e[k + 1] - 1 <= Len(b) /\ e[k + 1] - 1 <= m
        BY <1>3, <2>2, <2>3
    <2>5. SubSeq(w, e[k] + 1, e[k + 1] - 1) = SubSeq(d, e[k] + 1, e[k + 1] - 1)
        BY <1>8, <2>4
    <2>6. SubSeq(d, e[k] + 1, e[k + 1] - 1) = SubSeq(b, e[k] + 1, e[k + 1] - 1)
        BY <1>6, <2>4
    <2>. QED
        BY <2>2, <2>3, <2>5, <2>6
<1>13. w[2] = b[2]
    BY <1>3, <1>5, <1>7
<1>14. SubSeq(w, f[n + 1] + 1, Len(w)) = t
    BY <1>7, <1>10
<1>15. Read(w) = [status |-> w[2],
                  fields |-> [k \in 1..(HeadEnd(f) - 1) |-> FieldRead(SubSeq(w, f[k] + 1, f[k + 1] - 1))],
                  body   |-> SubSeq(w, f[HeadEnd(f) + 1] + 1, Len(w))]
    BY DEF Read, f
<1>16. Read(w) = [status |-> b[2],
                  fields |-> [k \in 1..(n - 1) |-> FieldRead(SubSeq(w, f[k] + 1, f[k + 1] - 1))],
                  body   |-> t]
    BY <1>11, <1>13, <1>14, <1>15
<1>17. [k \in 1..(n - 1) |-> FieldRead(SubSeq(w, f[k] + 1, f[k + 1] - 1))]
           = [k \in 1..(n - 1) |-> FieldRead(l[k])]
    BY <1>12
<1>. QED
    BY <1>16, <1>17 DEF w, d

---------------------------------------------------------------------------
(* Cookies *)

\* A text without marks, and one that is empty or begins with a mark.
Plain(x)  == \A i \in 1..Len(x) : x[i] \notin Marks
Starts(v) == v = << >> \/ (Len(v) > 0 /\ v[1] \in Marks)

LEMMA MarkedBetween ==
    ASSUME NEW S, NEW u \in Seq(S), NEW x \in Seq(S), NEW v \in Seq(S), NEW m \in S,
           Lacks(u, m), Plain(x), Starts(v)
    PROVE  Marked(u \o (<<m>> \o (x \o v)), m) = x
<1>. DEFINE t == x \o v
            s == u \o (<<m>> \o t)
<1>1. /\ t \in Seq(S) /\ Len(t) = Len(x) + Len(v) /\ Len(x) \in Nat /\ Len(v) \in Nat
      /\ \A i \in 1..Len(x) : t[i] = x[i]
      /\ \A i \in 1..Len(v) : t[Len(x) + i] = v[i]
      /\ SubSeq(t, 1, Len(x)) = x
    BY Joined, Parts
<1>. HIDE DEF t
<1>2. /\ At(s, m) = Len(u) + 1 /\ After(s, m) = t
    BY <1>1, AtFirst
<1>3. At(s, m) <= Len(s)
    <2>1. <<m>> \o t \in Seq(S) /\ Len(<<m>> \o t) = Len(t) + 1
        BY <1>1
    <2>2. Len(s) = Len(u) + (Len(t) + 1) /\ Len(u) \in Nat
        <3>. DEFINE r == <<m>> \o t
        <3>1. r \in Seq(S) /\ Len(r) = Len(t) + 1
            BY <2>1
        <3>. HIDE DEF r
        <3>2. Len(u \o r) = Len(u) + Len(r) /\ Len(u) \in Nat
            BY <3>1, Joined
        <3>. QED
            BY <3>1, <3>2 DEF r
    <2>. QED
        BY <1>1, <1>2, <2>2
<1>4. At(s, m) \in Nat /\ Len(s) \in Nat
    <2>1. <<m>> \o t \in Seq(S)
        BY <1>1
    <2>2. s \in Seq(S) /\ Len(u) \in Nat
        BY <2>1, Joined
    <2>. QED
        BY <1>2, <2>2
<1>. HIDE DEF s
<1>a. Len(t) = Len(x) + Len(v) /\ Len(x) \in Nat /\ Len(v) \in Nat /\ Len(t) \in Nat
    BY <1>1
<1>b. SubSeq(t, 1, Len(x)) = x
    BY <1>1
<1>. DEFINE Q(n) == /\ n = Len(t) \/ t[n + 1] \in Marks
                    /\ \A i \in 1..n : t[i] \notin Marks
<1>5. Len(x) \in 0..Len(t) /\ Q(Len(x))
    <2>1. \A i \in 1..Len(x) : t[i] \notin Marks
        BY <1>1 DEF Plain
    <2>2. CASE v = << >>
        <3>1. Len(v) = 0
            BY <2>2
        <3>. QED
            BY <1>1, <2>1, <3>1
    <2>3. CASE Len(v) > 0 /\ v[1] \in Marks
        <3>1. 1 \in 1..Len(v)
            BY <1>1, <2>3
        <3>2. t[Len(x) + 1] \in Marks
            BY <1>1, <2>3, <3>1
        <3>3. Q(Len(x))
            BY <2>1, <3>2
        <3>. QED
            BY <1>a, <3>3
    <2>. QED
        BY <2>2, <2>3 DEF Starts
<1>6. \A n \in 0..Len(t) : Q(n) => n = Len(x)
    <2>. SUFFICES ASSUME NEW n \in 0..Len(t), Q(n), n # Len(x) PROVE FALSE
        OBVIOUS
    <2>1. CASE n < Len(x)
        <3>1. n + 1 \in 1..Len(x) /\ n # Len(t)
            BY <1>a, <2>1
        <3>. QED
            BY <1>5, <3>1
    <2>2. CASE n > Len(x)
        <3>1. Len(x) + 1 \in 1..n /\ Len(x) # Len(t)
            BY <1>a, <2>2
        <3>. QED
            BY <1>5, <3>1
    <2>. QED
        BY <1>a, <2>1, <2>2
<1>7. (CHOOSE n \in 0..Len(t) : Q(n)) = Len(x)
    <2>. HIDE DEF Q
    <2>. QED
        BY <1>5, <1>6
<1>8. Marked(s, m) = IF At(s, m) > Len(s) THEN None ELSE SubSeq(t, 1, CHOOSE n \in 0..Len(t) : Q(n))
    BY <1>2 DEF Marked
<1>9. Marked(s, m) = x
    <2>1. ~(At(s, m) > Len(s))
        BY <1>3, <1>4
    <2>. HIDE DEF Q
    <2>. QED
        BY <1>b, <1>7, <1>8, <2>1
<1>. QED
    BY <1>9 DEF s, t

LEMMA MarkedNowhere ==
    ASSUME NEW S, NEW s \in Seq(S), NEW m, Lacks(s, m)
    PROVE  Marked(s, m) = None
<1>1. At(s, m) = Len(s) + 1 /\ Len(s) \in Nat
    BY AtNone
<1>2. At(s, m) > Len(s)
    BY <1>1
<1>. QED
    BY <1>2 DEF Marked

\* Text s of an attribute with mark m gives it value x.
Segment(s, m, x) ==
    /\ s \in Seq(Tokens) /\ m \in Marks /\ Lacks(s, "CRLF")
    /\ \/ s = << >> /\ x = None
       \/ x \in Seq(Tokens) /\ s = <<m>> \o x /\ Plain(x)

\* There are no other marks in t than those of ms, and no line end.
Only(t, ms) == t \in Seq(Tokens) /\ \A k \in (Marks \cup {"CRLF"}) \ ms : Lacks(t, k)

LEMMA MarksAreTokens == Marks \subseteq Tokens
BY ReplyAssumption DEF Marks

LEMMA SegmentOnly ==
    ASSUME NEW s, NEW m, NEW x, Segment(s, m, x), NEW q, NEW ms, Only(q, ms), Starts(q)
    PROVE  Only(s, {m}) /\ Only(s \o q, ms \cup {m}) /\ Starts(s \o q)
<1>1. q \in Seq(Tokens) /\ s \in Seq(Tokens) /\ m \in Tokens
    BY MarksAreTokens DEF Only, Segment
<1>2. Only(s, {m})
    <2>1. CASE s = << >>
        BY <1>1, <2>1 DEF Only, Lacks
    <2>2. CASE x \in Seq(Tokens) /\ s = <<m>> \o x /\ Plain(x)
        <3>. SUFFICES ASSUME NEW k \in Marks, k # m PROVE Lacks(s, k)
            BY <1>1 DEF Only, Segment
        <3>1. <<m>> \in Seq(Tokens) /\ Lacks(<<m>>, k)
            BY <1>1 DEF Lacks
        <3>2. Lacks(x, k)
            BY <2>2 DEF Lacks, Plain
        <3>. QED
            BY <2>2, <3>1, <3>2, LacksJoined
    <2>. QED
        BY <2>1, <2>2 DEF Segment
<1>3. Only(s \o q, ms \cup {m})
    <2>1. s \o q \in Seq(Tokens)
        BY <1>1
    <2>2. ASSUME NEW k \in (Marks \cup {"CRLF"}) \ (ms \cup {m}) PROVE Lacks(s \o q, k)
        <3>1. Lacks(s, k) /\ Lacks(q, k)
            BY <1>2 DEF Only
        <3>. QED
            BY <1>1, <3>1, LacksJoined
    <2>. QED
        BY <2>1, <2>2 DEF Only
<1>4. Starts(s \o q)
    <2>1. CASE s = << >>
        <3>1. s \o q = q
            BY <1>1, <2>1
        <3>. QED
            BY <3>1
    <2>2. CASE x \in Seq(Tokens) /\ s = <<m>> \o x
        <3>1. <<m>> \in Seq(Tokens) /\ Len(<<m>>) = 1 /\ <<m>>[1] = m
            BY <1>1
        <3>2. Len(s) > 0 /\ s[1] = m
            BY <2>2, <3>1
        <3>3. Len(s \o q) > 0 /\ (s \o q)[1] = m
            BY <1>1, <3>2
        <3>. QED
            BY <3>3 DEF Starts, Segment
    <2>. QED
        BY <2>1, <2>2 DEF Segment
<1>. QED
    BY <1>2, <1>3, <1>4

LEMMA OnlyJoined ==
    ASSUME NEW p, NEW q, NEW ms, NEW ns, Only(p, ms), Only(q, ns)
    PROVE  Only(p \o q, ms \cup ns)
<1>1. p \in Seq(Tokens) /\ q \in Seq(Tokens) /\ p \o q \in Seq(Tokens)
    BY DEF Only
<1>2. ASSUME NEW k \in (Marks \cup {"CRLF"}) \ (ms \cup ns) PROVE Lacks(p \o q, k)
    <2>1. Lacks(p, k) /\ Lacks(q, k)
        BY DEF Only
    <2>. QED
        BY <1>1, <2>1, LacksJoined
<1>. QED
    BY <1>1, <1>2 DEF Only

LEMMA SegmentRead ==
    ASSUME NEW s, NEW m, NEW x, Segment(s, m, x), NEW p, NEW q, NEW ms, NEW ns, Only(p, ms), Only(q, ns),
           m \notin ms, m \notin ns, Starts(q)
    PROVE  Marked(p \o (s \o q), m) = x
<1>1. /\ p \in Seq(Tokens) /\ q \in Seq(Tokens) /\ s \in Seq(Tokens) /\ m \in Tokens
      /\ Lacks(p, m) /\ Lacks(q, m)
    BY MarksAreTokens DEF Only, Segment
<1>2. CASE s = << >> /\ x = None
    <2>1. s \o q = q /\ p \o q \in Seq(Tokens)
        BY <1>1, <1>2
    <2>2. Lacks(p \o q, m)
        BY <1>1, LacksJoined
    <2>. QED
        BY <1>2, <2>1, <2>2, MarkedNowhere
<1>3. CASE x \in Seq(Tokens) /\ s = <<m>> \o x /\ Plain(x)
    <2>1. s \o q = <<m>> \o (x \o q)
        BY <1>1, <1>3
    <2>2. Marked(p \o (<<m>> \o (x \o q)), m) = x
        BY <1>1, <1>3, MarkedBetween
    <2>. QED
        BY <2>1, <2>2
<1>. QED
    BY <1>2, <1>3 DEF Segment

LEMMA Regrouped ==
    ASSUME NEW S, NEW u \in Seq(S), NEW v \in Seq(S), NEW t \in Seq(S)
    PROVE  (u \o v) \o t = u \o (v \o t)
    OBVIOUS

---------------------------------------------------------------------------
(* The reply that arrives *)

\* What cuts the text of a reply when it is read.
Cuts == Marks \cup {"CRLF", "; "}

\* None of that is in what handlers pass, nor is ": " or "=" in a name; cookies go by
\* ResponseAddCookie; and None is no text, no cookie and no message.
TextsApart ==
    /\ Texts \subseteq Seq(Tokens \ Cuts)
    /\ Names \subseteq Seq(Tokens \ (Cuts \cup {": ", "="}))
    /\ <<"Set-Cookie">> \notin Names
    /\ "CRLF" \notin Statuses
    /\ None \notin Seq(Tokens)
    /\ \A s, f, b : None # [status |-> s, fields |-> f, body |-> b]
    /\ \A n, t, a : None # [name |-> n, text |-> t, attr |-> a]

HeaderTexts == \A i \in DOMAIN headers : /\ heap[headers[i].key] \in Names \cup {<<"Set-Cookie">>}
                                         /\ Lacks(heap[headers[i].value], "CRLF")

CookieTexts ==
    cookie # None =>
        /\ heap[cookie.key] \in Names /\ heap[cookie.value] \in Texts
        /\ \A a \in Attributes : cookie.attr[a] # NoBlock =>
               \E t \in Texts : heap[cookie.attr[a]] = <<Mark(a)>> \o t

\* The texts on the heap are those that handlers pass, and cookies made of them.
TextInv ==
    /\ status \in Statuses \cup {"OK"} /\ pc \in {"handler", "list", "separate", "sent"}
    /\ HeaderTexts /\ CookieTexts

\* The line of a header.
LineOf(h) == heap[h.key] \o (<<": ">> \o heap[h.value])
Listed    == [i \in DOMAIN headers |-> LineOf(headers[i])]

\* What is made of tokens, and the status line.
Sendable == Tokens \cup Statuses \cup {"OK", "HTTP/1.0"}

\* What is written so far is the status line and a line for each header that is listed;
\* what is sent is read as the reply.
WireInv ==
    /\ pc \in {"list", "separate"} =>
           /\ wire \in Seq(Sendable) /\ Len(wire) >= 2 /\ wire[2] = status
           /\ Lines(wire \o sbuf, (IF pc = "list" THEN listed ELSE Len(headers)) + 1, Listed)
    /\ pc = "list" => listed <= Len(headers)
    /\ pc = "sent" => Read(wire) = [status |-> status, fields |-> FieldsSet, body |-> BodySet]

---------------------------------------------------------------------------
(* A cookie is read as it was set *)

LEMMA MarkIs ==
    ASSUME NEW a \in {"Expires", "Max-Age", "Domain", "Path"}
    PROVE  Mark(a) = MarkOf(a) /\ a \notin {"Secure", "HttpOnly"}
BY Zenon DEF Mark, MarkOf

\* What is read of an attribute.
Worth(a) ==
    IF a \notin Attributes \/ cookie.attr[a] = NoBlock
    THEN IF a = "Path" THEN <<"/">> ELSE None
    ELSE IF a \in {"Secure", "HttpOnly"} THEN << >> ELSE Tail(heap[cookie.attr[a]])

LEMMA TailOf ==
    ASSUME NEW S, NEW x \in S, NEW t \in Seq(S)
    PROVE  Tail(<<x>> \o t) = t /\ <<x>> \o t \in Seq(S) /\ Len(<<x>> \o t) = Len(t) + 1
OBVIOUS

LEMMA TextIs ==
    ASSUME TextsApart
    PROVE  /\ \A t \in Texts : t \in Seq(Tokens) /\ Plain(t) /\ Lacks(t, "CRLF")
           /\ \A n \in Names \cup {<<"Set-Cookie">>} :
                  n \in Seq(Tokens) /\ Lacks(n, "CRLF") /\ Lacks(n, ": ") /\ Len(n) \in Nat
           /\ \A n \in Names : Plain(n) /\ Lacks(n, "=")
<1>1. ASSUME NEW C, NEW t \in Seq(Tokens \ C)
      PROVE  t \in Seq(Tokens) /\ \A i \in 1..Len(t) : t[i] \notin C
    <2>1. \A i \in 1..Len(t) : t[i] \in Tokens \ C
        OBVIOUS
    <2>2. t \in Seq(Tokens)
        OBVIOUS
    <2>. QED
        BY <2>1, <2>2
<1>2. ASSUME NEW t \in Texts
      PROVE  t \in Seq(Tokens) /\ Plain(t) /\ Lacks(t, "CRLF")
    <2>1. t \in Seq(Tokens) /\ \A i \in 1..Len(t) : t[i] \notin Cuts
        BY <1>1 DEF TextsApart
    <2>. QED
        BY <2>1, Zenon DEF Plain, Lacks, Cuts
<1>3. ASSUME NEW n \in Names
      PROVE  n \in Seq(Tokens) /\ Plain(n) /\ Lacks(n, "CRLF") /\ Lacks(n, ": ") /\ Lacks(n, "=")
    <2>1. n \in Seq(Tokens) /\ \A i \in 1..Len(n) : n[i] \notin Cuts \cup {": ", "="}
        BY <1>1 DEF TextsApart
    <2>. QED
        BY <2>1, Zenon DEF Plain, Lacks, Cuts
<1>4. LET n == <<"Set-Cookie">>
      IN  n \in Seq(Tokens) /\ Lacks(n, "CRLF") /\ Lacks(n, ": ")
    <2>1. "Set-Cookie" \in Tokens
        BY ReplyAssumption
    <2>2. <<"Set-Cookie">> \in Seq(Tokens)
        BY <2>1, OneToken
    <2>3. \A i \in 1..Len(<<"Set-Cookie">>) : <<"Set-Cookie">>[i] = "Set-Cookie"
        OBVIOUS
    <2>. QED
        BY <2>2, <2>3 DEF Lacks
<1>5. \A n \in Names \cup {<<"Set-Cookie">>} :
          n \in Seq(Tokens) /\ Lacks(n, "CRLF") /\ Lacks(n, ": ")
    BY <1>3, <1>4
<1>6. \A n \in Seq(Tokens) : Len(n) \in Nat
    OBVIOUS
<1>. QED
    BY <1>2, <1>3, <1>5, <1>6

LEMMA AttributeRead ==
    ASSUME TextsApart, TypeInv, CookieTexts, cookie # None,
           NEW a \in {"Expires", "Max-Age", "Domain", "Path", "Secure", "HttpOnly"}
    PROVE  Segment(Attribute(a), MarkOf(a), Worth(a))
<1>1. MarkOf(a) \in Marks
    BY Zenon DEF MarkOf, Marks
<1>2. MarkOf(a) \in Tokens
    BY <1>1, MarksAreTokens
<1>3. << >> \in Seq(Tokens) /\ Plain(<< >>) /\ Lacks(<< >>, "CRLF")
    BY DEF Plain, Lacks
<1>6. ASSUME NEW x \in Seq(Tokens), Lacks(x, "CRLF")
      PROVE  Lacks(<<MarkOf(a)>> \o x, "CRLF")
    <2>1. <<MarkOf(a)>> \in Seq(Tokens)
        BY <1>2
    <2>2. MarkOf(a) # "CRLF"
        BY Zenon DEF MarkOf
    <2>3. Lacks(<<MarkOf(a)>>, "CRLF")
        BY <2>2 DEF Lacks
    <2>. QED
        BY <1>6, <2>1, <2>3, LacksJoined
<1>4. CASE a \notin Attributes \/ cookie.attr[a] = NoBlock
    <2>1. CASE a = "Path"
        <3>1. Attribute(a) = <<"; Path=", "/">> /\ Worth(a) = <<"/">> /\ MarkOf(a) = "; Path="
            BY <1>4, <2>1, Zenon DEF Attribute, Worth, MarkOf
        <3>2. "/" \in Tokens
            BY ReplyAssumption
        <3>3. <<"/">> \in Seq(Tokens)
            BY <3>2, OneToken
        <3>4. \A m : <<m, "/">> = <<m>> \o <<"/">>
            OBVIOUS
        <3>5. "/" \notin Marks
            BY Zenon DEF Marks
        <3>6. Plain(<<"/">>) /\ Lacks(<<"/">>, "CRLF")
            BY <3>5 DEF Plain, Lacks
        <3>7. <<"; Path=", "/">> = <<"; Path=">> \o <<"/">>
            BY <3>4, Zenon
        <3>. QED
            BY <1>1, <1>2, <1>6, <3>1, <3>3, <3>6, <3>7, TailOf, Zenon DEF Segment
    <2>2. CASE a # "Path"
        <3>1. Attribute(a) = << >> /\ Worth(a) = None
            BY <1>4, <2>2, Zenon DEF Attribute, Worth
        <3>. QED
            BY <1>1, <1>3, <3>1 DEF Segment
    <2>. QED
        BY <2>1, <2>2
<1>5. CASE a \in Attributes /\ cookie.attr[a] # NoBlock
    <2>1. CASE a \in {"Secure", "HttpOnly"}
        <3>1. Attribute(a) = <<MarkOf(a)>> /\ Worth(a) = << >>
            BY <1>5, <2>1, Zenon DEF Attribute, Worth, MarkOf
        <3>2. <<MarkOf(a)>> = <<MarkOf(a)>> \o << >> /\ <<MarkOf(a)>> \in Seq(Tokens)
            BY <1>2
        <3>. QED
            BY <1>1, <1>3, <1>6, <3>1, <3>2 DEF Segment
    <2>2. CASE a \notin {"Secure", "HttpOnly"}
        <3>1. PICK t \in Texts : heap[cookie.attr[a]] = <<Mark(a)>> \o t
            BY <1>5 DEF CookieTexts
        <3>2. Mark(a) = MarkOf(a)
            BY <2>2, MarkIs
        <3>3. Attribute(a) = heap[cookie.attr[a]] /\ Worth(a) = Tail(heap[cookie.attr[a]])
            BY <1>5, <2>2, Zenon DEF Attribute, Worth
        <3>4. t \in Seq(Tokens) /\ Plain(t) /\ Lacks(t, "CRLF")
            BY TextIs
        <3>5. /\ Tail(<<MarkOf(a)>> \o t) = t /\ <<MarkOf(a)>> \o t \in Seq(Tokens)
            BY <1>2, <3>4, TailOf
        <3>. QED
            BY <1>1, <1>6, <3>1, <3>2, <3>3, <3>4, <3>5, Zenon DEF Segment
    <2>. QED
        BY <2>1, <2>2
<1>. QED
    BY <1>4, <1>5

\* The texts of the attributes, behind a text without marks, are read as they are.
LEMMA AttributesRead ==
    ASSUME NEW p, Only(p, {}),
           \A a \in {"Expires", "Max-Age", "Domain", "Path", "Secure", "HttpOnly"} :
               Segment(Attribute(a), MarkOf(a), Worth(a)),
           NEW t, t = p \o Attribute("Expires") \o Attribute("Max-Age") \o Attribute("Domain")
                        \o Attribute("Path") \o Attribute("Secure") \o Attribute("HttpOnly")
    PROVE  /\ \A a \in {"Expires", "Max-Age", "Domain", "Path", "Secure", "HttpOnly"} :
                  Marked(t, MarkOf(a)) = Worth(a)
           /\ Lacks(t, "CRLF")
           /\ \E q : t = p \o q /\ q \in Seq(Tokens) /\ Starts(q)
<1>. DEFINE s1 == Attribute("Expires")
            s2 == Attribute("Max-Age")
            s3 == Attribute("Domain")
            s4 == Attribute("Path")
            s5 == Attribute("Secure")
            s6 == Attribute("HttpOnly")
            m1 == MarkOf("Expires")
            m2 == MarkOf("Max-Age")
            m3 == MarkOf("Domain")
            m4 == MarkOf("Path")
            m5 == MarkOf("Secure")
            m6 == MarkOf("HttpOnly")
            x1 == Worth("Expires")
            x2 == Worth("Max-Age")
            x3 == Worth("Domain")
            x4 == Worth("Path")
            x5 == Worth("Secure")
            x6 == Worth("HttpOnly")
            q6 == << >>
            q5 == s6 \o q6
            q4 == s5 \o q5
            q3 == s4 \o q4
            q2 == s3 \o q3
            q1 == s2 \o q2
            q0 == s1 \o q1
            p1 == p \o s1
            p2 == p1 \o s2
            p3 == p2 \o s3
            p4 == p3 \o s4
            p5 == p4 \o s5
            p6 == p5 \o s6
<1>1. /\ Segment(s1, m1, x1) /\ Segment(s2, m2, x2) /\ Segment(s3, m3, x3)
      /\ Segment(s4, m4, x4) /\ Segment(s5, m5, x5) /\ Segment(s6, m6, x6)
    OBVIOUS
<1>2. /\ m1 # m2 /\ m1 # m3 /\ m1 # m4 /\ m1 # m5 /\ m1 # m6 /\ m2 # m3 /\ m2 # m4 /\ m2 # m5
      /\ m2 # m6 /\ m3 # m4 /\ m3 # m5 /\ m3 # m6 /\ m4 # m5 /\ m4 # m6 /\ m5 # m6
    BY Zenon DEF MarkOf
<1>3. t = p \o s1 \o s2 \o s3 \o s4 \o s5 \o s6
    OBVIOUS
<1>. HIDE DEF s1, s2, s3, s4, s5, s6, m1, m2, m3, m4, m5, m6, x1, x2, x3, x4, x5, x6
<1>q6. Only(q6, {}) /\ Starts(q6) /\ q6 \in Seq(Tokens)
    BY DEF Only, Lacks, Starts
<1>. HIDE DEF q6
<1>q5. Only(q5, {m6}) /\ Starts(q5) /\ q5 \in Seq(Tokens)
    <2>1. Only(s6 \o q6, {} \cup {m6}) /\ Starts(s6 \o q6)
        BY <1>1, <1>q6, SegmentOnly
    <2>2. {} \cup {m6} = {m6}
        OBVIOUS
    <2>. QED
        BY <2>1, <2>2 DEF Only
<1>. HIDE DEF q5
<1>q4. Only(q4, {m5, m6}) /\ Starts(q4) /\ q4 \in Seq(Tokens)
    <2>1. Only(s5 \o q5, {m6} \cup {m5}) /\ Starts(s5 \o q5)
        BY <1>1, <1>q5, SegmentOnly
    <2>2. {m6} \cup {m5} = {m5, m6}
        OBVIOUS
    <2>. QED
        BY <2>1, <2>2 DEF Only
<1>. HIDE DEF q4
<1>q3. Only(q3, {m4, m5, m6}) /\ Starts(q3) /\ q3 \in Seq(Tokens)
    <2>1. Only(s4 \o q4, {m5, m6} \cup {m4}) /\ Starts(s4 \o q4)
        BY <1>1, <1>q4, SegmentOnly
    <2>2. {m5, m6} \cup {m4} = {m4, m5, m6}
        OBVIOUS
    <2>. QED
        BY <2>1, <2>2 DEF Only
<1>. HIDE DEF q3
<1>q2. Only(q2, {m3, m4, m5, m6}) /\ Starts(q2) /\ q2 \in Seq(Tokens)
    <2>1. Only(s3 \o q3, {m4, m5, m6} \cup {m3}) /\ Starts(s3 \o q3)
        BY <1>1, <1>q3, SegmentOnly
    <2>2. {m4, m5, m6} \cup {m3} = {m3, m4, m5, m6}
        OBVIOUS
    <2>. QED
        BY <2>1, <2>2 DEF Only
<1>. HIDE DEF q2
<1>q1. Only(q1, {m2, m3, m4, m5, m6}) /\ Starts(q1) /\ q1 \in Seq(Tokens)
    <2>1. Only(s2 \o q2, {m3, m4, m5, m6} \cup {m2}) /\ Starts(s2 \o q2)
        BY <1>1, <1>q2, SegmentOnly
    <2>2. {m3, m4, m5, m6} \cup {m2} = {m2, m3, m4, m5, m6}
        OBVIOUS
    <2>. QED
        BY <2>1, <2>2 DEF Only
<1>. HIDE DEF q1
<1>q0. Only(q0, {m1, m2, m3, m4, m5, m6}) /\ Starts(q0) /\ q0 \in Seq(Tokens)
    <2>1. Only(s1 \o q1, {m2, m3, m4, m5, m6} \cup {m1}) /\ Starts(s1 \o q1)
        BY <1>1, <1>q1, SegmentOnly
    <2>2. {m2, m3, m4, m5, m6} \cup {m1} = {m1, m2, m3, m4, m5, m6}
        OBVIOUS
    <2>. QED
        BY <2>1, <2>2 DEF Only
<1>. HIDE DEF q0
<1>p1. Only(p1, {m1}) /\ p1 \in Seq(Tokens)
    <2>1. Only(s1, {m1})
        BY <1>1, <1>q6, SegmentOnly
    <2>2. Only(p1, {} \cup {m1})
        BY <2>1, OnlyJoined
    <2>3. {} \cup {m1} = {m1}
        OBVIOUS
    <2>. QED
        BY <2>2, <2>3 DEF Only
<1>. HIDE DEF p1
<1>p2. Only(p2, {m1, m2}) /\ p2 \in Seq(Tokens)
    <2>1. Only(s2, {m2})
        BY <1>1, <1>q6, SegmentOnly
    <2>2. Only(p2, {m1} \cup {m2})
        BY <1>p1, <2>1, OnlyJoined
    <2>3. {m1} \cup {m2} = {m1, m2}
        OBVIOUS
    <2>. QED
        BY <2>2, <2>3 DEF Only
<1>. HIDE DEF p2
<1>p3. Only(p3, {m1, m2, m3}) /\ p3 \in Seq(Tokens)
    <2>1. Only(s3, {m3})
        BY <1>1, <1>q6, SegmentOnly
    <2>2. Only(p3, {m1, m2} \cup {m3})
        BY <1>p2, <2>1, OnlyJoined
    <2>3. {m1, m2} \cup {m3} = {m1, m2, m3}
        OBVIOUS
    <2>. QED
        BY <2>2, <2>3 DEF Only
<1>. HIDE DEF p3
<1>p4. Only(p4, {m1, m2, m3, m4}) /\ p4 \in Seq(Tokens)
    <2>1. Only(s4, {m4})
        BY <1>1, <1>q6, SegmentOnly
    <2>2. Only(p4, {m1, m2, m3} \cup {m4})
        BY <1>p3, <2>1, OnlyJoined
    <2>3. {m1, m2, m3} \cup {m4} = {m1, m2, m3, m4}
        OBVIOUS
    <2>. QED
        BY <2>2, <2>3 DEF Only
<1>. HIDE DEF p4
<1>p5. Only(p5, {m1, m2, m3, m4, m5}) /\ p5 \in Seq(Tokens)
    <2>1. Only(s5, {m5})
        BY <1>1, <1>q6, SegmentOnly
    <2>2. Only(p5, {m1, m2, m3, m4} \cup {m5})
        BY <1>p4, <2>1, OnlyJoined
    <2>3. {m1, m2, m3, m4} \cup {m5} = {m1, m2, m3, m4, m5}
        OBVIOUS
    <2>. QED
        BY <2>2, <2>3 DEF Only
<1>. HIDE DEF p5
<1>p6. Only(p6, {m1, m2, m3, m4, m5, m6}) /\ p6 \in Seq(Tokens)
    <2>1. Only(s6, {m6})
        BY <1>1, <1>q6, SegmentOnly
    <2>2. Only(p6, {m1, m2, m3, m4, m5} \cup {m6})
        BY <1>p5, <2>1, OnlyJoined
    <2>3. {m1, m2, m3, m4, m5} \cup {m6} = {m1, m2, m3, m4, m5, m6}
        OBVIOUS
    <2>. QED
        BY <2>2, <2>3 DEF Only
<1>. HIDE DEF p6
<1>s. /\ p \in Seq(Tokens) /\ s1 \in Seq(Tokens) /\ s2 \in Seq(Tokens) /\ s3 \in Seq(Tokens)
      /\ s4 \in Seq(Tokens) /\ s5 \in Seq(Tokens) /\ s6 \in Seq(Tokens)
    BY <1>1 DEF Only, Segment
<1>a. \A u, v, w \in Seq(Tokens) : (u \o v) \o w = u \o (v \o w)
    BY Regrouped
<1>t6. t = p6 \o q6
    <2>1. p6 \o q6 = p6
        BY <1>p6 DEF q6
    <2>. QED
        BY <1>3, <2>1 DEF p1, p2, p3, p4, p5, p6
<1>t5. t = p5 \o (s6 \o q6)
    <2>1. p5 \in Seq(Tokens) /\ s6 \in Seq(Tokens) /\ q6 \in Seq(Tokens)
        BY <1>s, <1>p5, <1>q6
    <2>2. (p5 \o s6) \o q6 = p5 \o (s6 \o q6)
        BY <1>a, <2>1, Zenon
    <2>. QED
        BY <1>t6, <2>2 DEF p6
<1>t4. t = p4 \o (s5 \o q5)
    <2>1. p4 \in Seq(Tokens) /\ s5 \in Seq(Tokens) /\ q5 \in Seq(Tokens)
        BY <1>s, <1>p4, <1>q5
    <2>2. (p4 \o s5) \o q5 = p4 \o (s5 \o q5)
        BY <1>a, <2>1, Zenon
    <2>. QED
        BY <1>t5, <2>2 DEF p5, q5
<1>t3. t = p3 \o (s4 \o q4)
    <2>1. p3 \in Seq(Tokens) /\ s4 \in Seq(Tokens) /\ q4 \in Seq(Tokens)
        BY <1>s, <1>p3, <1>q4
    <2>2. (p3 \o s4) \o q4 = p3 \o (s4 \o q4)
        BY <1>a, <2>1, Zenon
    <2>. QED
        BY <1>t4, <2>2 DEF p4, q4
<1>t2. t = p2 \o (s3 \o q3)
    <2>1. p2 \in Seq(Tokens) /\ s3 \in Seq(Tokens) /\ q3 \in Seq(Tokens)
        BY <1>s, <1>p2, <1>q3
    <2>2. (p2 \o s3) \o q3 = p2 \o (s3 \o q3)
        BY <1>a, <2>1, Zenon
    <2>. QED
        BY <1>t3, <2>2 DEF p3, q3
<1>t1. t = p1 \o (s2 \o q2)
    <2>1. p1 \in Seq(Tokens) /\ s2 \in Seq(Tokens) /\ q2 \in Seq(Tokens)
        BY <1>s, <1>p1, <1>q2
    <2>2. (p1 \o s2) \o q2 = p1 \o (s2 \o q2)
        BY <1>a, <2>1, Zenon
    <2>. QED
        BY <1>t2, <2>2 DEF p2, q2
<1>t0. t = p \o (s1 \o q1)
    <2>1. p \in Seq(Tokens) /\ s1 \in Seq(Tokens) /\ q1 \in Seq(Tokens)
        BY <1>s, <1>q1
    <2>2. (p \o s1) \o q1 = p \o (s1 \o q1)
        BY <1>a, <2>1, Zenon
    <2>. QED
        BY <1>t1, <2>2 DEF p1, q1
<1>r1. Marked(t, m1) = x1
    <2>1. m1 \notin {} /\ m1 \notin {m2, m3, m4, m5, m6}
        BY <1>2
    <2>2. Marked(p \o (s1 \o q1), m1) = x1
        BY <1>q1, <1>1, <2>1, SegmentRead
    <2>. QED
        BY <1>t0, <2>2
<1>r2. Marked(t, m2) = x2
    <2>1. m2 \notin {m1} /\ m2 \notin {m3, m4, m5, m6}
        BY <1>2
    <2>2. Marked(p1 \o (s2 \o q2), m2) = x2
        BY <1>p1, <1>q2, <1>1, <2>1, SegmentRead
    <2>. QED
        BY <1>t1, <2>2
<1>r3. Marked(t, m3) = x3
    <2>1. m3 \notin {m1, m2} /\ m3 \notin {m4, m5, m6}
        BY <1>2
    <2>2. Marked(p2 \o (s3 \o q3), m3) = x3
        BY <1>p2, <1>q3, <1>1, <2>1, SegmentRead
    <2>. QED
        BY <1>t2, <2>2
<1>r4. Marked(t, m4) = x4
    <2>1. m4 \notin {m1, m2, m3} /\ m4 \notin {m5, m6}
        BY <1>2
    <2>2. Marked(p3 \o (s4 \o q4), m4) = x4
        BY <1>p3, <1>q4, <1>1, <2>1, SegmentRead
    <2>. QED
        BY <1>t3, <2>2
<1>r5. Marked(t, m5) = x5
    <2>1. m5 \notin {m1, m2, m3, m4} /\ m5 \notin {m6}
        BY <1>2
    <2>2. Marked(p4 \o (s5 \o q5), m5) = x5
        BY <1>p4, <1>q5, <1>1, <2>1, SegmentRead
    <2>. QED
        BY <1>t4, <2>2
<1>r6. Marked(t, m6) = x6
    <2>1. m6 \notin {m1, m2, m3, m4, m5} /\ m6 \notin {}
        BY <1>2
    <2>2. Marked(p5 \o (s6 \o q6), m6) = x6
        BY <1>p5, <1>q6, <1>1, <2>1, SegmentRead
    <2>. QED
        BY <1>t5, <2>2
<1>c. Lacks(t, "CRLF")
    <2>1. "CRLF" \notin {m1, m2, m3, m4, m5, m6}
        <3>1. "CRLF" \notin Marks
            BY Zenon DEF Marks
        <3>. QED
            BY <1>1, <3>1 DEF Segment
    <2>2. t = p6
        BY <1>3 DEF p1, p2, p3, p4, p5, p6
    <2>. QED
        BY <1>p6, <2>1, <2>2 DEF Only
<1>. QED
    BY <1>q0, <1>t0, <1>r1, <1>r2, <1>r3, <1>r4, <1>r5, <1>r6, <1>c
       DEF q0, m1, m2, m3, m4, m5, m6, x1, x2, x3, x4, x5, x6

\* A cookie arrives as it was when it was added.
LEMMA CookieArrives ==
    ASSUME TextsApart, TypeInv, CookieTexts, cookie # None
    PROVE  CookieRead(CookieToString) = Meant!Baked(Jar) /\ Lacks(CookieToString, "CRLF")
<1>. DEFINE k == heap[cookie.key]
            v == heap[cookie.value]
            p == k \o <<"=">> \o v
            t == CookieToString
<1>1. k \in Names /\ v \in Texts
    BY DEF CookieTexts
<1>2. /\ k \in Seq(Tokens) /\ v \in Seq(Tokens) /\ Plain(k) /\ Plain(v)
      /\ Lacks(k, "=") /\ Lacks(k, "CRLF") /\ Lacks(v, "CRLF")
    BY <1>1, TextIs
<1>3. "=" \in Tokens /\ "=" \notin Marks
    <2>1. "=" \in Tokens
        BY ReplyAssumption
    <2>. QED
        BY <2>1, Zenon DEF Marks
<1>. HIDE DEF k, v
<1>4. p \in Seq(Tokens) /\ p = k \o (<<"=">> \o v)
    BY <1>2, <1>3
<1>5. Only(p, {})
    <2>1. \A s : Plain(s) => \A m \in Marks : Lacks(s, m)
        BY DEF Plain, Lacks
    <2>2. <<"=">> \in Seq(Tokens) /\ \A m \in Marks : Lacks(<<"=">>, m)
        BY <1>3 DEF Lacks
    <2>3. Lacks(<<"=">>, "CRLF")
        BY DEF Lacks
    <2>6. Only(k, {}) /\ Only(<<"=">>, {}) /\ Only(v, {})
        BY <1>2, <2>1, <2>2, <2>3 DEF Only
    <2>4. Only(k \o <<"=">>, {} \cup {})
        BY <2>6, OnlyJoined
    <2>5. Only(p, ({} \cup {}) \cup {})
        BY <2>4, <2>6, OnlyJoined
    <2>. QED
        BY <2>5
<1>6. t = p \o Attribute("Expires") \o Attribute("Max-Age") \o Attribute("Domain")
            \o Attribute("Path") \o Attribute("Secure") \o Attribute("HttpOnly")
    BY DEF CookieToString, k, v
<1>7. \A a \in {"Expires", "Max-Age", "Domain", "Path", "Secure", "HttpOnly"} :
          Segment(Attribute(a), MarkOf(a), Worth(a))
    BY AttributeRead
<1>. HIDE DEF p, t
<1>9. /\ \A a \in {"Expires", "Max-Age", "Domain", "Path", "Secure", "HttpOnly"} :
             Marked(t, MarkOf(a)) = Worth(a)
      /\ Lacks(t, "CRLF")
      /\ \E q : t = p \o q /\ q \in Seq(Tokens) /\ Starts(q)
    BY <1>5, <1>6, <1>7, AttributesRead
<1>10. PICK q : t = p \o q /\ q \in Seq(Tokens) /\ Starts(q)
    BY <1>9
<1>11. t = k \o (<<"=">> \o (v \o q)) /\ v \o q \in Seq(Tokens)
    <2>1. <<"=">> \in Seq(Tokens)
        BY <1>3
    <2>2. (k \o (<<"=">> \o v)) \o q = k \o (<<"=">> \o (v \o q))
        BY <1>2, <1>10, <2>1
    <2>. QED
        BY <1>2, <1>4, <1>10, <2>2
<1>12. Before(t, "=") = k
    BY <1>2, <1>3, <1>11, AtFirst
<1>13. Marked(t, "=") = v
    BY <1>2, <1>3, <1>10, <1>11, MarkedBetween
<1>14. CookieRead(t) = [name |-> k, text |-> v, attr |-> [a \in Attributes |-> Worth(a)]]
    <2>1. Attributes \subseteq {"Expires", "Max-Age", "Domain", "Path", "Secure", "HttpOnly"}
        BY ReplyAssumption
    <2>2. [a \in Attributes |-> Marked(t, MarkOf(a))] = [a \in Attributes |-> Worth(a)]
        BY <1>9, <2>1
    <2>. QED
        BY <1>12, <1>13, <2>2 DEF CookieRead
<1>15. Meant!Baked(Jar) = [name |-> k, text |-> v, attr |-> [a \in Attributes |-> Worth(a)]]
    <2>1. Jar = [name |-> k, text |-> v, attr |-> Attr(cookie)]
        BY DEF Jar, k, v
    <2>2. ASSUME NEW a \in Attributes
          PROVE  (CASE a = "Path" /\ Attr(cookie)[a] = None -> <<"/">>
                    [] a \in {"Secure", "HttpOnly"} /\ Attr(cookie)[a] # None -> << >>
                    [] OTHER -> Attr(cookie)[a]) = Worth(a)
        <3>1. CASE cookie.attr[a] = NoBlock
            <4>1. Attr(cookie)[a] = None
                BY <3>1 DEF Attr
            <4>. QED
                BY <3>1, <4>1, Zenon DEF Worth
        <3>2. CASE cookie.attr[a] # NoBlock
            <4>1. Attr(cookie)[a] = Tail(heap[cookie.attr[a]])
                BY <3>2 DEF Attr
            <4>2. PICK r \in Texts : heap[cookie.attr[a]] = <<Mark(a)>> \o r
                BY <3>2 DEF CookieTexts
            <4>3. r \in Seq(Tokens)
                BY TextIs
            <4>4. \A m : Tail(<<m>> \o r) = r
                BY <4>3, TailOf
            <4>5. Attr(cookie)[a] # None
                BY <4>1, <4>2, <4>3, <4>4 DEF TextsApart
            <4>. QED
                BY <3>2, <4>1, <4>5, Zenon DEF Worth
        <3>. QED
            BY <3>1, <3>2
    <2>3. Meant!Baked(Jar) = [name |-> k, text |-> v, attr |-> [a \in Attributes |->
              CASE a = "Path" /\ Attr(cookie)[a] = None -> <<"/">>
                [] a \in {"Secure", "HttpOnly"} /\ Attr(cookie)[a] # None -> << >>
                [] OTHER -> Attr(cookie)[a]]]
        BY <2>1 DEF Meant!Baked
    <2>. QED
        BY <2>2, <2>3
<1>. QED
    BY <1>9, <1>14, <1>15 DEF t

---------------------------------------------------------------------------
(* What is written and sent *)

LEMMA Wider ==
    ASSUME NEW S, NEW W, S \subseteq W, NEW t \in Seq(S)
    PROVE  t \in Seq(W)
    OBVIOUS

LEMMA HeaderLine ==
    ASSUME TextsApart, TypeInv, HeaderTexts, NEW i \in DOMAIN headers
    PROVE  LET u == LineOf(headers[i])
           IN  /\ u \in Seq(Sendable) /\ Lacks(u, "CRLF") /\ Len(u) > 0
               /\ Entry(headers[i]) = u \o <<"CRLF">>
               /\ FieldRead(u) = FieldSet(headers[i])
<1>. DEFINE k == heap[headers[i].key]
            v == heap[headers[i].value]
            c == ": "
            r == <<c>> \o v
            u == k \o r
<1>1. headers[i] \in Pair
    BY DEF TypeInv
<1>2. v \in Seq(Tokens) /\ Lacks(v, "CRLF")
    BY <1>1 DEF TypeInv, Pair, HeaderTexts
<1>3. k \in Seq(Tokens) /\ Lacks(k, "CRLF") /\ Lacks(k, c) /\ Len(k) \in Nat
    BY TextIs DEF HeaderTexts
<1>4. c \in Tokens /\ "CRLF" \in Tokens /\ c # "CRLF"
    <2>1. c \in Tokens /\ "CRLF" \in Tokens
        BY ReplyAssumption
    <2>2. c # "CRLF"
        BY Zenon
    <2>. QED
        BY <2>1, <2>2
<1>. HIDE DEF k, v, c
<1>5. r \in Seq(Tokens) /\ Lacks(r, "CRLF") /\ Len(r) > 0
    <2>1. <<c>> \in Seq(Tokens) /\ Lacks(<<c>>, "CRLF")
        BY <1>4 DEF Lacks
    <2>2. r \in Seq(Tokens) /\ Len(r) = Len(v) + 1 /\ Len(v) \in Nat
        BY <1>2, <1>4, TailOf
    <2>3. Lacks(r, "CRLF")
        BY <1>2, <2>1, LacksJoined
    <2>. HIDE DEF r
    <2>. QED
        BY <2>2, <2>3
<1>6. Before(u, c) = k /\ After(u, c) = v
    BY <1>2, <1>3, <1>4, AtFirst
<1>7. Entry(headers[i]) = u \o <<"CRLF">>
    <2>1. <<c>> \in Seq(Tokens) /\ <<"CRLF">> \in Seq(Tokens)
        BY <1>4
    <2>2. k \o <<c>> \o v \o <<"CRLF">> = (k \o (<<c>> \o v)) \o <<"CRLF">>
        BY <1>2, <1>3, <2>1
    <2>. QED
        BY <2>2 DEF Entry, k, v, c
<1>. HIDE DEF r
<1>8. u \in Seq(Tokens) /\ Lacks(u, "CRLF") /\ Len(u) > 0
    <2>1. Len(u) = Len(k) + Len(r) /\ Len(r) \in Nat /\ u \in Seq(Tokens)
        BY <1>3, <1>5, Joined
    <2>2. Lacks(u, "CRLF")
        BY <1>3, <1>5, LacksJoined
    <2>. HIDE DEF u
    <2>. QED
        BY <1>3, <1>5, <2>1, <2>2
<1>9. u \in Seq(Sendable)
    BY <1>8, Wider DEF Sendable
<1>. HIDE DEF u
<1>10. FieldRead(u) = FieldSet(headers[i])
    BY <1>6 DEF FieldRead, FieldSet, k, v, c
<1>11. u = LineOf(headers[i])
    BY DEF u, r, k, v, c, LineOf
<1>. QED
    BY <1>7, <1>8, <1>9, <1>10, <1>11

LEMMA StatusLine ==
    ASSUME NEW S, NEW a \in S, NEW b \in S, "CRLF" \in S, a # "CRLF", b # "CRLF", NEW l
    PROVE  LET w == <<a, b, "CRLF">>
           IN  w \in Seq(S) /\ Len(w) >= 2 /\ w[2] = b /\ Lines(w, 1, l)
<1>. DEFINE u == <<a, b>>
<1>1. u \in Seq(S) /\ Lacks(u, "CRLF") /\ Len(u) = 2 /\ << >> \in Seq(S) /\ << >> \o u = u
    <2>1. u \in Seq(S) /\ Len(u) = 2 /\ u[1] = a /\ u[2] = b
        BY TwoTokens
    <2>2. Lacks(u, "CRLF")
        BY <2>1 DEF Lacks
    <2>3. << >> \in Seq(S) /\ << >> \o u = u
        BY <2>1
    <2>. QED
        BY <2>1, <2>2, <2>3
<1>2. <<a, b, "CRLF">> = u \o <<"CRLF">> /\ <<a, b, "CRLF">> \in Seq(S)
      /\ Len(<<a, b, "CRLF">>) = 3 /\ <<a, b, "CRLF">>[2] = b
    OBVIOUS
<1>. HIDE DEF u
<1>3. Ends(<< >>) = << >>
    <2>1. PICK U : EndsTo(<< >>, U) /\ Ends(<< >>) = U[Len(<< >>)]
        BY <1>1, EndsAre
    <2>2. Len(<< >>) = 0
        OBVIOUS
    <2>. QED
        BY <2>1, <2>2 DEF EndsTo
<1>4. Ends(u) = << >>
    BY <1>1, <1>3, EndsNoMore
<1>5. Ends(<<a, b, "CRLF">>) = Append(<< >>, 3)
    <2>1. Ends(u \o <<"CRLF">>) = Append(Ends(u), Len(u) + 1)
        BY <1>1, EndsOneMore
    <2>2. Len(u) + 1 = 3
        BY <1>1
    <2>. QED
        BY <1>2, <1>4, <2>1, <2>2, Zenon
<1>6. Len(Append(<< >>, 3)) = 1 /\ Append(<< >>, 3)[1] = 3
    OBVIOUS
<1>. DEFINE w == <<a, b, "CRLF">>
<1>7. Len(w) = 3 /\ Ends(w) = Append(<< >>, 3)
    BY <1>2, <1>5
<1>. HIDE DEF w
<1>8. Lines(w, 1, l)
    BY <1>6, <1>7 DEF Lines
<1>. QED
    BY <1>2, <1>8 DEF w

LEMMA SendableIs ==
    ASSUME TextsApart, TextInv
    PROVE  /\ "CRLF" \in Sendable /\ "HTTP/1.0" \in Sendable /\ status \in Sendable
           /\ status # "CRLF" /\ Tokens \subseteq Sendable
<1>1. "CRLF" \in Tokens
    BY ReplyAssumption
<1>. QED
    BY <1>1 DEF Sendable, TextInv, TextsApart

\* The status line, each header, and the body are written as they are.
LEMMA WireNext ==
    ASSUME TextsApart, TypeInv, BufferInv, TextInv, WireInv, Next
    PROVE  WireInv'
<1>. DEFINE w == wire \o sbuf
<1>0. sbuf \in Seq(Sendable) /\ Len(headers) \in Nat /\ listed \in Nat
    BY SendableIs, Wider DEF BufferInv, TypeInv
<1>1. CASE SendStatus
    <2>1. /\ pc = "handler" /\ pc' \in {"separate", "list"} /\ wire' = <<"HTTP/1.0", status, "CRLF">>
          /\ UNCHANGED <<heap, headers, status, sbuf, listed>> /\ sbuf = << >> /\ listed = 0
          /\ (pc' = "separate" => Len(headers) = 0)
        BY <1>1 DEF SendStatus, Handling, store, reply, BufferInv
    <2>2. wire' \in Seq(Sendable) /\ Len(wire') >= 2 /\ wire'[2] = status /\ Lines(wire', 1, Listed)
        BY <2>1, SendableIs, StatusLine
    <2>3. Listed' = Listed
        BY <2>1 DEF Listed, LineOf
    <2>4. wire' \o sbuf' = wire'
        BY <2>1, <2>2
    <2>5. (IF pc' = "list" THEN listed' ELSE Len(headers')) + 1 = 1
        BY <2>1
    <2>. QED
        BY <1>0, <2>1, <2>2, <2>3, <2>4, <2>5 DEF WireInv
<1>2. CASE ListEntry
    <2>. DEFINE h == headers[listed + 1]
                u == LineOf(h)
    <2>1. /\ pc = "list" /\ pc' = "list" /\ listed < Len(headers) /\ listed' = listed + 1
          /\ sbuf' = sbuf \o Entry(h) /\ UNCHANGED <<heap, headers, status, wire>>
        BY <1>2 DEF ListEntry, store, reply
    <2>2. listed + 1 \in DOMAIN headers
        BY <1>0, <2>1 DEF TypeInv
    <2>3. /\ u \in Seq(Sendable) /\ Lacks(u, "CRLF") /\ Len(u) > 0 /\ Entry(h) = u \o <<"CRLF">>
        BY <2>2, HeaderLine DEF TextInv
    <2>4. Listed[listed + 1] = u
        BY <2>2 DEF Listed
    <2>. HIDE DEF h, u
    <2>5. /\ wire \in Seq(Sendable) /\ Len(wire) >= 2 /\ wire[2] = status
          /\ Lines(w, listed + 1, Listed)
        BY <2>1 DEF WireInv
    <2>6. w \in Seq(Sendable)
        BY <1>0, <2>5
    <2>. DEFINE n == listed + 1
    <2>7. Lines(w \o (u \o <<"CRLF">>), n + 1, Listed)
        <3>. HIDE DEF w, n
        <3>1. Lines(w, n, Listed) /\ Listed[n] = u
            BY <2>4, <2>5 DEF n
        <3>. QED
            BY <2>3, <2>6, <3>1, SendableIs, LinesNext
    <2>8. wire' \o sbuf' = w \o (u \o <<"CRLF">>)
        <3>1. u \o <<"CRLF">> \in Seq(Sendable)
            BY <2>3, SendableIs
        <3>. DEFINE x == u \o <<"CRLF">>
        <3>2. x \in Seq(Sendable) /\ sbuf' = sbuf \o x /\ wire' = wire
            BY <2>1, <2>3, <3>1
        <3>. HIDE DEF x
        <3>3. wire \o (sbuf \o x) = (wire \o sbuf) \o x
            BY <1>0, <2>5, <3>2
        <3>. QED
            BY <3>2, <3>3 DEF x
    <2>9. Listed' = Listed
        BY <2>1 DEF Listed, LineOf
    <2>. QED
        BY <1>0, <2>1, <2>5, <2>7, <2>8, <2>9 DEF WireInv
<1>3. CASE SendHeaders
    <2>1. /\ pc = "list" /\ pc' = "separate" /\ listed = Len(headers) /\ wire' = w /\ sbuf' = << >>
          /\ UNCHANGED <<heap, headers, status>>
        BY <1>3 DEF SendHeaders, store, reply
    <2>2. /\ wire \in Seq(Sendable) /\ Len(wire) >= 2 /\ wire[2] = status
          /\ Lines(w, Len(headers) + 1, Listed)
        BY <2>1 DEF WireInv
    <2>3. w \in Seq(Sendable) /\ Len(w) >= 2 /\ w[2] = status
        BY <1>0, <2>2, Joined
    <2>. HIDE DEF w
    <2>4. wire' \o sbuf' = w
        BY <2>1, <2>3
    <2>5. Listed' = Listed
        BY <2>1 DEF Listed, LineOf
    <2>. QED
        BY <2>1, <2>2, <2>3, <2>4, <2>5 DEF WireInv
<1>4. CASE SendBody
    <2>. DEFINE n == Len(headers) + 1
    <2>1. /\ pc = "separate" /\ pc' = "sent" /\ wire' = (wire \o <<"CRLF">>) \o BodySet
          /\ UNCHANGED <<heap, headers, body, status>> /\ sbuf = << >>
        BY <1>4 DEF SendBody, store, reply, BodySet, BufferInv
    <2>2. /\ wire \in Seq(Sendable) /\ Len(wire) >= 2 /\ wire[2] = status
          /\ Lines(wire \o sbuf, n, Listed)
        BY <2>1 DEF WireInv
    <2>3. wire \o sbuf = wire
        BY <2>1, <2>2
    <2>4. BodySet \in Seq(Sendable)
        <3>1. BodySet \in Seq(Tokens)
            BY DEF BodySet, TypeInv, NoBlock
        <3>. QED
            BY <3>1, SendableIs, Wider
    <2>5. Lines(wire, n, Listed)
        BY <2>2, <2>3
    <2>. HIDE DEF n
    <2>6. Read(wire') = [status |-> wire[2], fields |-> [k \in 1..(n - 1) |-> FieldRead(Listed[k])],
                         body |-> BodySet]
        BY <2>1, <2>2, <2>4, <2>5, SendableIs, ReadLines
    <2>7. [k \in 1..(n - 1) |-> FieldRead(Listed[k])] = FieldsSet
        <3>1. 1..(n - 1) = DOMAIN headers
            BY <1>0 DEF n, TypeInv
        <3>2. ASSUME NEW k \in DOMAIN headers PROVE FieldRead(Listed[k]) = FieldSet(headers[k])
            BY HeaderLine DEF Listed, TextInv
        <3>. QED
            BY <3>1, <3>2 DEF FieldsSet
    <2>8. FieldsSet' = FieldsSet /\ BodySet' = BodySet
        BY <2>1 DEF FieldsSet, FieldSet, BodySet
    <2>. QED
        BY <2>1, <2>2, <2>6, <2>7, <2>8 DEF WireInv
<1>5. CASE ~(SendStatus \/ ListEntry \/ SendHeaders \/ SendBody)
    <2>1. pc' = "handler"
        BY <1>5 DEF Next, ResponseSetStatus, ResponseAddHeader, ResponseSetBody,
                    ResponseSetBodyMove, CookieInit, CookieSetAttr, ResponseAddCookie, CookieDelete,
                    ResponseDel, Call, Handling
    <2>. QED
        BY <2>1 DEF WireInv
<1>. QED
    BY <1>1, <1>2, <1>3, <1>4, <1>5

---------------------------------------------------------------------------
(* What a call leaves as it was *)

HeadersKeep == \A i \in DOMAIN headers : /\ heap'[headers[i].key] = heap[headers[i].key]
                                         /\ heap'[headers[i].value] = heap[headers[i].value]
CookieKeeps == cookie # None => \A b \in CookieBlocks(cookie) : b # NoBlock => heap'[b] = heap[b]
BodyKeeps   == body # NoBlock => heap'[body] = heap[body]

\* Strings are touched only by what their owner is asked for.
LEMMA Untouched ==
    ASSUME TypeInv, OneOwner, NEW gone, \A b \in live \ gone : heap'[b] = heap[b]
    PROVE  /\ (\A b \in gone \cap Blocks : ~HeldByHeader(b)) => HeadersKeep
           /\ (\A b \in gone \cap Blocks : ~HeldByCookie(b)) => CookieKeeps
           /\ body \notin gone \/ body = NoBlock => BodyKeeps
<1>1. ASSUME \A b \in gone \cap Blocks : ~HeldByHeader(b), NEW i \in DOMAIN headers
      PROVE  /\ heap'[headers[i].key] = heap[headers[i].key]
             /\ heap'[headers[i].value] = heap[headers[i].value]
    <2>1. headers[i] \in Pair
        BY DEF TypeInv
    <2>2. headers[i].key \in Blocks /\ headers[i].value \in Blocks
        BY <2>1 DEF Pair
    <2>3. HeldByHeader(headers[i].key) /\ HeldByHeader(headers[i].value)
        BY DEF HeldByHeader
    <2>4. headers[i].key \in live \ gone /\ headers[i].value \in live \ gone
        BY <1>1, <2>2, <2>3 DEF OneOwner
    <2>. QED
        BY <2>4
<1>2. ASSUME \A b \in gone \cap Blocks : ~HeldByCookie(b), cookie # None,
             NEW b \in CookieBlocks(cookie), b # NoBlock
      PROVE  heap'[b] = heap[b]
    <2>1. b \in Blocks
        BY <1>2 DEF TypeInv, Cookie, CookieBlocks
    <2>2. HeldByCookie(b)
        BY <1>2 DEF HeldByCookie
    <2>3. b \in live \ gone
        BY <1>2, <2>1, <2>2 DEF OneOwner
    <2>. QED
        BY <2>3
<1>3. ASSUME body \notin gone, body # NoBlock
      PROVE  heap'[body] = heap[body]
    <2>1. body \in live \ gone
        BY <1>3 DEF TypeInv, OneOwner
    <2>. QED
        BY <2>1
<1>4. (\A b \in gone \cap Blocks : ~HeldByHeader(b)) => HeadersKeep
    BY <1>1 DEF HeadersKeep
<1>5. (\A b \in gone \cap Blocks : ~HeldByCookie(b)) => CookieKeeps
    BY <1>2 DEF CookieKeeps
<1>. QED
    BY <1>3, <1>4, <1>5 DEF BodyKeeps

LEMMA NothingGone ==
    ASSUME TypeInv, OneOwner, \A b \in live : heap'[b] = heap[b]
    PROVE  HeadersKeep /\ CookieKeeps /\ BodyKeeps
<1>1. PICK none : none = {}
    OBVIOUS
<1>2. \A b \in live \ none : heap'[b] = heap[b]
    OBVIOUS
<1>3. /\ \A b \in none \cap Blocks : ~HeldByHeader(b)
      /\ \A b \in none \cap Blocks : ~HeldByCookie(b)
      /\ body \notin none
    BY <1>1
<1>. QED
    BY <1>2, <1>3, Untouched

LEMMA FieldsSame ==
    ASSUME HeadersKeep, headers' = headers
    PROVE  FieldsSet' = FieldsSet /\ (HeaderTexts => HeaderTexts')
<1>1. \A i \in DOMAIN headers : FieldSet(headers[i])' = FieldSet(headers[i])
    BY DEF HeadersKeep, FieldSet
<1>. QED
    BY <1>1 DEF FieldsSet, HeadersKeep, HeaderTexts

LEMMA JarSame ==
    ASSUME TypeInv, CookieKeeps, cookie' = cookie
    PROVE  Jar' = Jar /\ (CookieTexts => CookieTexts')
<1>1. CASE cookie = None
    BY <1>1 DEF Jar, CookieTexts
<1>2. CASE cookie # None
    <2>1. cookie.key \in Blocks /\ cookie.value \in Blocks /\ NoBlock \notin Blocks
        BY <1>2, NoBlockIsNone DEF TypeInv, Cookie
    <2>2. \A a \in Attributes : cookie.attr[a] # NoBlock => heap'[cookie.attr[a]] = heap[cookie.attr[a]]
        BY <1>2 DEF CookieKeeps, CookieBlocks
    <2>3. heap'[cookie.key] = heap[cookie.key] /\ heap'[cookie.value] = heap[cookie.value]
        BY <1>2, <2>1 DEF CookieKeeps, CookieBlocks
    <2>4. Attr(cookie)' = Attr(cookie)
        BY <2>2 DEF Attr
    <2>5. Jar' = Jar
        BY <1>2, <2>3, <2>4 DEF Jar
    <2>6. CookieTexts => CookieTexts'
        BY <1>2, <2>2, <2>3 DEF CookieTexts
    <2>. QED
        BY <2>5, <2>6
<1>. QED
    BY <1>1, <1>2

LEMMA BodySame ==
    ASSUME BodyKeeps, body' = body
    PROVE  BodySet' = BodySet
BY DEF BodyKeeps, BodySet

\* A header is added at the end.
LEMMA FieldAdded ==
    ASSUME TypeInv, HeadersKeep, NEW h \in Pair, headers' = Append(headers, h)
    PROVE  /\ FieldsSet' = Append(FieldsSet, FieldSet(h)')
           /\ HeaderTexts /\ heap'[h.key] \in Names \cup {<<"Set-Cookie">>}
                  /\ Lacks(heap'[h.value], "CRLF") => HeaderTexts'
<1>0. PICK n : n = Len(headers)
    OBVIOUS
<1>1. /\ DOMAIN headers' = 1..(n + 1) /\ DOMAIN headers = 1..n
      /\ n \in Nat /\ headers'[n + 1] = h
      /\ \A i \in DOMAIN headers : headers'[i] = headers[i]
    BY <1>0, Appended DEF TypeInv
<1>. DEFINE V == {FieldSet(headers[i]) : i \in DOMAIN headers} \cup {FieldSet(h)'}
<1>2. FieldsSet \in Seq(V) /\ Len(FieldsSet) = n /\ DOMAIN FieldsSet = 1..n
    <2>1. FieldsSet \in [1..n -> V]
        BY <1>1 DEF FieldsSet
    <2>. HIDE DEF V
    <2>. QED
        BY <1>1, <2>1
<1>3. \A i \in DOMAIN headers : FieldSet(headers[i])' = FieldSet(headers[i])
    BY DEF HeadersKeep, FieldSet
<1>4. /\ FieldsSet' \in [1..(n + 1) -> V]
      /\ \A i \in 1..n : FieldsSet'[i] = FieldsSet[i]
      /\ FieldsSet'[n + 1] = FieldSet(h)'
    <2>1. FieldsSet' = [i \in 1..(n + 1) |-> FieldSet(headers[i])']
        BY <1>1 DEF FieldsSet
    <2>2. FieldSet(headers[n + 1])' = FieldSet(h)'
        BY <1>1 DEF FieldSet
    <2>3. \A i \in 1..n : FieldSet(headers[i])' = FieldsSet[i] /\ FieldsSet[i] \in V
        BY <1>1, <1>3 DEF FieldsSet
    <2>4. n \in Nat /\ \A i \in 1..(n + 1) : i \in 1..n \/ i = n + 1
        BY <1>1
    <2>5. FieldSet(h)' \in V
        OBVIOUS
    <2>. DEFINE e(i) == FieldSet(headers[i])'
                x == FieldSet(h)'
    <2>6. /\ FieldsSet' = [i \in 1..(n + 1) |-> e(i)] /\ e(n + 1) = x /\ x \in V
          /\ \A i \in 1..n : e(i) = FieldsSet[i] /\ e(i) \in V
        BY <2>1, <2>2, <2>3, <2>5
    <2>. HIDE DEF e, x, V
    <2>7. n + 1 \in 1..(n + 1) /\ \A i \in 1..n : i \in 1..(n + 1)
        BY <2>4
    <2>8. \A i \in 1..(n + 1) : e(i) \in V
        BY <2>4, <2>6
    <2>9. FieldsSet'[n + 1] = x /\ \A i \in 1..n : FieldsSet'[i] = FieldsSet[i]
        BY <2>6, <2>7
    <2>10. FieldsSet' \in [1..(n + 1) -> V]
        BY <2>6, <2>8
    <2>. QED
        BY <2>9, <2>10 DEF x
<1>5. FieldsSet' = Append(FieldsSet, FieldSet(h)')
    <2>. DEFINE x == FieldSet(h)'
                f == FieldsSet
                g == FieldsSet'
    <2>1. /\ f \in Seq(V) /\ Len(f) = n /\ n \in Nat /\ x \in V
          /\ g \in [1..(n + 1) -> V] /\ g[n + 1] = x
          /\ \A i \in 1..n : g[i] = f[i]
        BY <1>1, <1>2, <1>4
    <2>. HIDE DEF x, f, g, V
    <2>2. /\ Append(f, x) \in Seq(V) /\ DOMAIN Append(f, x) = 1..(n + 1) /\ Append(f, x)[n + 1] = x
          /\ \A i \in 1..n : Append(f, x)[i] = f[i]
        <3>1. DOMAIN f = 1..n
            BY <2>1
        <3>. QED
            BY <2>1, <3>1, Appended
    <2>3. \A i \in 1..(n + 1) : Append(f, x)[i] = g[i]
        <3>1. \A i \in 1..(n + 1) : i \in 1..n \/ i = n + 1
            BY <2>1
        <3>. QED
            BY <2>1, <2>2, <3>1
    <2>4. Append(f, x) = [i \in 1..(n + 1) |-> Append(f, x)[i]]
        <3>. DEFINE a == Append(f, x)
        <3>1. a \in Seq(V) /\ DOMAIN a = 1..(n + 1)
            BY <2>2
        <3>. HIDE DEF a
        <3>2. a = [i \in 1..(n + 1) |-> a[i]]
            BY <3>1
        <3>. QED
            BY <3>2 DEF a
    <2>5. g = [i \in 1..(n + 1) |-> g[i]]
        BY <2>1
    <2>6. g = Append(f, x)
        BY <2>3, <2>4, <2>5
    <2>. QED
        BY <2>6 DEF g, f, x
<1>6. ASSUME HeaderTexts, heap'[h.key] \in Names \cup {<<"Set-Cookie">>}, Lacks(heap'[h.value], "CRLF")
      PROVE  HeaderTexts'
    <2>. SUFFICES ASSUME NEW i \in DOMAIN headers'
                  PROVE  /\ heap'[headers'[i].key] \in Names \cup {<<"Set-Cookie">>}
                         /\ Lacks(heap'[headers'[i].value], "CRLF")
        BY DEF HeaderTexts, Lacks
    <2>1. CASE i \in DOMAIN headers
        <3>1. /\ heap[headers[i].key] \in Names \cup {<<"Set-Cookie">>}
              /\ Lacks(heap[headers[i].value], "CRLF") /\ headers'[i] = headers[i]
            BY <1>1, <1>6, <2>1 DEF HeaderTexts
        <3>. QED
            BY <2>1, <3>1 DEF HeadersKeep
    <2>2. CASE i = n + 1
        BY <1>1, <1>6, <2>2
    <2>. QED
        BY <1>1, <2>1, <2>2
<1>. QED
    BY <1>5, <1>6

---------------------------------------------------------------------------
(* Each call does to the message what it means *)

LEMMA AllSame ==
    ASSUME UNCHANGED <<heap, headers, body, cookie>>
    PROVE  /\ FieldsSet' = FieldsSet /\ Jar' = Jar /\ BodySet' = BodySet
           /\ (HeaderTexts => HeaderTexts') /\ (CookieTexts => CookieTexts')
<1>1. FieldsSet' = FieldsSet
    BY DEF FieldsSet, FieldSet
<1>2. Jar' = Jar
    BY DEF Jar, Attr
<1>3. BodySet' = BodySet
    BY DEF BodySet
<1>4. (HeaderTexts => HeaderTexts') /\ (CookieTexts => CookieTexts')
    BY DEF HeaderTexts, CookieTexts
<1>. QED
    BY <1>1, <1>2, <1>3, <1>4

LEMMA PairPut ==
    ASSUME TypeInv, NEW k, NEW v, PutPair(k, v)
    PROVE  /\ First \in Blocks /\ Second \in Blocks
           /\ heap'[First] = k /\ heap'[Second] = v
           /\ \A b \in live : heap'[b] = heap[b]
<1>1. First \in Blocks /\ First \notin live
    BY NewIsFree DEF PutPair, First
<1>2. Second \in Blocks /\ Second \notin live \cup {First}
    BY NewIsFree DEF PutPair, Second
<1>3. PICK f, g : f = First /\ g = Second
    OBVIOUS
<1>4. heap' = [heap EXCEPT ![f] = k, ![g] = v]
    BY <1>3 DEF PutPair
<1>5. f \in Blocks \ live /\ g \in Blocks \ live /\ f # g
    BY <1>1, <1>2, <1>3
<1>6. heap \in [Blocks -> Seq(Tokens)] /\ live \subseteq Blocks
    BY DEF TypeInv
<1>7. heap'[f] = k /\ heap'[g] = v
    BY <1>4, <1>5, <1>6
<1>8. \A b \in live : heap'[b] = heap[b]
    BY <1>4, <1>5, <1>6
<1>. QED
    BY <1>3, <1>5, <1>7, <1>8

LEMMA OnePut ==
    ASSUME TypeInv, NEW t, NEW dead, Put(t, dead)
    PROVE  /\ New(live \ dead) \in Blocks /\ heap'[New(live \ dead)] = t
           /\ \A b \in live \ dead : heap'[b] = heap[b]
<1>1. New(live \ dead) \in Blocks /\ New(live \ dead) \notin live \ dead
    BY NewIsFree DEF Put
<1>2. PICK f : f = New(live \ dead)
    OBVIOUS
<1>3. heap' = [Freed(dead) EXCEPT ![f] = t]
    BY <1>2 DEF Put
<1>4. /\ DOMAIN Freed(dead) = Blocks /\ live \subseteq Blocks
      /\ \A b \in Blocks \ dead : Freed(dead)[b] = heap[b]
    BY DEF Freed, TypeInv
<1>. HIDE DEF Freed
<1>5. heap'[f] = t
    BY <1>1, <1>2, <1>3, <1>4
<1>6. \A b \in live \ dead : heap'[b] = heap[b]
    BY <1>1, <1>2, <1>3, <1>4
<1>. QED
    BY <1>1, <1>2, <1>5, <1>6

\* Nothing has arrived while the handler runs.
LEMMA NotYet == pc # "sent" => Arrived = None
BY DEF Arrived

LEMMA StatusStep ==
    ASSUME TypeInv, TextInv, ResponseSetStatus
    PROVE  TextInv' /\ Meant!SetStatus
<1>1. /\ pc = "handler" /\ pc' = "handler" /\ UNCHANGED <<heap, headers, body, cookie>>
      /\ \E s \in Statuses : status' = s
    BY DEF ResponseSetStatus, Handling, store
<1>2. TextInv'
    BY <1>1, AllSame DEF TextInv
<1>3. Arrived = None /\ Arrived' = None
    BY <1>1 DEF Arrived
<1>. QED
    BY <1>1, <1>2, <1>3, AllSame DEF Meant!SetStatus

LEMMA HeaderStep ==
    ASSUME TextsApart, TypeInv, OneOwner, TextInv, ResponseAddHeader
    PROVE  TextInv' /\ Meant!AddField
<1>1. PICK n \in Names, t \in Texts : PutPair(n, t)
    BY DEF ResponseAddHeader
<1>2. PICK f, g : f = First /\ g = Second
    OBVIOUS
<1>. DEFINE h == [key |-> f, value |-> g]
<1>3. /\ pc = "handler" /\ pc' = "handler" /\ UNCHANGED <<status, body, cookie>>
      /\ headers' = Append(headers, h)
    BY <1>2 DEF ResponseAddHeader, Call, Handling
<1>4. /\ h \in Pair /\ h.key = f /\ h.value = g /\ heap'[f] = n /\ heap'[g] = t
      /\ \A b \in live : heap'[b] = heap[b]
    BY <1>1, <1>2, PairPut DEF Pair
<1>. HIDE DEF h
<1>5. HeadersKeep /\ CookieKeeps /\ BodyKeeps
    BY <1>4, NothingGone
<1>6. FieldSet(h)' = [name |-> n, text |-> t]
    <2>1. FieldSet(h)' = [name |-> heap'[h.key],
                          text |-> IF heap'[h.key] = <<"Set-Cookie">> THEN CookieRead(heap'[h.value])
                                   ELSE heap'[h.value]]
        BY DEF FieldSet
    <2>2. n # <<"Set-Cookie">>
        BY DEF TextsApart
    <2>. QED
        BY <1>4, <2>1, <2>2
<1>7. FieldsSet' = Append(FieldsSet, [name |-> n, text |-> t]) /\ HeaderTexts'
    <2>1. Lacks(t, "CRLF")
        BY TextIs
    <2>. QED
        BY <1>3, <1>4, <1>5, <1>6, <2>1, FieldAdded DEF TextInv
<1>8. Jar' = Jar /\ BodySet' = BodySet /\ CookieTexts'
    BY <1>3, <1>5, JarSame, BodySame DEF TextInv
<1>9. Arrived = None /\ Arrived' = None
    BY <1>3 DEF Arrived
<1>. QED
    BY <1>3, <1>7, <1>8, <1>9 DEF TextInv, Meant!AddField

\* The old body is freed, and b is the new one.
LEMMA BodyStep ==
    ASSUME TypeInv, OneOwner, TextInv, NEW b \in Bodies, pc = "handler", pc' = "handler",
           \A c \in live \ {body} : heap'[c] = heap[c], body' \in Blocks, heap'[body'] = b,
           UNCHANGED <<status, headers, cookie>>
    PROVE  TextInv' /\ Meant!SetBody
<1>1. \A c \in {body} \cap Blocks : ~HeldByHeader(c) /\ ~HeldByCookie(c)
    BY DEF OneOwner
<1>2. HeadersKeep /\ CookieKeeps
    BY <1>1, Untouched
<1>3. FieldsSet' = FieldsSet /\ Jar' = Jar /\ HeaderTexts' /\ CookieTexts'
    BY <1>2, FieldsSame, JarSame DEF TextInv
<1>4. BodySet' = b
    BY NoBlockIsNone DEF BodySet
<1>5. Arrived = None /\ Arrived' = None
    BY DEF Arrived
<1>. QED
    BY <1>3, <1>4, <1>5 DEF TextInv, Meant!SetBody

LEMMA SomeJar ==
    ASSUME TextsApart, cookie # None
    PROVE  Jar # None
BY DEF TextsApart, Jar

LEMMA CookieStep ==
    ASSUME TextsApart, TypeInv, OneOwner, TextInv, CookieInit
    PROVE  TextInv' /\ Meant!NewCookie
<1>1. PICK n \in Names, t \in Texts : PutPair(n, t)
    BY DEF CookieInit
<1>2. PICK f, g : f = First /\ g = Second
    OBVIOUS
<1>3. /\ pc = "handler" /\ pc' = "handler" /\ UNCHANGED <<status, headers, body>> /\ cookie = None
      /\ cookie' = [key |-> f, value |-> g, attr |-> [a \in Attributes |-> NoBlock]]
    BY <1>2 DEF CookieInit, Call, Handling, reply
<1>4. /\ f \in Blocks /\ g \in Blocks /\ heap'[f] = n /\ heap'[g] = t
      /\ \A b \in live : heap'[b] = heap[b]
    BY <1>1, <1>2, PairPut
<1>5. HeadersKeep /\ BodyKeeps
    BY <1>4, NothingGone
<1>6. FieldsSet' = FieldsSet /\ BodySet' = BodySet /\ HeaderTexts'
    BY <1>3, <1>5, FieldsSame, BodySame DEF TextInv
<1>7. /\ cookie' # None /\ cookie'.key = f /\ cookie'.value = g
      /\ \A a \in Attributes : cookie'.attr[a] = NoBlock
    <2>1. cookie' \in Cookie
        BY <1>3, <1>4 DEF Cookie
    <2>. QED
        BY <1>3, <2>1, NoneAssumption
<1>8. CookieTexts'
    BY <1>4, <1>7 DEF CookieTexts
<1>9. Jar = None /\ Jar' = [name |-> n, text |-> t, attr |-> [a \in Attributes |-> None]]
    <2>1. Attr(cookie)' = [a \in Attributes |-> None]
        BY <1>7 DEF Attr
    <2>. QED
        BY <1>3, <1>4, <1>7, <2>1 DEF Jar
<1>10. Arrived = None /\ Arrived' = None
    BY <1>3 DEF Arrived
<1>. QED
    BY <1>3, <1>6, <1>8, <1>9, <1>10 DEF TextInv, Meant!NewCookie

LEMMA AttributeStep ==
    ASSUME TextsApart, TypeInv, OneOwner, TextInv, CookieSetAttr
    PROVE  TextInv' /\ Meant!SetAttribute
<1>1. PICK a \in Attributes, t \in Texts \ {<< >>} :
          /\ Put(<<Mark(a)>> \o t, {cookie.attr[a]})
          /\ cookie' = [cookie EXCEPT !.attr[a] = New(live \ {cookie.attr[a]})]
    BY DEF CookieSetAttr
<1>2. PICK old, new : old = cookie.attr[a] /\ new = New(live \ {old})
    OBVIOUS
<1>3. /\ pc = "handler" /\ pc' = "handler" /\ UNCHANGED <<status, headers, body>>
      /\ cookie # None /\ cookie \in Cookie /\ cookie' = [cookie EXCEPT !.attr[a] = new]
    BY <1>1, <1>2 DEF CookieSetAttr, Call, Handling, reply, TypeInv
<1>4. /\ new \in Blocks /\ heap'[new] = <<Mark(a)>> \o t
      /\ \A b \in live \ {old} : heap'[b] = heap[b]
    BY <1>1, <1>2, OnePut
<1>5. /\ cookie'.key = cookie.key /\ cookie'.value = cookie.value /\ cookie'.attr[a] = new
      /\ \A b \in Attributes : b # a => cookie'.attr[b] = cookie.attr[b]
      /\ cookie' # None
    <2>1. cookie = [key |-> cookie.key, value |-> cookie.value, attr |-> cookie.attr]
          /\ cookie.attr \in [Attributes -> Blocks \cup {NoBlock}]
          /\ cookie.key \in Blocks /\ cookie.value \in Blocks
        BY <1>3 DEF Cookie
    <2>2. cookie' = [key |-> cookie.key, value |-> cookie.value, attr |-> [cookie.attr EXCEPT ![a] = new]]
        BY <1>3, <2>1
    <2>3. [cookie.attr EXCEPT ![a] = new] \in [Attributes -> Blocks \cup {NoBlock}]
        BY <1>4, <2>1
    <2>4. cookie' \in Cookie
        BY <2>1, <2>2, <2>3 DEF Cookie
    <2>. QED
        BY <2>1, <2>2, <2>4, NoneAssumption
<1>6. /\ cookie.key \in Blocks /\ cookie.value \in Blocks /\ NoBlock \notin Blocks
      /\ \A b \in Attributes : cookie.attr[b] \in Blocks \cup {NoBlock}
    BY <1>3, NoBlockIsNone DEF Cookie
<1>7. /\ cookie.key # old /\ cookie.value # old
      /\ \A b \in Attributes : b # a /\ cookie.attr[b] # NoBlock => cookie.attr[b] # old
      /\ \A b \in CookieBlocks(cookie) : b # NoBlock => b \in live
    <2>1. \A b \in CookieBlocks(cookie) : HeldByCookie(b)
        BY <1>3 DEF HeldByCookie
    <2>2. \A b \in CookieBlocks(cookie) : b # NoBlock => b \in Blocks
        BY <1>6 DEF CookieBlocks
    <2>. QED
        BY <1>2, <1>3, <2>1, <2>2 DEF OneOwner, AttributesApart
<1>8. /\ heap'[cookie.key] = heap[cookie.key] /\ heap'[cookie.value] = heap[cookie.value]
      /\ \A b \in Attributes : b # a /\ cookie.attr[b] # NoBlock =>
             heap'[cookie.attr[b]] = heap[cookie.attr[b]]
    BY <1>4, <1>6, <1>7 DEF CookieBlocks
<1>9. HeadersKeep /\ BodyKeeps
    <2>1. \A b \in {old} \cap Blocks : ~HeldByHeader(b) /\ b # body
        <3>1. HeldByCookie(old)
            BY <1>2, <1>3 DEF HeldByCookie, CookieBlocks
        <3>. QED
            BY <3>1 DEF OneOwner
    <2>2. body \notin {old} \/ body = NoBlock
        BY <2>1 DEF TypeInv
    <2>. QED
        BY <1>4, <2>1, <2>2, Untouched
<1>10. FieldsSet' = FieldsSet /\ BodySet' = BodySet /\ HeaderTexts'
    BY <1>3, <1>9, FieldsSame, BodySame DEF TextInv
<1>11. CookieTexts'
    <2>1. CookieTexts
        BY DEF TextInv
    <2>2. heap[cookie.key] \in Names /\ heap[cookie.value] \in Texts
        BY <1>3, <2>1 DEF CookieTexts
    <2>3. ASSUME NEW b \in Attributes, cookie'.attr[b] # NoBlock
          PROVE  \E r \in Texts : heap'[cookie'.attr[b]] = <<Mark(b)>> \o r
        <3>1. CASE b = a
            BY <1>4, <1>5, <3>1
        <3>2. CASE b # a
            <4>1. PICK r \in Texts : heap[cookie.attr[b]] = <<Mark(b)>> \o r
                BY <1>3, <1>5, <2>1, <2>3, <3>2 DEF CookieTexts
            <4>. QED
                BY <1>5, <1>8, <2>3, <3>2, <4>1
        <3>. QED
            BY <3>1, <3>2
    <2>. QED
        BY <1>5, <1>8, <2>2, <2>3 DEF CookieTexts
<1>12. Jar # None /\ Jar' = [Jar EXCEPT !.attr[a] = t]
    <2>1. Jar = [name |-> heap[cookie.key], text |-> heap[cookie.value], attr |-> Attr(cookie)]
        BY <1>3 DEF Jar
    <2>2. Jar' = [name |-> heap[cookie.key], text |-> heap[cookie.value], attr |-> Attr(cookie)']
        BY <1>5, <1>8 DEF Jar
    <2>3. Tail(<<Mark(a)>> \o t) = t
        <3>1. t \in Seq(Tokens)
            BY TextIs
        <3>2. \A m : Tail(<<m>> \o t) = t
            BY <3>1, TailOf
        <3>. QED
            BY <3>2
    <2>4. Attr(cookie)' = [Attr(cookie) EXCEPT ![a] = t]
        <3>1. ASSUME NEW b \in Attributes
              PROVE  (IF cookie'.attr[b] = NoBlock THEN None ELSE Tail(heap'[cookie'.attr[b]]))
                         = IF b = a THEN t ELSE Attr(cookie)[b]
            <4>1. CASE b = a
                BY <1>4, <1>5, <1>6, <2>3, <4>1
            <4>2. CASE b # a
                BY <1>5, <1>8, <4>2 DEF Attr
            <4>. QED
                BY <4>1, <4>2
        <3>2. Attr(cookie)' = [b \in Attributes |-> IF cookie'.attr[b] = NoBlock THEN None
                                                    ELSE Tail(heap'[cookie'.attr[b]])]
            BY DEF Attr
        <3>3. [Attr(cookie) EXCEPT ![a] = t] = [b \in Attributes |-> IF b = a THEN t ELSE Attr(cookie)[b]]
            BY DEF Attr
        <3>. QED
            BY <3>1, <3>2, <3>3
    <2>5. PICK k, v, m, n : /\ k = heap[cookie.key] /\ v = heap[cookie.value]
                            /\ m = Attr(cookie) /\ n = Attr(cookie)'
        OBVIOUS
    <2>6. [[name |-> k, text |-> v, attr |-> m] EXCEPT !.attr[a] = t]
              = [name |-> k, text |-> v, attr |-> [m EXCEPT ![a] = t]]
        OBVIOUS
    <2>7. /\ Jar = [name |-> k, text |-> v, attr |-> m]
          /\ Jar' = [name |-> k, text |-> v, attr |-> [m EXCEPT ![a] = t]]
        BY <2>1, <2>2, <2>4, <2>5
    <2>. QED
        BY <1>3, <2>6, <2>7, SomeJar
<1>13. Arrived = None /\ Arrived' = None
    BY <1>3 DEF Arrived
<1>. QED
    BY <1>1, <1>3, <1>10, <1>11, <1>12, <1>13 DEF TextInv, Meant!SetAttribute

LEMMA AddCookieStep ==
    ASSUME TextsApart, TypeInv, OneOwner, TextInv, ResponseAddCookie
    PROVE  TextInv' /\ Meant!AddCookie
<1>1. PICK f, g, t : f = First /\ g = Second /\ t = CookieToString
    OBVIOUS
<1>. DEFINE h == [key |-> f, value |-> g]
            n == <<"Set-Cookie">>
<1>2. /\ pc = "handler" /\ pc' = "handler" /\ UNCHANGED <<status, body, cookie>>
      /\ cookie # None /\ headers' = Append(headers, h)
    BY <1>1 DEF ResponseAddCookie, Call, Handling
<1>3. PutPair(n, t)
    BY <1>1 DEF ResponseAddCookie
<1>. HIDE DEF n
<1>4. /\ h \in Pair /\ h.key = f /\ h.value = g /\ heap'[f] = n /\ heap'[g] = t
      /\ \A b \in live : heap'[b] = heap[b]
    BY <1>1, <1>3, PairPut DEF Pair
<1>. HIDE DEF h
<1>5. HeadersKeep /\ CookieKeeps /\ BodyKeeps
    BY <1>4, NothingGone
<1>6. CookieRead(t) = Meant!Baked(Jar) /\ Lacks(t, "CRLF")
    BY <1>1, <1>2, CookieArrives DEF TextInv
<1>7. FieldSet(h)' = [name |-> <<"Set-Cookie">>, text |-> Meant!Baked(Jar)]
    <2>1. FieldSet(h)' = [name |-> heap'[h.key],
                          text |-> IF heap'[h.key] = <<"Set-Cookie">> THEN CookieRead(heap'[h.value])
                                   ELSE heap'[h.value]]
        BY DEF FieldSet
    <2>. QED
        BY <1>4, <1>6, <2>1 DEF n
<1>8. FieldsSet' = Append(FieldsSet, [name |-> <<"Set-Cookie">>, text |-> Meant!Baked(Jar)])
      /\ HeaderTexts'
    BY <1>2, <1>4, <1>5, <1>6, <1>7, FieldAdded DEF TextInv, n
<1>9. Jar' = Jar /\ Jar # None /\ BodySet' = BodySet /\ CookieTexts'
    BY <1>2, <1>5, JarSame, BodySame, SomeJar DEF TextInv
<1>10. Arrived = None /\ Arrived' = None
    BY <1>2 DEF Arrived
<1>. QED
    BY <1>2, <1>8, <1>9, <1>10 DEF TextInv, Meant!AddCookie

LEMMA DropStep ==
    ASSUME TextsApart, TypeInv, OneOwner, TextInv, CookieDelete
    PROVE  TextInv' /\ Meant!DropCookie
<1>1. PICK gone : gone = CookieBlocks(cookie)
    OBVIOUS
<1>2. /\ pc = "handler" /\ pc' = "handler" /\ UNCHANGED <<status, headers, body>>
      /\ cookie # None /\ cookie' = None /\ Free(gone)
    BY <1>1 DEF CookieDelete, Handling, reply
<1>3. \A b \in live \ gone : heap'[b] = heap[b]
    BY <1>2 DEF Free, Freed, TypeInv
<1>4. \A b \in gone \cap Blocks : ~HeldByHeader(b) /\ b # body
    BY <1>1, <1>2 DEF HeldByCookie, OneOwner
<1>5. body \notin gone \/ body = NoBlock
    BY <1>4 DEF TypeInv
<1>6. HeadersKeep /\ BodyKeeps
    BY <1>3, <1>4, <1>5, Untouched
<1>7. FieldsSet' = FieldsSet /\ BodySet' = BodySet /\ HeaderTexts'
    BY <1>2, <1>6, FieldsSame, BodySame DEF TextInv
<1>8. Jar # None /\ Jar' = None /\ CookieTexts'
    BY <1>2, SomeJar DEF Jar, CookieTexts
<1>9. Arrived = None /\ Arrived' = None
    BY <1>2 DEF Arrived
<1>. QED
    BY <1>2, <1>7, <1>8, <1>9 DEF TextInv, Meant!DropCookie

LEMMA SetBodyStep ==
    ASSUME TypeInv, OneOwner, TextInv, ResponseSetBody
    PROVE  TextInv' /\ Meant!SetBody
<1>1. PICK b \in Bodies : Put(b, {body})
    BY DEF ResponseSetBody
<1>2. /\ pc = "handler" /\ pc' = "handler" /\ UNCHANGED <<status, headers, cookie>>
      /\ body' = New(live \ {body})
    BY DEF ResponseSetBody, Call, Handling
<1>3. /\ \A c \in live \ {body} : heap'[c] = heap[c]
      /\ body' \in Blocks /\ heap'[body'] = b
    BY <1>1, <1>2, OnePut
<1>. QED
    BY <1>2, <1>3, BodyStep

LEMMA MoveBodyStep ==
    ASSUME TypeInv, OneOwner, TextInv, ResponseSetBodyMove
    PROVE  TextInv' /\ Meant!SetBody
<1>1. PICK f : f = First
    OBVIOUS
<1>2. PICK b \in Bodies : heap' = [Freed({body}) EXCEPT ![f] = b]
    BY <1>1 DEF ResponseSetBodyMove
<1>3. /\ pc = "handler" /\ pc' = "handler" /\ UNCHANGED <<status, headers, cookie>>
      /\ body' = f /\ Room(live)
    BY <1>1 DEF ResponseSetBodyMove, Call, Handling
<1>4. f \in Blocks /\ f \notin live
    BY <1>1, <1>3, NewIsFree DEF First
<1>5. /\ DOMAIN Freed({body}) = Blocks /\ live \subseteq Blocks
      /\ \A c \in Blocks \ {body} : Freed({body})[c] = heap[c]
    BY DEF Freed, TypeInv
<1>. HIDE DEF Freed
<1>6. heap'[f] = b
    BY <1>2, <1>4, <1>5
<1>7. \A c \in live \ {body} : heap'[c] = heap[c]
    BY <1>2, <1>4, <1>5
<1>. QED
    BY <1>3, <1>4, <1>6, <1>7, BodyStep

\* Writing the reply piece by piece changes nothing of the message.
LEMMA WritingStep ==
    ASSUME TextInv, SendStatus \/ ListEntry \/ SendHeaders
    PROVE  TextInv' /\ UNCHANGED Meant!vars
<1>1. /\ UNCHANGED <<heap, headers, body, cookie>> /\ status' = status
      /\ pc # "sent" /\ pc' \in {"list", "separate"}
    BY DEF SendStatus, ListEntry, SendHeaders, store, reply, Handling
<1>2. /\ FieldsSet' = FieldsSet /\ Jar' = Jar /\ BodySet' = BodySet
      /\ (HeaderTexts => HeaderTexts') /\ (CookieTexts => CookieTexts')
    BY <1>1, AllSame
<1>3. Arrived' = Arrived
    BY <1>1 DEF Arrived
<1>. QED
    BY <1>1, <1>2, <1>3 DEF TextInv, Meant!vars

LEMMA ArriveStep ==
    ASSUME TypeInv, TextInv, WireInv', SendBody
    PROVE  TextInv' /\ Meant!Arrive
<1>1. /\ UNCHANGED <<heap, headers, body, cookie>> /\ status' = status
      /\ pc = "separate" /\ pc' = "sent" /\ cookie = None
    BY DEF SendBody, store, reply, TypeInv
<1>2. /\ FieldsSet' = FieldsSet /\ Jar' = Jar /\ BodySet' = BodySet
      /\ (HeaderTexts => HeaderTexts') /\ (CookieTexts => CookieTexts')
    BY <1>1, AllSame
<1>3. Arrived = None /\ Jar = None
    BY <1>1 DEF Arrived, Jar
<1>4. Arrived' = [status |-> status, fields |-> FieldsSet, body |-> BodySet]
    BY <1>1, <1>2 DEF Arrived, WireInv
<1>. QED
    BY <1>1, <1>2, <1>3, <1>4 DEF TextInv, Meant!Arrive

LEMMA AnotherStep ==
    ASSUME TextsApart, TypeInv, WireInv, ResponseDel
    PROVE  TextInv' /\ Meant!Another
<1>1. /\ pc = "sent" /\ pc' = "handler" /\ status' = "OK" /\ headers' = << >>
      /\ body' = NoBlock /\ cookie' = cookie /\ cookie = None
    BY DEF ResponseDel, TypeInv
<1>2. Arrived # None
    BY <1>1 DEF Arrived, WireInv, TextsApart
<1>3. FieldsSet' = << >>
    BY <1>1 DEF FieldsSet
<1>4. Jar' = None /\ BodySet' = << >> /\ Arrived' = None
    BY <1>1 DEF Jar, BodySet, Arrived
<1>5. HeaderTexts' /\ CookieTexts'
    BY <1>1 DEF HeaderTexts, CookieTexts
<1>. QED
    BY <1>1, <1>2, <1>3, <1>4, <1>5 DEF TextInv, Meant!Another

LEMMA StutterStep ==
    ASSUME TextInv, WireInv, UNCHANGED vars
    PROVE  TextInv' /\ WireInv' /\ UNCHANGED Meant!vars
<1>1. /\ UNCHANGED <<heap, headers, body, cookie>>
      /\ UNCHANGED <<status, pc, wire, sbuf, listed>>
    BY DEF vars, store, reply, out
<1>2. /\ FieldsSet' = FieldsSet /\ Jar' = Jar /\ BodySet' = BodySet
      /\ (HeaderTexts => HeaderTexts') /\ (CookieTexts => CookieTexts')
    BY <1>1, AllSame
<1>3. Arrived' = Arrived /\ Listed' = Listed
    BY <1>1 DEF Arrived, Listed, LineOf
<1>4. WireInv'
    BY <1>1, <1>2, <1>3 DEF WireInv
<1>. QED
    BY <1>1, <1>2, <1>3, <1>4 DEF TextInv, Meant!vars

LEMMA ReplyStep ==
    ASSUME TextsApart, TypeInv, OneOwner, BufferInv, TextInv, WireInv, [Next]_vars
    PROVE  TextInv' /\ WireInv' /\ [Meant!Next]_(Meant!vars)
<1>1. CASE Next
    <2>1. WireInv'
        BY <1>1, WireNext
    <2>2. TextInv' /\ (Meant!Next \/ UNCHANGED Meant!vars)
        <3>1. CASE ResponseSetStatus
            BY <3>1, StatusStep DEF Meant!Next
        <3>2. CASE ResponseAddHeader
            BY <3>2, HeaderStep DEF Meant!Next
        <3>3. CASE ResponseSetBody
            BY <3>3, SetBodyStep DEF Meant!Next
        <3>4. CASE ResponseSetBodyMove
            BY <3>4, MoveBodyStep DEF Meant!Next
        <3>5. CASE CookieInit
            BY <3>5, CookieStep DEF Meant!Next
        <3>6. CASE CookieSetAttr
            BY <3>6, AttributeStep DEF Meant!Next
        <3>7. CASE ResponseAddCookie
            BY <3>7, AddCookieStep DEF Meant!Next
        <3>8. CASE CookieDelete
            BY <3>8, DropStep DEF Meant!Next
        <3>9. CASE SendStatus \/ ListEntry \/ SendHeaders
            BY <3>9, WritingStep
        <3>10. CASE SendBody
            BY <2>1, <3>10, ArriveStep DEF Meant!Next
        <3>11. CASE ResponseDel
            BY <3>11, AnotherStep DEF Meant!Next
        <3>. QED
            BY <1>1, <3>1, <3>2, <3>3, <3>4, <3>5, <3>6, <3>7, <3>8, <3>9, <3>10, <3>11 DEF Next
    <2>. QED
        BY <2>1, <2>2
<1>2. CASE UNCHANGED vars
    BY <1>2, StutterStep
<1>. QED
    BY <1>1, <1>2

LEMMA ReplyBegins == Init => TextInv /\ WireInv /\ Meant!Init
<1>. SUFFICES ASSUME Init PROVE TextInv /\ WireInv /\ Meant!Init
    OBVIOUS
<1>1. /\ headers = << >> /\ cookie = None /\ body = NoBlock /\ pc = "handler" /\ status = "OK"
    BY DEF Init
<1>2. FieldsSet = << >> /\ Jar = None /\ BodySet = << >> /\ Arrived = None
    BY <1>1 DEF FieldsSet, Jar, BodySet, Arrived
<1>. QED
    BY <1>1, <1>2 DEF TextInv, WireInv, HeaderTexts, CookieTexts, Meant!Init, Meant!Empty

\* What a browser reads off the wire is the message that the handler meant, its status,
\* its headers in order, each cookie as it was when it was added, and the body, as long as
\* no text of the handler's looks like a part of the head.
THEOREM ArrivesAsMeant ==
    ASSUME TextsApart
    PROVE  Spec => ArrivesAsSet
<1>. DEFINE I == TypeInv /\ OneOwner /\ BufferInv /\ TextInv /\ WireInv
<1>1. Init => I
    BY InitOwner, ReplyBegins, SomeSize DEF Init, BufferInv
<1>2. I /\ [Next]_vars => I'
    BY NextOwner, NextBuffer, ReplyStep
<1>3. Init => Meant!Init
    BY ReplyBegins
<1>4. I /\ [Next]_vars => [Meant!Next]_(Meant!vars)
    BY ReplyStep
<1>. QED
    BY <1>1, <1>2, <1>3, <1>4, PTL DEF Spec, ArrivesAsSet, Meant!Spec
=============================================================================
