--------------------------- MODULE HttpRequestProps ---------------------------
(***************************************************************************)
(* What handlers read is what browsers sent.                               *)
(***************************************************************************)
EXTENDS HttpRequest

\* The names that the code asks for, and how browsers spell them.
Spellings == [name \in { <<"cookie">>, <<"content-type">> } |->
    IF name = <<"cookie">> THEN { <<"Cookie">>, <<"COOKIE">>, name }
                           ELSE { <<"Content-Type">>, name }]

\* The site sets one cookie, and its links have an id behind the handler's name.
ASSUME BrowserAssumption ==
    \A r \in Sendable :
        /\ \A k \in DOMAIN r.headers :
               LET value == r.headers[k].value
               IN  r.headers[k].key \in Spellings[<<"cookie">>] =>
                       /\ Len(value) >= 2 /\ value[1] = "sid" /\ value[2] = "="
                       /\ SubSeq(value, 3, Len(value)) \in Seq(Words)
        /\ (\E k \in DOMAIN r.path : r.path[k] \in Numerals) =>
               /\ Len(r.path) >= 5 /\ r.path[3] = "/" /\ r.path[Len(r.path)] = "/"
               /\ SubSeq(r.path, 4, Len(r.path) - 1) \in Seq(Numerals)

\* recv returned all of it.
whole == got = RequestText(sent)

\* The last value that the browser gave a key, and the first header of a name.
Reversed(list)      == [k \in DOMAIN list |-> list[Len(list) + 1 - k]]
LastOf(fields, key) == KvFind(Reversed(fields), key)
KeysOf(fields)      == {fields[k].key : k \in DOMAIN fields}

FirstHeader(headers, name) ==
    LET k == Position([k \in DOMAIN headers |-> headers[k].key \in Spellings[name]], TRUE)
    IN  IF k = 0 THEN Null ELSE Stripped(headers[k].value)

IsFormSent == FirstHeader(sent.headers, <<"content-type">>) = FormType

\* No value has the character in it that ends values.
Plain(fields) == \A k \in DOMAIN fields : Position(fields[k].value, "&") = 0

\* What a list holds of the fields sent.  Each of them is there, with its value up to the
\* first "&": the parsers decode a text before they cut it up, and what is behind a "&"
\* in a value is taken for fields.  Without one in any value each key has the last value
\* that was sent for it, and no other key has one.
Arrived(list, fields) ==
    /\ \A f \in Range(fields) :
           \E e \in Range(list) : e.key = f.key /\ e.value = UntilOrAll(f.value, "&")
    /\ Plain(fields) => \A key \in KeysOf(fields) \cup KeysOf(list) :
                           KvFind(list, key) = LastOf(fields, key)

\* Query and form have the fields that the browser sent, spaces, "=" and all, but for what
\* Arrived says of "&"; a body of another type gives none.
FieldsAsSent ==
    stage = "done" /\ whole =>
        /\ Arrived(req.query, sent.query)
        /\ IF IsFormSent THEN Arrived(req.form, sent.form) ELSE req.form = << >>

\* A header is found by its name in any case, with its first value and colons in it.
HeadersAsSent ==
    stage = "done" /\ whole =>
        /\ Len(req.headers) = Len(sent.headers)
        /\ \A name \in DOMAIN Spellings : KvFind(req.headers, name) = FirstHeader(sent.headers, name)

\* The session and the id that a handler works with are those of the cookie and of the
\* link that the browser followed, so no member acts as another or on another's post.
\* An id has to have fewer digits than get_id's buffer has bytes.
RoutedAsSent ==
    stage = "done" /\ whole =>
        /\ LET id == SubSeq(sent.path, 4, Len(sent.path) - 1)
           IN  (\E k \in DOMAIN sent.path : sent.path[k] \in Numerals)
               /\ Dir \in ReadsId /\ Len(id) < IdBuffer => req.id = id
        /\ Dir # <<"static">> => LET c == FirstHeader(sent.headers, <<"cookie">>)
                                 IN  req.sid = IF c # Null THEN Behind(c, "=") ELSE Null

\* Where the text ends with a line, or within the first.
CutAtLineEnd == Position(got, CRLF) = 0 \/ got[Len(got)] = CRLF

\* A request, of which recv may have returned the first part only, may lose fields and ends
\* of values; it does not make a handler see something that was not sent.  The parsers
\* read what earlier requests left in the buffer only where one is cut at the end of a
\* line, or within the first; and a "&" in a value makes fields of its own.
CutNeverInvents ==
    stage = "done" =>
        /\ behind => ~whole /\ CutAtLineEnd
        /\ ~behind /\ Plain(sent.query) /\ Plain(sent.form) =>
               \A e \in Range(req.query) \cup Range(req.form) :
                   \E f \in Range(sent.query) \cup Range(sent.form) :
                       /\ e.key = f.key /\ Len(e.value) <= Len(f.value)
                       /\ \A k \in 1..Len(e.value) : e.value[k] = f.value[k]

\* The request is being read: each loop of that ends, whatever the text.
Parsing == stage \notin {"done", "bad", "crashed"}
=============================================================================
