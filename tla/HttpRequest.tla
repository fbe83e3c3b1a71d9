----------------------------- MODULE HttpRequest -----------------------------
(***************************************************************************)
(* requestNew of src/request.c with the parsers of src/http, and what      *)
(* handle and handler/helper.c read out of a request: the handler's name,  *)
(* an id, the session id.  One step per stage and per turn of a loop.      *)
(*                                                                         *)
(* Text is a sequence of tokens: a word of a name or a value, a separator, *)
(* an escape such as "%26", a line end.  "SP" is a space, ";" the "; "     *)
(* between two cookies.                                                    *)
(***************************************************************************)
EXTENDS CText, Functions

CONSTANTS
    Words,          \* what names and values are made of
    Numerals,       \* those of them that ids are written with
    Sendable,       \* the requests that browsers send
    Cut,            \* those of which recv may return the first part alone
    Leftover        \* texts in memory that this request did not write

CRLF     == "CRLF"
IdBuffer == 10              \* get_id: char new_str[10]
Methods  == {"OPTIONS", "GET", "HEAD", "POST", "PUT", "DELETE", "TRACE", "CONNECT"}
Null     == <<"NULL">>
FormType == <<"application/x-www-form-urlencoded">>

\* The handlers that read an id out of the path.
ReadsId  == { <<"connect">>, <<"like">>, <<"unlike">>, <<"profile">> }

\* What separates words, and what no text is.
Between == {"SP", "/", "?", "&", "=", "+", "%26", "%3D", ":", ";"}
NoText  == {"NULL"}

\* The site's own pages and links name the fields; what is typed into one is free text,
\* of which the separators are the part that matters here.
FormFields   == [key : Seq(Words), value : Seq(Words \cup {"SP", "&", "="})]
HeaderFields == [key : Seq(Words), value : Seq(Words \cup Between)]

ASSUME HttpRequestAssumption ==
    /\ Words \cap (Between \cup NoText \cup {CRLF}) = {} /\ Numerals \subseteq Words
    /\ Sendable \subseteq [method : Words, path : Seq(Words \cup {"/"}), version : Words,
                           query : Seq(FormFields), headers : Seq(HeaderFields),
                           form : Seq(FormFields)]
    /\ \A r \in Sendable : r.path # << >>
    /\ Cut \subseteq Sendable
    /\ Leftover \subseteq Seq(Words \cup Between \cup {CRLF})

VARIABLES
    sent, got,      \* the request that the browser sent, and the text that recv returned
    stage,          \* of requestNew, or "done", "bad" (400), "crashed"
    rest,           \* what is left of the text
    behind,         \* whether that lies behind the text's terminator
    todo,           \* what is left of a query or a form
    req             \* the Request, and what handlers read out of it

requestVars == <<sent, got, stage, rest, behind, todo, req>>

---------------------------------------------------------------------------
\* The value of the first entry of a list with the key.
KvFind(list, key) == LET k == Position([k \in DOMAIN list |-> list[k].key], key)
                     IN  IF k = 0 THEN Null ELSE list[k].value

---------------------------------------------------------------------------
(* What a browser sends *)

Escaped(c) == CASE c = "&" -> "%26" [] c = "=" -> "%3D" [] c = "SP" -> "+" [] OTHER -> c

Escapes(t) == [k \in DOMAIN t |-> Escaped(t[k])]

Form(fields) ==
    LET all == Joined([k \in DOMAIN fields |->
                   fields[k].key \o <<"=">> \o Escapes(fields[k].value) \o <<"&">>])
    IN  SubSeq(all, 1, Len(all) - 1)

HeaderLines(headers) == Joined([k \in DOMAIN headers |->
    headers[k].key \o <<":", "SP">> \o headers[k].value \o <<CRLF>>])

RequestText(r) ==
    <<r.method, "SP">> \o r.path
    \o (IF r.query = << >> THEN << >> ELSE <<"?">> \o Form(r.query))
    \o <<"SP", r.version, CRLF>> \o HeaderLines(r.headers) \o <<CRLF>> \o Form(r.form)

---------------------------------------------------------------------------
(* parse_request_line and split_query_string *)

\* Mutant: a plus sign is kept (CutNeverInvents).
UnescapedPlus(c) == CASE c = "%26" -> "&" [] c = "%3D" -> "=" [] OTHER -> c

\* url_decoder
Unescaped(c) == CASE c = "%26" -> "&" [] c = "%3D" -> "=" [] c = "+" -> "SP" [] OTHER -> c

Decoded(t) == [k \in DOMAIN t |-> Unescaped(t[k])]

Versions == {"HTTP/1.0", "HTTP/1.1"}

TakeLine(method, path) ==
    /\ req' = [req EXCEPT !.method = method, !.uri = UntilOrAll(path, "?")]
    /\ stage' = IF Position(path, "?") = 0 THEN "headers" ELSE "query"
    /\ todo' = IF Position(path, "?") = 0 THEN << >> ELSE Decoded(Behind(path, "?")) \o <<"&">>

Refuse == stage' = "bad" /\ UNCHANGED <<todo, req>>

\* What stands behind the first space, and behind the second.
FromPath    == IF Position(rest, "SP") = 0 THEN << >> ELSE Behind(rest, "SP")
FromVersion == IF Position(FromPath, "SP") = 0 THEN << >> ELSE Behind(FromPath, "SP")

ReadRequestLine ==
    /\ stage = "line" /\ Len(FromVersion) >= 2
    /\ rest' = SubSeq(FromVersion, 3, Len(FromVersion))
    /\ IF rest[1] \in Methods /\ FromVersion[1] \in Versions
       THEN TakeLine(rest[1], Until(FromPath, "SP")) ELSE Refuse
    /\ UNCHANGED <<sent, got, behind>>

\* A line that was cut short.  get_uri_len counts on until it meets spaces, sscanf leaves
\* what it does not find unwritten, in version and in uri, and the headers are looked for
\* behind the terminator.
CutLine ==
    /\ stage = "line" /\ Len(FromVersion) < 2
    /\ \/ (rest[1] \in Methods /\ FromVersion # << >> => FromVersion[1] \notin Versions) /\ Refuse
       \/ FromVersion = << >> /\ stage' = "crashed" /\ UNCHANGED <<todo, req>>
       \/ /\ rest[1] \in Methods /\ (FromVersion # << >> => FromVersion[1] \in Versions)
          /\ \E path \in IF FromPath = << >>
                         THEN {t \in Leftover : t # << >> /\ t[1] # "?"}
                         ELSE {UntilOrAll(FromPath, "SP")} : TakeLine(rest[1], path)
    /\ rest' \in Leftover /\ behind' = TRUE
    /\ UNCHANGED <<sent, got>>

---------------------------------------------------------------------------
(* query_parser and the loop of body_parser *)

\* pair_lexer: up to the first '=', and from there up to the next '&'.
Lexed(t) == [key |-> Until(t, "="), value |-> Until(Behind(t, "="), "&")]

Lexes(t) == Position(t, "=") > 0 /\ Position(Behind(t, "="), "&") > 0

\* Mutant: the entry goes to the end of the list (FieldsAsSent).
ReadFieldLast(list) ==
    /\ Lexes(todo)
    /\ req' = [req EXCEPT ![list] = Append(@, Lexed(todo))]
    /\ todo' = Behind(todo, "&")
    /\ UNCHANGED <<sent, got, stage, rest, behind>>

\* The entry goes to the head of the list, and reading goes on behind the first '&'.
ReadField(list) ==
    /\ Lexes(todo)
    /\ req' = [req EXCEPT ![list] = <<Lexed(todo)>> \o @]
    /\ todo' = Behind(todo, "&")
    /\ UNCHANGED <<sent, got, stage, rest, behind>>

EndFields(next) ==
    /\ ~Lexes(todo)
    /\ stage' = next /\ todo' = << >>
    /\ UNCHANGED <<sent, got, rest, behind, req>>

ReadQuery == stage = "query" /\ (ReadField("query") \/ EndFields("headers"))

---------------------------------------------------------------------------
(* header_parser *)

\* Mutant: names as they were sent (HeadersAsSent).
LowerNot(name) == name

\* to_lower_case
Lower(name) == [k \in DOMAIN name |->
    CASE name[k] \in {"Cookie", "COOKIE"} -> "cookie" [] name[k] = "Content-Type" -> "content-type"
      [] OTHER -> name[k]]

\* strip_head_spaces
Stripped(value) ==
    LET k == Position([k \in DOMAIN value |-> value[k] # "SP"], TRUE)
    IN  IF k = 0 THEN << >> ELSE SubSeq(value, k, Len(value))

\* A line without its end, or without a colon, makes the parser write through the pointer
\* that find_first_of does not return.
ReadHeader ==
    LET line == Until(rest, CRLF)
    IN  /\ stage = "headers" /\ rest # << >> /\ Position(rest, CRLF) # 1
        /\ IF Position(rest, CRLF) = 0 \/ Position(line, ":") = 0
           THEN stage' = "crashed" /\ UNCHANGED <<rest, req>>
           ELSE /\ req' = [req EXCEPT !.headers = Append(@,
                              [key   |-> Lower(Until(line, ":")),
                               value |-> Stripped(Behind(line, ":"))])]
                /\ rest' = Behind(rest, CRLF)
                /\ UNCHANGED stage
        /\ UNCHANGED <<sent, got, behind, todo>>

\* The body begins behind the empty line.
EndHeaders ==
    /\ stage = "headers" /\ Position(rest, CRLF) = 1
    /\ stage' = "cookies" /\ rest' = Tail(rest)
    /\ UNCHANGED <<sent, got, behind, todo, req>>

\* Where the text ends with a line, the place for the body is behind the terminator.
EndText ==
    /\ stage = "headers" /\ rest = << >>
    /\ stage' = "cookies" /\ rest' \in Leftover /\ behind' = TRUE
    /\ UNCHANGED <<sent, got, todo, req>>

---------------------------------------------------------------------------
(* cookies_parser, body_parser *)

HasCookies == KvFind(req.headers, <<"cookie">>) # Null

\* The terminator of the first cookie overwrites its last character, and the loop
\* goes on from there, which is the end.
FirstCookie(t) == IF Position(t, ";") = 0 THEN t ELSE SubSeq(t, 1, Position(t, ";") - 2)

ReadCookies ==
    LET c == Decoded(FirstCookie(KvFind(req.headers, <<"cookie">>)))
    IN  /\ stage = "cookies" /\ stage' = "body"
        /\ req' = IF HasCookies /\ Position(c, "=") > 0
                  THEN [req EXCEPT !.cookies = <<[key |-> Until(c, "="), value |-> Behind(c, "=")]>>]
                  ELSE req
        /\ UNCHANGED <<sent, got, rest, behind, todo>>

\* check_header, is_supported_type: 34 characters, the terminator among them.
IsForm == KvFind(req.headers, <<"content-type">>) = FormType

BeginBody ==
    /\ stage = "body"
    /\ IF IsForm THEN stage' = "form" /\ rest' = << >> /\ todo' = Decoded(rest) \o <<"&">>
                 ELSE stage' = "route" /\ UNCHANGED <<rest, todo>>
    /\ UNCHANGED <<sent, got, behind, req>>

ReadForm == stage = "form" /\ (ReadField("form") \/ EndFields("route"))

---------------------------------------------------------------------------
(* fetch_dir, get_account, get_id *)

Dir == Until(Tail(req.uri), "/")

\* Mutant: digits up to the end of the path (RoutedAsSent).
IdToTheEnd == Behind(Tail(req.uri), "/")

Id == Until(Behind(Tail(req.uri), "/"), "/")

\* Every handler but that of static files asks for the account; get_account does not
\* look whether the cookie is there.
AskAccount == /\ stage = "route" /\ Dir # <<"static">>
              /\ IF HasCookies
                 THEN LET sid == KvFind(req.cookies, <<"sid">>)
                      IN  IF sid = Null THEN stage' = "crashed" /\ UNCHANGED req
                          ELSE stage' = "id" /\ req' = [req EXCEPT !.sid = sid]
                 ELSE stage' = "id" /\ UNCHANGED req
              /\ UNCHANGED <<sent, got, rest, behind, todo>>

DontAsk == /\ stage = "route" /\ Dir = <<"static">>
           /\ stage' = "done"
           /\ UNCHANGED <<sent, got, rest, behind, todo, req>>

\* A path without its second slash has get_id read or copy from NULL on.  More digits than
\* the buffer takes with its terminator overwrite what is behind it, and atoi reads on.
ReadId ==
    /\ stage = "id"
    /\ \/ Dir \notin ReadsId /\ stage' = "done" /\ UNCHANGED req
       \/ /\ Dir \in ReadsId
          /\ Position(Behind(Tail(req.uri), "/"), "/") = 0 \/ Len(Id) >= IdBuffer
          /\ stage' = "crashed" /\ UNCHANGED req
       \/ /\ Dir \in ReadsId /\ Position(Behind(Tail(req.uri), "/"), "/") # 0
          /\ stage' = "done"
          /\ \E more \in IF Len(Id) < IdBuffer THEN { << >> }
                         ELSE { << >> } \cup {<<d>> : d \in Numerals} :
                 req' = [req EXCEPT !.id = Id \o more]
    /\ UNCHANGED <<sent, got, rest, behind, todo>>

---------------------------------------------------------------------------
NoRequest == [method |-> "", uri |-> << >>, query |-> << >>, headers |-> << >>,
              cookies |-> << >>, form |-> << >>, sid |-> Null, id |-> << >>]

RequestInit ==
    /\ sent \in Sendable
    /\ stage = "line" /\ behind = FALSE /\ todo = << >> /\ req = NoRequest
    /\ \/ got = RequestText(sent)
       \/ /\ sent \in Cut
          /\ \E l \in 1..(Len(RequestText(sent)) - 1) : got = SubSeq(RequestText(sent), 1, l)
    /\ rest = got

RequestNext == \/ ReadRequestLine \/ CutLine \/ ReadQuery
               \/ ReadHeader \/ EndHeaders \/ EndText \/ ReadCookies
               \/ BeginBody \/ ReadForm \/ AskAccount \/ DontAsk \/ ReadId

RequestSpec == RequestInit /\ [][RequestNext]_requestVars
=============================================================================
