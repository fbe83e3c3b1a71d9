---------------------------- MODULE SampleRequests ----------------------------
(* Requests as the site's own pages make browsers send them, and some others. *)
EXTENDS Integers, Sequences

CRLF == "CRLF"

MCNumerals == {"1", "2", "7"}

MCWords == {"GET", "POST", "HEAD", "BREW", "HTTP/1.0", "HTTP/1.1", "HTTP/2.0",
            "post", "profile", "like", "unlike", "login", "static", "css",
            "Host", "Cookie", "COOKIE", "Content-Type", "content-type", "localhost", "8080",
            "sid", "application/x-www-form-urlencoded", "application/json",
            "u", "p", "a", "b", "c", "x", "y"} \cup MCNumerals

FormType == <<"application/x-www-form-urlencoded">>

\* Empty, plain, and with what separates fields and values.
FieldValues == { << >>, <<"b", "SP">>, <<"a", "=", "b">>, <<"a", "&", "u", "=", "b">> }
Fields(vs) == [key : { <<"u">>, <<"p">> }, value : vs]
Forms(vs)  == UNION {[1..n -> Fields(vs)] : n \in 0..2}

Home    == <<"/">>
Post    == <<"/", "post", "/">>
Profile == <<"/", "profile", "/", "7", "/">>
Like    == <<"/", "like", "/", "1", "2", "/">>
Login   == <<"/", "login">>
\* Ids of n digits; get_id's buffer has ten bytes.
Unlike(n) == <<"/", "unlike", "/">> \o [k \in 1..n |-> IF k = n THEN "2" ELSE "1"] \o <<"/">>

Css     == <<"/", "static", "/", "css">>

Header(name, value) == [key |-> <<name>>, value |-> value]

Host     == Header("Host", <<"localhost", ":", "8080">>)
Sid      == Header("Cookie", <<"sid", "=", "x">>)
OldSid   == Header("COOKIE", <<"sid", "=", "y">>)
FormBody == Header("Content-Type", FormType)
FormText == Header("content-type", FormType)
Json     == Header("Content-Type", <<"application/json">>)

Request(m, p, v, q, h, f) ==
    [method |-> m, path |-> p, version |-> v, query |-> q, headers |-> h, form |-> f]

Gets(vs) == {Request("GET", p, v, q, h, << >>) :
    p \in {Home, Profile, Like, Unlike(9), Unlike(10), Login, Css}, v \in {"HTTP/1.1"}, q \in Forms(vs),
    h \in { << >>, <<Host, Sid>> }}

Posts(vs) == {Request("POST", p, "HTTP/1.0", << >>, h, f) : p \in {Post}, f \in Forms(vs),
    h \in { <<Host, Sid, FormBody>>, <<FormText, Sid, OldSid>>, <<Sid, Json, FormBody>>, << >> }}

Odd == {Request(m, Home, v, << >>, << >>, << >>) :
    m \in {"BREW", "HEAD"}, v \in {"HTTP/1.1", "HTTP/2.0"}}

Browsed == Gets(FieldValues) \cup Posts(FieldValues) \cup Odd

\* The requests that the runs cut at every place: a query, a form, and neither.
Few == {Request("GET", Profile, "HTTP/1.1", << >>, <<Host, Sid>>, << >>),
        Request("GET", Login, "HTTP/1.1", <<[key |-> <<"u">>, value |-> <<"b", "SP", "c">>]>>,
                <<Sid>>, << >>)}
       \cup {Request("POST", Post, "HTTP/1.0", << >>, h, f) : h \in { <<Sid, FormBody>>, <<FormText>> },
             f \in { << >>, <<[key |-> <<"u">>, value |-> <<"a">>],
                             [key |-> <<"p">>, value |-> <<"b", "SP">>]>> }}

\* What may stand behind the terminator: nothing, the end of an earlier form, one of its
\* headers and its form, a part of a line.
MCLeftover == { << >>, <<"u", "=", "c">>, <<"a">>,
                <<"Content-Type", ":", "SP", FormType[1], CRLF, CRLF, "u", "=", "c">>,
                <<"Cookie", ":", "SP", "sid", "=", "y", CRLF, CRLF>> }

=============================================================================
