------------------------------- MODULE MCReply -------------------------------
(* Cookies and headers with short values; two headers overflow the first buffer. *)
EXTENDS ReplyProps

MCTokens     == Marks \cup {": ", "=", "CRLF", "/", "; ", "Set-Cookie", "freed", "sid", "t", "page"}
MCNames      == {<<"sid">>}
MCTexts      == {<<"t">>, << >>}
MCBodies     == {<<"page">>}
=============================================================================
