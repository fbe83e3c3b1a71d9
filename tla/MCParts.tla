-------------------------------- MODULE MCParts --------------------------------
(***************************************************************************)
(* Small instances, for TLC, of the parts of the program that share        *)
(* nothing with one another: what a call of one of them does depends on    *)
(* its arguments alone, and the program has one thread, so they are        *)
(* checked side by side.  Each behaviour is one of the part that was       *)
(* chosen at the beginning; the variables of the others stay idle.         *)
(***************************************************************************)
EXTENDS PostText, BoyerMoore, Base64, Search, Lifecycle, StaticFiles,
        Fragments, TemplateProps, HashErase, HttpRequestProps, FiniteSets, TLC

CONSTANTS k1, k2, k3, k4, v                            \* model values

VARIABLE part         \* which one runs

---------------------------------------------------------------------------
(* The parts *)

SomeRequests == INSTANCE SampleRequests
SomeTemplates == INSTANCE SampleTemplates
SomePeople == INSTANCE SamplePeople

\* HttpRequest
MCWords    == SomeRequests!MCWords
MCSendable == SomeRequests!Browsed \cup SomeRequests!Few
MCCut      == SomeRequests!Few
MCNumerals   == SomeRequests!MCNumerals
MCLeftover == SomeRequests!MCLeftover

\* Template
MCSymbols       == SomeTemplates!MCSymbols
MCSites         == SomeTemplates!MCSites
MCRoots         == {"outer"}
MCContextKeys   == SomeTemplates!MCKeys
MCContextValues == SomeTemplates!MCValues

\* StaticFiles: lengths around one page and two, a NUL within; one suffix is not in the table.
MCNames        == {"main.css", "facebook.ico"}
MCSuffixOf     == "main.css" :> "css" @@ "facebook.ico" :> "ico"
MCBytes        == {"a", "b", "c"}
MCFileContents == { << >>, <<"a">>, <<"a", "b">>, <<"a", "b", "c">>, <<"a", "NUL", "b">> }

\* Search
MCPeople  == SomePeople!MCPeople
MCQueries == SomePeople!MCQueries

\* Fragments: the lengths that handlers allow, and numbers at which there is one more digit.
MCNameLens  == {0, 24, 50}
MCEmailLens == {3, 50}
MCBodyLens  == {0, 1, 327680}
MCNumbers   == {1, 9, 10, 9999, 999999999, 1000000000, 2147483647}

\* Lifecycle
MCSignals == <<"SIGINT", "SIGTERM">>

\* Base64: bytes with and without high bits, and the padding's own code.
MCInputs == UNION {[1..l -> {0, 3, 61, 131, 255}] : l \in 0..4}
            \cup UNION {[1..l -> {61, 255}] : l \in 5..7}

\* PostText: what is escaped, what entities are made of, and neither.
MCChars == {"a", "<", "&", "'", "#", "\n"}

\* BoyerMoore: the two letters are alike, and patterns begin with one of them.
MCAlphabet == {"a", "b", "hi"}
MCHigh     == {"hi"}
MCPatterns == { << >> } \cup {<<"a">> \o p : p \in UNION {[1..l -> {"a", "b"}] : l \in 0..2}}
MCStray    == {0, -4}

\* Two keys of one hash, one that meets them in four slots and leaves them in eight.
MCKeys   == {k1, k2, k3, k4}
MCValues == {v}
MCHash   == k1 :> 3 @@ k2 :> 3 @@ k3 :> 7 @@ k4 :> 0
MCOps    == {"insert_move"}

---------------------------------------------------------------------------
(* Each part on its own *)

IdleRequest  == sent = (CHOOSE some \in Sendable : TRUE) /\ got = RequestText(sent)
                /\ RequestInit
IdleTemplate == site = (CHOOSE some \in Sites : TRUE) /\ TemplateInit
IdleStatic   == files = [name \in Names |-> Absent] /\ StaticInit
IdleCoded    == data = << >> /\ CodeInit
IdlePosts    == entered = << >> /\ PostInit
IdleFind     == txt = << >> /\ pat = << >> /\ FindInit

partsVars == <<part, requestVars, templateVars, staticVars, codeVars, searchVars, pieceVars,
              processVars, postVars, findVars, vars>>

\* The variables of all parts but p.
Stay(p) ==
    /\ UNCHANGED part
    /\ IF p = "request"  THEN TRUE ELSE UNCHANGED requestVars
    /\ IF p = "template" THEN TRUE ELSE UNCHANGED templateVars
    /\ IF p = "static"   THEN TRUE ELSE UNCHANGED staticVars
    /\ IF p = "base64"   THEN TRUE ELSE UNCHANGED codeVars
    /\ IF p = "people"   THEN TRUE ELSE UNCHANGED searchVars
    /\ IF p = "pieces"   THEN TRUE ELSE UNCHANGED pieceVars
    /\ IF p = "process"  THEN TRUE ELSE UNCHANGED processVars
    /\ IF p = "post"     THEN TRUE ELSE UNCHANGED postVars
    /\ IF p = "find"     THEN TRUE ELSE UNCHANGED findVars
    /\ IF p = "erase"    THEN TRUE ELSE UNCHANGED vars

PartsInit ==
    /\ part \in {"request", "template", "static", "base64", "people", "pieces", "process",
                 "post", "find", "erase"}
    /\ IF part = "request"  THEN RequestInit  ELSE IdleRequest
    /\ IF part = "template" THEN TemplateInit ELSE IdleTemplate
    /\ IF part = "static"   THEN StaticInit   ELSE IdleStatic
    /\ IF part = "base64"   THEN CodeInit     ELSE IdleCoded
    /\ IF part = "post"     THEN PostInit     ELSE IdlePosts
    /\ IF part = "find"     THEN FindInit     ELSE IdleFind
    /\ SearchInit /\ PieceInit /\ ProcessInit /\ Init

Parse      == part = "request"     /\ RequestNext     /\ Stay("request")
Set        == part = "template"    /\ TemplateSet     /\ Stay("template")
Fill       == /\ part = "template"
              /\ Render \/ TemplateRender \/ TemplateDel
              /\ Stay("template")
Serve      == part = "static"  /\ StaticNext   /\ Stay("static")
Code       == part = "base64"  /\ CodeNext     /\ Stay("base64")
Look       == part = "people"  /\ SearchNext   /\ Stay("people")
Snip       == part = "pieces"  /\ PieceNext    /\ Stay("pieces")
Run        == /\ part = "process"
              /\ Main \/ \E sig \in DOMAIN Signals : Deliver(sig)
              /\ Stay("process")
Catch      == part = "process" /\ Sig  /\ Stay("process")
Translate  == part = "post"    /\ PostNext     /\ Stay("post")
Compare    == part = "find"    /\ FindNext     /\ Stay("find")
Probe      == part = "erase"   /\ NextOrErase /\ Stay("erase")

PartsNext == \/ Parse \/ Set \/ Fill \/ Serve \/ Code \/ Look \/ Snip
             \/ Run \/ Catch \/ Translate \/ Compare \/ Probe

\* Parsing (of a few requests, whole and cut), rendering, searching and the signal handler
\* go on until they return.
Proceed == (sent \in Cut /\ Parse) \/ Fill \/ Compare \/ Catch

PartsSpec == PartsInit /\ [][PartsNext]_partsVars /\ WF_partsVars(Proceed)

---------------------------------------------------------------------------
(* Properties: what the modules of the parts state *)

\* InBounds and ShownAsEntered are PostText's, FirstFound and ReadsInside BoyerMoore's,
\* CodedAndBack is Base64's, FoundWhenAligned Search's, DiesOnlyFor Lifecycle's,
\* FilesServed and CrashesOnlyFor StaticFiles', PiecesPrinted Fragments', RenderedAsWritten
\* and ContextOwned Template's, EraseKeepsOthers HashErase's: they hold of the idle
\* variables, too.

\* A call that was begun and has not returned.
Running == \/ part = "request"     /\ sent \in Cut /\ Parsing
           \/ part = "template"    /\ Rendering
           \/ part = "find"        /\ Searching
           \/ part = "process"     /\ Ending

\* The one thread comes back from whatever it is called with: every loop over a request
\* ends, however it was cut; every render, whatever the files hold; every search, whatever
\* the table says of a byte; and a signal that is handled ends the process, if the
\* allocator lets it.
CallsReturn == Running ~> ~Running

=============================================================================
