------------------------------- MODULE Template -------------------------------
(***************************************************************************)
(* src/template.c: a handler fills the context of a template and renders   *)
(* it; files include files, which share the context.  Text is a sequence   *)
(* of tokens, cut up by strtok_r as the code does it.                      *)
(***************************************************************************)
EXTENDS CText, SequencesExt

CONSTANTS
    Symbols,        \* what text is made of: characters, and words in one piece
    Sites,          \* what templates/ may hold: functions from names to files
    Roots,          \* the names that handlers render
    ContextKeys, ContextValues,   \* of templateSet
    MaxSets         \* bound on the calls of templateSet

\* A part of a file: text, {{key}}, {%include file%}, {%when key value text%}, and what
\* is none of them.
Part == [kind : {"text", "odd"}, text : Seq(Symbols)]
        \cup [kind : {"key"}, key : Seq(Symbols)]
        \cup [kind : {"include"}, file : Symbols]
        \cup [kind : {"when"}, key : Seq(Symbols), value : Seq(Symbols), text : Seq(Symbols)]

ASSUME TemplateAssumption ==
    /\ MaxSets \in Nat
    /\ {"{", "}", "%", " ", "include", "when"} \subseteq Symbols
    /\ Roots \subseteq Symbols
    /\ ContextKeys \subseteq Seq(Symbols) /\ ContextValues \subseteq Seq(Symbols)
    /\ \A s \in Sites : /\ IsFiniteSet(DOMAIN s) /\ DOMAIN s \subseteq Symbols
                        /\ s \in [DOMAIN s -> Seq(Part)]

VARIABLES
    site, root,
    place,             \* "handler", the place in templateRender, "done" or "crashed"
    context,        \* the pairs of the handler's map, first set first
    maps,           \* the maps that are allocated: one for each templateNew
    stack,          \* the calls of templateRender that are running
    rendered            \* what the handler's own call returned

templateVars == <<site, root, place, context, maps, stack, rendered>>

\* A call of templateRender: its file, segment, what strtok_r has left of the file, res,
\* rep, and the map of its template.
Frame(file, map) == [file |-> file, segment |-> << >>, rest |-> << >>, out |-> << >>,
                     rep |-> FALSE, map |-> map]

Top == Last(stack)

---------------------------------------------------------------------------
(* What the authors of templates write: a file is a sequence of parts *)

\* What stands between the outer braces.
Inside(part) ==
    CASE part.kind = "key"     -> <<"{">> \o (part.key \o <<"}">>)
      [] part.kind = "include" -> <<"%", "include", " ", part.file, "%">>
      [] part.kind = "when"    -> <<"%", "when", " ">> \o (part.key \o (<<" ">> \o (part.value
                                  \o (<<" ">> \o (part.text \o <<"%">>)))))

Source(part) == IF part.kind \in {"text", "odd"} THEN part.text
                ELSE <<"{">> \o (Inside(part) \o <<"}">>)

TextOf(file) == Joined([i \in DOMAIN file |-> Source(file[i])])

---------------------------------------------------------------------------
(* strtok_r *)

\* strtok_r passes over delimiters before the token; no token is NULL.
TokenBegin(s, d) == CHOOSE n \in 1..(Len(s) + 1) : /\ n > Len(s) \/ s[n] # d
                                                  /\ \A m \in 1..(n - 1) : s[m] = d
TokenEnd(s, d)   == LET b == TokenBegin(s, d)
                    IN  CHOOSE n \in b..(Len(s) + 1) : /\ n > Len(s) \/ s[n] = d
                                                       /\ \A m \in b..(n - 1) : s[m] # d

NoToken(s, d) == TokenBegin(s, d) > Len(s)
Token(s, d)   == SubSeq(s, TokenBegin(s, d), TokenEnd(s, d) - 1)
Left(s, d)    == SubSeq(s, TokenEnd(s, d) + 1, Len(s))

---------------------------------------------------------------------------
(* The handler *)

\* Hash_map_get, and nothing for NULL.  templateSet gives Hash_map_insert_move a pair of
\* its own each time, so none overwrites another, and the first of a key is found first:
\* a handler does not set so many that the map grows.
ValueOf(pairs, key) == LET i == Position([i \in DOMAIN pairs |-> pairs[i].key], key)
                       IN  IF i = 0 THEN << >> ELSE pairs[i].value

HasValue(pairs, key) == \E i \in DOMAIN pairs : pairs[i].key = key

TemplateSet ==
    /\ place = "handler" /\ Len(context) < MaxSets
    /\ \E k \in ContextKeys, v \in ContextValues :
           context' = Append(context, [key |-> k, value |-> v])
    /\ UNCHANGED <<site, root, place, maps, stack, rendered>>

Render == /\ place = "handler"
          /\ stack' = <<Frame(root, 1)>> /\ place' = "open"
          /\ UNCHANGED <<site, root, context, maps, rendered>>

\* templateDel of the handler
TemplateDel == /\ place = "rendered"
               /\ maps' = maps \ {1} /\ place' = "done"
               /\ UNCHANGED <<site, root, context, stack, rendered>>

---------------------------------------------------------------------------
(* templateRender *)

Fault == place' = "crashed" /\ UNCHANGED <<context, maps, stack, rendered>>

\* Mutant: the caller's map goes with the template of the include (ContextOwned).
FreedTooMuch(map) == maps \ {map}

\* The template of an include is freed without its map.
Freed(map) == maps

\* The end of a call: a handler has its page, and an including file goes on with what
\* was included.
Leave(out) ==
    IF Len(stack) = 1
    THEN /\ rendered' = out /\ stack' = << >> /\ place' = "rendered"
         /\ UNCHANGED <<context, maps>>
    ELSE /\ stack' = [Front(stack) EXCEPT ![Len(stack) - 1].out = @ \o out]
         /\ maps' = Freed(Top.map) /\ place' = "text"
         /\ UNCHANGED <<context, rendered>>

Turn(where, frame) == /\ stack' = [stack EXCEPT ![Len(stack)] = frame] /\ place' = where
                      /\ UNCHANGED <<context, maps, rendered>>

\* readfile puts a blank in front, and a terminator in place of the last character.
Buffer(text) == IF text = << >> THEN << >> ELSE <<" ">> \o Front(text)

\* A file that is not there is empty.
Open == /\ place = "open"
        /\ IF Top.file \in DOMAIN site
           THEN Turn("first", [Top EXCEPT !.rest = Buffer(TextOf(site[Top.file]))])
           ELSE Leave(<< >>)
        /\ UNCHANGED <<site, root>>

\* What stands before the first construct; a file that is empty has no first segment.
FirstText == /\ place = "first"
             /\ IF NoToken(Top.rest, "{") THEN Fault
                ELSE Turn("token", [Top EXCEPT !.out = Tail(Token(Top.rest, "{")),
                                               !.rest = Left(Top.rest, "{")])
             /\ UNCHANGED <<site, root>>

\* The segment up to a closing brace.
NextToken ==
    /\ place = "token"
    /\ IF NoToken(Top.rest, "}") THEN Leave(Top.out)
       ELSE Turn("construct", [Top EXCEPT !.segment = Token(Top.rest, "}"), !.rest = Left(Top.rest, "}")])
    /\ UNCHANGED <<site, root>>

Segment == Top.segment

\* Mutant: rep is not set (RenderedAsWritten).
LaterPlain == Top

Later == [Top EXCEPT !.rep = TRUE]

InConstruct(first) == place = "construct" /\ Head(Segment) = first

Placeholder ==
    /\ InConstruct("{")
    /\ Turn("text", [Later EXCEPT !.out = @ \o ValueOf(context, Tail(Segment))])
    /\ UNCHANGED <<site, root>>

\* templateNew, its map deleted and the includer's taken, and templateRender.
Include ==
    /\ InConstruct("%") /\ Len(Segment) > 1 /\ Segment[2] = "include"
    /\ stack' = Append([stack EXCEPT ![Len(stack)] = Later],
                       Frame(Segment[4], Top.map))
    /\ place' = "open"
    /\ UNCHANGED <<site, root, context, maps, rendered>>

\* A key, a value to compare with, and what to append if they are equal.
When ==
    LET s     == SubSeq(Segment, 4, Len(Segment))
        key   == UntilOrAll(s, " ")
        rest  == Behind(s, " ")
    IN  /\ InConstruct("%") /\ Len(Segment) > 1 /\ Segment[2] = "when"
        /\ IF Position(s, " ") = 0 \/ (HasValue(context, key) /\ Position(rest, " ") = 0) THEN Fault
           ELSE Turn("text", IF HasValue(context, key) /\ ValueOf(context, key) = Until(rest, " ")
                             THEN [Later EXCEPT !.out = @ \o Front(Behind(rest, " "))] ELSE Later)
        /\ UNCHANGED <<site, root>>

Unknown == /\ InConstruct("%") /\ (Len(Segment) = 1 \/ Segment[2] \notin {"include", "when"})
           /\ Leave(Top.out)
           /\ UNCHANGED <<site, root>>

\* A brace of the text itself; what it encloses is passed over.
Brace == /\ place = "construct" /\ Head(Segment) \notin {"{", "%"}
         /\ Turn("text", [Later EXCEPT !.out = @ \o <<"{">>, !.rep = FALSE])
         /\ UNCHANGED <<site, root>>

\* Behind a construct one character is left out, behind a brace the other brace is put.
Text ==
    LET seg == Token(Top.rest, "{")
    IN  /\ place = "text"
        /\ IF NoToken(Top.rest, "{") THEN Leave(Top.out)
           ELSE Turn("token",
                   [Top EXCEPT !.rep  = FALSE, !.rest = Left(Top.rest, "{"),
                               !.out  = @ \o (IF Top.rep THEN Tail(seg) ELSE <<"}">> \o seg)])
        /\ UNCHANGED <<site, root>>

---------------------------------------------------------------------------
TemplateInit == /\ site \in Sites /\ root \in Roots
                /\ place = "handler" /\ context = << >> /\ maps = {1}
                /\ stack = << >> /\ rendered = << >>

TemplateRender == \/ Open \/ FirstText \/ NextToken \/ Placeholder \/ Include \/ When \/ Unknown
                  \/ Brace \/ Text

TemplateNext == TemplateSet \/ Render \/ TemplateRender \/ TemplateDel

TemplateSpec == TemplateInit /\ [][TemplateNext]_templateVars

---------------------------------------------------------------------------
(* Properties *)

\* The map of the handler's template serves all includes and is there as long as any of
\* them looks into it; it is freed once, by the handler.
ContextOwned ==
    /\ \A i \in DOMAIN stack : stack[i].map \in maps
    /\ place = "handler" => 1 \in maps
    /\ place = "done" => maps = {}
=============================================================================
