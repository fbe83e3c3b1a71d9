---------------------------- MODULE TemplateProps ----------------------------
(***************************************************************************)
(* Pages say what the authors of templates and the handlers mean.          *)
(***************************************************************************)
EXTENDS Template, TemplateForm, FiniteSets

\* What is meant by the part at i of a file, if m says what files mean: a file that is not
\* there is empty.  The last character of a file is its line end, or lost: readfile puts
\* its terminator there, and a construct at the end does without its last brace.
Means(pairs, m, file, i) ==
    LET part == file[i]
    IN  CASE part.kind = "text"    -> IF i = Len(file) THEN Front(part.text) ELSE part.text
          [] part.kind = "key"     -> ValueOf(pairs, part.key)
          [] part.kind = "include" -> IF part.file \in DOMAIN m THEN m[part.file] ELSE << >>
          [] part.kind = "when"    -> IF HasValue(pairs, part.key)
                                         /\ ValueOf(pairs, part.key) = part.value
                                      THEN part.text ELSE << >>
          [] part.kind = "odd"     -> part.text

\* What files mean when includes are followed d deep.
Levels(s, pairs) ==
    LET level[d \in 0..Cardinality(DOMAIN s)] ==
            LET below == level[d - 1]
            IN  [name \in DOMAIN s |->
                    IF d = 0 THEN << >>
                    ELSE Joined([i \in DOMAIN s[name] |-> Means(pairs, below, s[name], i)])]
    IN  level

\* A value that is set overwrites the one that was set for its key (template.h:12), so
\* that the last one counts.
Meaning(name) == LET m == Levels(site, Reverse(context))[Cardinality(DOMAIN site)]
                 IN  IF name \in DOMAIN m THEN m[name] ELSE << >>

\* No key is set to two values.
SetOnce(pairs) == \A i, j \in DOMAIN pairs :
                      pairs[i].key = pairs[j].key => pairs[i].value = pairs[j].value

\* No file includes itself, by way of others neither.
Nested(s) == \E rank \in [DOMAIN s -> 1..Cardinality(DOMAIN s)] :
                 \A name \in DOMAIN s : \A i \in DOMAIN s[name] :
                     s[name][i].kind = "include" /\ s[name][i].file \in DOMAIN s
                         => rank[s[name][i].file] < rank[name]

\* Text without its blanks.
Inked(text) == Joined([k \in DOMAIN text |-> IF Blank(text[k]) THEN << >> ELSE <<text[k]>>])

Sound(s) == Nested(s) /\ \A name \in DOMAIN s : Regular(s[name])

\* A page is what its files stand for, blanks aside: text between constructs is all
\* there, values are put in as they are though they have braces in them, an included
\* file sees the values of its includer, and rendering goes on behind it.  This is so of
\* a handler that sets no key to two values; none has the renderer crash.
RenderedAsWritten ==
    Sound(site) =>
        /\ place # "crashed"
        /\ place = "rendered" /\ SetOnce(context) => Inked(rendered) = Inked(Meaning(root))

\* template.h:12 of templateSet: "Would overwrite the origin key-value pair".
SetOverwrites ==
    Sound(site) /\ place = "rendered" => Inked(rendered) = Inked(Meaning(root))

\* The handler waits for its page.
Rendering == place \notin {"handler", "done", "crashed"}
=============================================================================
