----------------------------- MODULE TemplateForm -----------------------------
(* The form of the files in templates/, as their authors keep to it. *)
EXTENDS Integers, Sequences, SequencesExt

Blank(c) == c \in {" ", "\n"}

IsConstruct(part) == part.kind \in {"include", "when"}

Without(text, chars) == \A i \in DOMAIN text : text[i] \notin chars

\* Braces only stand around what is to be replaced, and spaces part what stands in a when.
WellFormed(part) ==
    CASE part.kind = "text"    -> part.text # << >> /\ Without(part.text, {"{", "}"})
      [] part.kind = "key"     -> Without(part.key, {"{", "}"})
      [] part.kind = "include" -> part.file \notin {"{", "}"}
      [] part.kind = "when"    -> /\ Without(part.key, {"{", "}", " "})
                                  /\ Without(part.value, {"{", "}", " "})
                                  /\ Without(part.text, {"{", "}"})
      [] part.kind = "odd"     -> FALSE

\* A blank stands behind an include and a when.
Regular(file) ==
    /\ file # << >>
    /\ \A i \in DOMAIN file : WellFormed(file[i])
    /\ \A i \in 2..Len(file) : IsConstruct(file[i - 1])
                               => file[i].kind = "text" /\ Blank(Head(file[i].text))
=============================================================================
