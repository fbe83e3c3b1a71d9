---------------------------- MODULE SampleTemplates ----------------------------
(* Files of two or three parts that include one another. *)
EXTENDS TemplateForm

A == <<"a">>
B == <<"b">>

Plain(t) == [kind |-> "text", text |-> t]
Key(k)   == [kind |-> "key", key |-> k]
Inc(f)   == [kind |-> "include", file |-> f]
If(k, v, t) == [kind |-> "when", key |-> k, value |-> v, text |-> t]
Odd(t)   == [kind |-> "odd", text |-> t]

MCSymbols == {"{", "}", "%", " ", "\n", "include", "when", "else", "inner", "outer", "deep",
              "a", "b", "on", "x", "y", "yes", "sir", "!", "z", "w"}

MCKeys   == {A, B}
MCValues == { <<"on">>, <<"{", "{", "b", "}", "}">> }

Parts == { Plain(<<"x">>), Plain(<<" ", "y", "\n">>), Key(A), Inc("inner"),
           If(A, <<"on">>, <<"yes", " ", "sir">>) }

Inner == { <<Key(A), Plain(<<"!", "\n">>)>>,
           <<Plain(<<"z">>), If(B, <<"on">>, <<"w">>), Plain(<<"\n">>)>>,
           <<Inc("deep")>> }

Deep == <<Key(B)>>

Pages == UNION {[1..n -> Parts] : n \in 1..3}

Regulars == {[outer |-> p, inner |-> i, deep |-> Deep] :
                 p \in {q \in Pages : Regular(q)}, i \in Inner}
            \cup {[outer |-> p] : p \in {q \in Pages : Regular(q)}}

\* Braces in the text, an unknown construct, a condition without its value, constructs
\* side by side, no text at all.
OddParts == { Odd(<<"{", "x", "}">>), Odd(<<"{", "%", "else", "%", "}">>),
              Odd(<<"{", "%", "when", " ", "a", "%", "}">>), Odd(<<"}", "{">>) }

Odds == {[outer |-> p] : p \in { << >> } \cup
            UNION {[1..n -> OddParts \cup {Key(A), Inc("inner"), Plain(<<"x">>)}] : n \in 1..2}}

MCSites   == Regulars \cup Odds
=============================================================================
