------------------------------- MODULE SamplePeople -------------------------------
(* People whose names share beginnings, middles and ends; queries from within them. *)
EXTENDS Integers, Sequences

A == <<97>>
Ada   == <<97, 100, 97>>
Adam  == <<97, 100, 97, 109>>
Madam == <<109, 97, 100, 97, 109>>
Mail  == <<97, 64, 98>>

Person(n, e, u) == [f \in {"name", "email", "username"} |-> CASE f = "name" -> n [] f = "email" -> e [] f = "username" -> u]

MCPeople  == {Person(Ada, Mail, Madam), Person(Madam, <<98>> \o Mail, Adam), Person(A, Ada, Adam)}
MCQueries == { << >>, A, Ada, Adam, Madam, Mail, <<100, 97, 109>>, <<65, 100, 97>> }
=============================================================================
