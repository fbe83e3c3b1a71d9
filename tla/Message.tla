------------------------------- MODULE Message -------------------------------
(***************************************************************************)
(* What a handler and a browser may rely on: the reply that arrives is the *)
(* one that the handler put together, cookies as they were when they were  *)
(* added.  No memory, no buffers, no text.                                 *)
(***************************************************************************)
EXTENDS Integers, Sequences

CONSTANTS Statuses, Names, Texts, Bodies, Attributes, None

VARIABLES status, fields, jar, body, arrived

vars == <<status, fields, jar, body, arrived>>

Empty == /\ status = "OK" /\ fields = << >> /\ jar = None /\ body = << >>

\* Path=/ stands in for a path; of a flag only that it is set arrives.
Baked(cookie) == [cookie EXCEPT !.attr = [a \in Attributes |->
    CASE a = "Path" /\ @[a] = None -> <<"/">>
      [] a \in {"Secure", "HttpOnly"} /\ @[a] # None -> << >>
      [] OTHER -> @[a]]]

SetStatus == /\ arrived = None
             /\ \E s \in Statuses : status' = s
             /\ UNCHANGED <<fields, jar, body, arrived>>

AddField == /\ arrived = None
            /\ \E n \in Names, t \in Texts : fields' = Append(fields, [name |-> n, text |-> t])
            /\ UNCHANGED <<status, jar, body, arrived>>

NewCookie == /\ arrived = None /\ jar = None
             /\ \E n \in Names, t \in Texts :
                    jar' = [name |-> n, text |-> t, attr |-> [a \in Attributes |-> None]]
             /\ UNCHANGED <<status, fields, body, arrived>>

\* The last value counts.
SetAttribute == /\ arrived = None /\ jar # None
                /\ \E a \in Attributes, t \in Texts \ {<< >>} : jar' = [jar EXCEPT !.attr[a] = t]
                /\ UNCHANGED <<status, fields, body, arrived>>

AddCookie == /\ arrived = None /\ jar # None
             /\ fields' = Append(fields, [name |-> <<"Set-Cookie">>, text |-> Baked(jar)])
             /\ UNCHANGED <<status, jar, body, arrived>>

DropCookie == /\ arrived = None /\ jar # None
              /\ jar' = None
              /\ UNCHANGED <<status, fields, body, arrived>>

SetBody == /\ arrived = None
           /\ \E b \in Bodies : body' = b
           /\ UNCHANGED <<status, fields, jar, arrived>>

Arrive == /\ arrived = None /\ jar = None
          /\ arrived' = [status |-> status, fields |-> fields, body |-> body]
          /\ UNCHANGED <<status, fields, jar, body>>

Another == /\ arrived # None
           /\ arrived' = None
           /\ status' = "OK" /\ fields' = << >> /\ jar' = None /\ body' = << >>

Init == Empty /\ arrived = None
Next == \/ SetStatus \/ AddField \/ NewCookie \/ SetAttribute \/ AddCookie \/ DropCookie
        \/ SetBody \/ Arrive \/ Another
Spec == Init /\ [][Next]_vars
=============================================================================
