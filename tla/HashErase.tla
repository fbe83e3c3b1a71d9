------------------------------ MODULE HashErase ------------------------------
(***************************************************************************)
(* Hash_map_erase (src/hash_map.c) beside the other calls on a table.      *)
(***************************************************************************)
EXTENDS HashMap

---------------------------------------------------------------------------
(* The call *)

AskErase ==
    /\ call = Idle
    /\ \E k \in Keys : call' = [op |-> "erase", key |-> k]
    /\ UNCHANGED <<cap, len, entries, new, slot, answer>>

HomeSlot == Home(cap, call.key)

\* The entries behind the slot that have its key's full hash; the loop does not go
\* round the end of the array.
Followers(s, h) ==
    {i \in 1..(cap - 1 - s) :
        \A j \in 1..i : s + j \in DOMAIN entries /\ Hash[entries[s + j].pair.key] = h}

\* Mutant: the last one is cleared and not moved (EraseKeepsOthers).
EraseFoundClears ==
    LET s    == HomeSlot
        last == s + Cardinality(Followers(s, Hash[call.key]))
    IN  /\ call.op = "erase" /\ s \in DOMAIN entries /\ entries[s].pair.key = call.key
        /\ entries' = [x \in DOMAIN entries \ {last} |-> entries[x]]
        /\ UNCHANGED <<cap, len, new, slot, call, answer>>

\* The entry is deleted and the last of those takes its slot.
EraseFound ==
    LET s    == HomeSlot
        last == s + Cardinality(Followers(s, Hash[call.key]))
    IN  /\ call.op = "erase" /\ s \in DOMAIN entries /\ entries[s].pair.key = call.key
        /\ entries' = [x \in DOMAIN entries \ {last} |-> entries[IF x = s THEN last ELSE x]]
        /\ UNCHANGED <<cap, len, new, slot, answer>>
        /\ \/ UNCHANGED call
           \* behind the array there may be no null pointer
           \/ last = cap - 1 /\ call' = [op |-> "crashed"]

EraseEnds ==
    /\ call.op = "erase" /\ HomeSlot \notin DOMAIN entries
    /\ Return(TRUE)
    /\ UNCHANGED <<cap, len, entries, new, slot>>

\* With another key at the home slot the loop looks at the same slot again.
EraseSpins ==
    /\ call.op = "erase" /\ HomeSlot \in DOMAIN entries
    /\ entries[HomeSlot].pair.key # call.key
    /\ UNCHANGED vars

---------------------------------------------------------------------------
NextOrErase == Next \/ AskErase \/ EraseFound \/ EraseEnds \/ EraseSpins

SpecWithErase == Init /\ [][NextOrErase]_vars

---------------------------------------------------------------------------
(* Properties *)

\* An erase takes nothing out of the table but pairs of its key, and puts nothing in.
EraseKeepsOthers ==
    [][call.op = "erase" => /\ Held' \subseteq Held
                            /\ \A p \in Held \ Held' : p.key = call.key]_vars
=============================================================================
