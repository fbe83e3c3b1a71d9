------------------------------- MODULE HashMap -------------------------------
(***************************************************************************)
(* src/hash_map.c: open addressing with linear probing, the table doubled  *)
(* by a loop that moves one entry at a time.  Its callers are the routing  *)
(* table (server.c), the contexts of templates (template.c) and the cache  *)
(* of static files.  Erasing, which none of them does, is HashErase.       *)
(***************************************************************************)
EXTENDS Integers, FiniteSets, Functions, FiniteSetsExt

CONSTANTS
    Keys, Values,
    NotFound,       \* the NULL of Hash_map_get
    Hash,           \* hash_key
    InitCap,        \* INITIAL_CAPACITY (64 in the code)
    SizeMod,        \* 2^w for a size_t of w bits
    Ops,            \* the functions that are called
    GivenAgain      \* a caller may insert a pair that is in the table

ASSUME HashMapAssumption ==
    /\ Hash \in [Keys -> Nat]
    /\ InitCap \in Nat /\ InitCap > 1 /\ SizeMod \in Nat /\ InitCap < SizeMod
    /\ Ops \subseteq {"get", "insert", "insert_move"}
    /\ GivenAgain \in BOOLEAN

VARIABLES
    cap, len,
    entries,    \* the slots in use, and what they hold
    new, slot,    \* hash_map_expand: the new slots, and the loop's index
    call,       \* the call that is running
    answer      \* what the last one returned

vars == <<cap, len, entries, new, slot, call, answer>>

Pairs == [key : Keys, value : Values]

\* The pair of a caller, as Hash_map_insert_move stores it, or a copy of it.
Entry == [pair : Pairs, own : BOOLEAN]

Idle     == [op |-> "none"]
None     == [s \in {} |-> NotFound]

\* Pairs in the table, and how many slots each is in.
Held     == {entries[s].pair : s \in DOMAIN entries}
Contents == [p \in Held |-> Cardinality({s \in DOMAIN entries : entries[s].pair = p})]

---------------------------------------------------------------------------
(* Probing *)

Home(m, k) == Hash[k] % m

\* The slot d steps behind the home of a key, round the end of m slots.
Slot(m, k, d) == IF Home(m, k) + d >= m THEN Home(m, k) + d - m ELSE Home(m, k) + d

Put(es, s, e) == [x \in DOMAIN es \cup {s} |-> IF x = s THEN e ELSE es[x]]

\* The first of some slots that a probe for k comes to.
First(m, k, S) == Slot(m, k, Min({d \in 0..(m - 1) : Slot(m, k, d) \in S}))

Empty(es, m)   == (0..(m - 1)) \ DOMAIN es
Holding(es, k) == {s \in DOMAIN es : es[s].pair.key = k}

\* hash_map_move_entry; it compares pointers, and not at the home slot.
Refused(es, m, e) ==
    \E d \in 1..(m - 1) :
        /\ \A f \in 0..d : Slot(m, e.pair.key, f) \in DOMAIN es
        /\ es[Slot(m, e.pair.key, d)] = e

Moved(es, m, e) ==
    IF Refused(es, m, e) THEN es ELSE Put(es, First(m, e.pair.key, Empty(es, m)), e)

\* Where a probe for the key ends: at its entry, or at a free slot.
ProbeEnd(es, m, k) == First(m, k, Holding(es, k) \cup Empty(es, m))

---------------------------------------------------------------------------
(* Calls *)

\* Callers make a new pair for each insertion, unless GivenAgain.
Given(p) == GivenAgain \/ p \notin Held

Ask ==
    /\ call = Idle
    /\ \/ \E op \in Ops \cap {"insert", "insert_move"}, p \in Pairs :
              Given(p) /\ call' = [op |-> op, pair |-> p]
       \/ "get" \in Ops /\ \E k \in Keys : call' = [op |-> "get", key |-> k]
    /\ UNCHANGED <<cap, len, entries, new, slot, answer>>

Return(result) == answer' = result /\ call' = Idle

\* Hash_map_get
Get ==
    LET s == ProbeEnd(entries, cap, call.key)
    IN  /\ call.op = "get"
        /\ Return(IF s \in DOMAIN entries THEN entries[s].pair.value ELSE NotFound)
        /\ UNCHANGED <<cap, len, entries, new, slot>>

Inserting == call.op \in {"insert", "insert_move"}

\* Mutant: the table grows when it is full (TypeOK).
FullLate == len >= cap

Full == len >= cap \div 2

\* A shift of size_t.
Doubled == IF 2 * cap < SizeMod THEN 2 * cap ELSE 2 * cap - SizeMod

\* hash_map_expand would overflow.
CannotGrow == /\ Inserting /\ Full /\ Doubled < cap
              /\ Return(FALSE)
              /\ UNCHANGED <<cap, len, entries, new, slot>>

\* Mutant: entries keep their slots (EveryEntryFound).
MoveNextSame ==
    /\ Inserting /\ Full /\ Doubled >= cap /\ slot < cap
    /\ slot' = slot + 1
    /\ new' = IF slot \in DOMAIN entries THEN Put(new, slot, entries[slot]) ELSE new
    /\ UNCHANGED <<cap, len, entries, call, answer>>

\* hash_map_expand: one slot of the old table.
MoveNext ==
    /\ Inserting /\ Full /\ Doubled >= cap /\ slot < cap
    /\ slot' = slot + 1
    /\ new' = IF slot \in DOMAIN entries THEN Moved(new, Doubled, entries[slot]) ELSE new
    /\ UNCHANGED <<cap, len, entries, call, answer>>

\* Mutant: the last slot is left behind (TableSpec).
GrownShort == slot = cap - 1

Grown == slot = cap

Grow == /\ Inserting /\ Full /\ Doubled >= cap /\ Grown
        /\ entries' = new /\ cap' = Doubled
        /\ new' = None /\ slot' = 0
        /\ UNCHANGED <<len, call, answer>>

\* Hash_map_insert_move
InsertMove ==
    LET e == [pair |-> call.pair, own |-> TRUE]
        ok == ~Refused(entries, cap, e)
    IN  /\ call.op = "insert_move" /\ ~Full
        /\ entries' = Moved(entries, cap, e)
        /\ len' = IF ok THEN len + 1 ELSE len
        /\ Return(ok)
        /\ UNCHANGED <<cap, new, slot>>

\* Hash_map_insert: a copy, in place of an entry of the key if there is one; len
\* counts it all the same.
Insert ==
    LET s == ProbeEnd(entries, cap, call.pair.key)
        ok == ~ /\ s \in DOMAIN entries
                /\ entries[s] = [pair |-> call.pair, own |-> TRUE]
    IN  /\ call.op = "insert" /\ ~Full
        /\ entries' = IF ok THEN Put(entries, s, [pair |-> call.pair, own |-> FALSE])
                            ELSE entries
        /\ len' = IF ok THEN len + 1 ELSE len
        /\ Return(ok)
        /\ UNCHANGED <<cap, new, slot>>

---------------------------------------------------------------------------
Init == /\ cap = InitCap /\ len = 0 /\ entries = None /\ new = None /\ slot = 0
        /\ call = Idle /\ answer = NotFound

Next == Ask \/ Get \/ CannotGrow \/ MoveNext \/ Grow \/ InsertMove \/ Insert

Spec == Init /\ [][Next]_vars

---------------------------------------------------------------------------
(* Properties *)

IsTable(es, m) == /\ DOMAIN es \subseteq 0..(m - 1)
                  /\ \A s \in DOMAIN es : es[s] \in Entry

\* Slots hold entries, and the table stays at most half full, by the length that
\* decides when it grows: this is what lets a probe for a missing key end.
TypeOK ==
    /\ cap \in 2..(SizeMod - 1) /\ len \in Nat
    /\ IsTable(entries, cap) /\ Cardinality(DOMAIN entries) <= len
    /\ len <= cap \div 2
    /\ slot \in 0..cap /\ IsTable(new, 2 * cap) /\ Cardinality(DOMAIN new) <= slot
    /\ call.op \in Ops \cup {"none"}

\* Every entry is on the path of a probe for its key, however the table was filled,
\* went round its end and grew: no free slot lies between a key's home and the entry.
OnPath(es, m) ==
    \A s \in DOMAIN es : \E d \in 0..(m - 1) :
        /\ s = Slot(m, es[s].pair.key, d)
        /\ \A f \in 0..d : Slot(m, es[s].pair.key, f) \in DOMAIN es

EveryEntryFound == OnPath(entries, cap) /\ OnPath(new, 2 * cap)

\* Each call does what hash_map.h says of it: what was inserted is found, through
\* every growth, and nothing else is; no pair is in two slots; and an insertion fails
\* only for a pair that is in the table, or when it cannot grow.  With GivenAgain it
\* does not hold: hash_map_move_entry does not look at the home slot.
T == INSTANCE Table WITH content <- Contents, inserted <- len, Room <- SizeMod \div 4
TableSpec == T!Spec
=============================================================================
