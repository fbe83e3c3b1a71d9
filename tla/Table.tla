-------------------------------- MODULE Table --------------------------------
(***************************************************************************)
(* What include/hash_map.h promises: a table of pairs that answers one     *)
(* call after the other, holds every pair once, and refuses a pair only    *)
(* when it holds it or is out of memory.  A key given several times with   *)
(* Hash_map_insert_move may answer with any of its values, since a table   *)
(* that grows may turn their order round.                                  *)
(***************************************************************************)
EXTENDS Integers, BagsExt

CONSTANTS
    Keys, Values, NotFound,
    Room            \* insertions after which there may be no memory

VARIABLES
    content,        \* the pairs in the table, each as often as it is there
    inserted,       \* how many insertions were answered with 1
    call, answer

Pairs == [key : Keys, value : Values]

\* The empty bag.
NoPairs == [p \in {} |-> 1]

Init == /\ content = NoPairs /\ inserted = 0
        /\ call = [op |-> "none"] /\ answer = NotFound

Ask == /\ call.op = "none"
       /\ call' \in    [op : {"insert", "insert_move"}, pair : Pairs]
                  \cup [op : {"get"}, key : Keys]
       /\ UNCHANGED <<content, inserted, answer>>

Return(result) == answer' = result /\ call' = [op |-> "none"]

SameKey == {q \in DOMAIN content : q.key = call.pair.key}

\* The pair is one more in the table, or with Hash_map_insert takes the place of one of
\* the same key.
Insert ==
    /\ call.op \in {"insert", "insert_move"}
    /\ call.pair \notin DOMAIN content
    /\ \/ /\ call.op = "insert_move" \/ SameKey = {}
          /\ content' = BagAdd(content, call.pair)
       \/ \E q \in SameKey : /\ call.op = "insert"
                             /\ content' = BagAdd(BagRemove(content, q), call.pair)
    /\ inserted' = inserted + 1
    /\ Return(TRUE)

\* "Return 0 if p is in the map or OOM".
Refuse ==
    /\ call.op \in {"insert", "insert_move"}
    /\ call.pair \in DOMAIN content \/ inserted >= Room
    /\ Return(FALSE)
    /\ UNCHANGED <<content, inserted>>

Get ==
    /\ call.op = "get"
    /\ \/ \E q \in DOMAIN content : q.key = call.key /\ Return(q.value)
       \/ (\A q \in DOMAIN content : q.key # call.key) /\ Return(NotFound)
    /\ UNCHANGED <<content, inserted>>

Next == Ask \/ Insert \/ Refuse \/ Get

Spec == Init /\ [][Next]_<<content, inserted, call, answer>>
=============================================================================
