---------------------------- MODULE HashMapProofs ----------------------------
(***************************************************************************)
(* The table of hash_map.c, for every hash, initial capacity and width of   *)
(* size_t: without erasing it keeps its shape and every entry stays on the *)
(* path of a probe for its key; for callers that give every pair once it   *)
(* implements module Table; erasing takes nothing but pairs of the key.    *)
(***************************************************************************)
EXTENDS HashErase, LeastNumber

(***************************************************************************)
(* Slots and probes                                                        *)
(***************************************************************************)

\* Arithmetic of the probe of hash_map.c: it stays in the array and reaches all of it.
LEMMA SlotsOf ==
    ASSUME NEW m \in Nat \ {0}, NEW k \in Keys
    PROVE  /\ \A d \in 0..(m - 1) : Slot(m, k, d) \in 0..(m - 1)
           /\ \A s \in 0..(m - 1) : \E d \in 0..(m - 1) : s = Slot(m, k, d)
<1>1. Home(m, k) \in 0..(m - 1)
    BY HashMapAssumption DEF Home
<1>2. ASSUME NEW s \in 0..(m - 1) PROVE \E d \in 0..(m - 1) : s = Slot(m, k, d)
    <2>1. CASE s >= Home(m, k)
        <3>1. s - Home(m, k) \in 0..(m - 1) /\ s = Slot(m, k, s - Home(m, k))
            BY <1>1, <2>1 DEF Slot
        <3>. QED
            BY <3>1
    <2>2. CASE s < Home(m, k)
        <3>1. /\ s - Home(m, k) + m \in 0..(m - 1)
              /\ s = Slot(m, k, s - Home(m, k) + m)
            BY <1>1, <2>2 DEF Slot
        <3>. QED
            BY <3>1
    <2>. QED
        BY <1>1, <2>1, <2>2
<1>. QED
    BY <1>1, <1>2 DEF Slot

\* A probe for slots among which some free slot is comes to the first of them.
LEMMA ProbeEnds ==
    ASSUME NEW m \in Nat \ {0}, NEW k \in Keys, NEW S, NEW x \in S, x \in 0..(m - 1)
    PROVE  \E d \in 0..(m - 1) : /\ First(m, k, S) = Slot(m, k, d) /\ Slot(m, k, d) \in S
                                 /\ \A f \in 0..(d - 1) : Slot(m, k, f) \notin S
<1>. DEFINE D == {d \in 0..(m - 1) : Slot(m, k, d) \in S}
<1>1. PICK d \in 0..(m - 1) : x = Slot(m, k, d)
    BY SlotsOf
<1>2. D \in SUBSET Nat /\ D # {}
    BY <1>1
<1>3. Min(D) \in D /\ \A f \in D : Min(D) <= f
    <2>. HIDE DEF D
    <2>. QED
        BY <1>2, LeastNat DEF Min
<1>4. Min(D) \in 0..(m - 1) /\ Slot(m, k, Min(D)) \in S
    BY <1>3
<1>5. \A f \in 0..(Min(D) - 1) : f \in 0..(m - 1) /\ f \notin D
    <2>. HIDE DEF D
    <2>. QED
        BY <1>3, <1>4
<1>6. \A f \in 0..(Min(D) - 1) : Slot(m, k, f) \notin S
    BY <1>5
<1>7. First(m, k, S) = Slot(m, k, Min(D))
    BY DEF First
<1>. HIDE DEF D
<1>. QED
    BY <1>4, <1>6, <1>7

\* A table with fewer entries than slots has a free one.
LEMMA FreeSlots ==
    ASSUME NEW m \in Nat \ {0}, NEW es, DOMAIN es \subseteq 0..(m - 1),
           Cardinality(DOMAIN es) < m
    PROVE  \E s \in 0..(m - 1) : s \in Empty(es, m)
<1>1. IsFiniteSet(0..(m - 1)) /\ Cardinality(0..(m - 1)) = m
    BY FS_Interval, 0 \in Int, m - 1 \in Int
<1>2. DOMAIN es # 0..(m - 1)
    BY <1>1
<1>. QED
    BY <1>2 DEF Empty

(***************************************************************************)
(* Insertions                                                              *)
(***************************************************************************)

\* What a slot more or a slot overwritten makes of the array.
LEMMA PutTable ==
    ASSUME NEW m \in Nat \ {0}, NEW es, IsTable(es, m), NEW s \in 0..(m - 1), NEW e \in Entry
    PROVE  /\ IsTable(Put(es, s, e), m)
           /\ DOMAIN Put(es, s, e) = DOMAIN es \cup {s}
           /\ Put(es, s, e)[s] = e
           /\ \A x \in DOMAIN es \ {s} : Put(es, s, e)[x] = es[x]
           /\ Cardinality(DOMAIN Put(es, s, e)) <= Cardinality(DOMAIN es) + 1
           /\ IsFiniteSet(DOMAIN es) /\ Cardinality(DOMAIN es) \in Nat
           /\ Cardinality(DOMAIN Put(es, s, e)) \in Nat
<1>1. IsFiniteSet(DOMAIN es)
    BY FS_Interval, FS_Subset, 0 \in Int, m - 1 \in Int DEF IsTable
<1>2. Cardinality(DOMAIN es) \in Nat
    BY <1>1, FS_CardinalityType
<1>3. Cardinality(DOMAIN es \cup {s}) =
          IF s \in DOMAIN es THEN Cardinality(DOMAIN es) ELSE Cardinality(DOMAIN es) + 1
    BY <1>1, FS_AddElement, Zenon
<1>4. /\ Cardinality(DOMAIN es \cup {s}) <= Cardinality(DOMAIN es) + 1
      /\ Cardinality(DOMAIN es \cup {s}) \in Nat
    BY <1>2, <1>3
<1>5. DOMAIN Put(es, s, e) = DOMAIN es \cup {s}
    BY DEF Put
<1>. QED
    BY <1>1, <1>2, <1>4, <1>5 DEF IsTable, Put

\* The slot where a probe for its key first finds room, or an entry of its key, is a
\* place for an entry: no path is cut.
LEMMA PutOnPath ==
    ASSUME NEW m \in Nat \ {0}, NEW es, IsTable(es, m), OnPath(es, m), NEW e \in Entry,
           NEW d \in 0..(m - 1),
           \A f \in 0..(d - 1) : Slot(m, e.pair.key, f) \in DOMAIN es,
           LET s == Slot(m, e.pair.key, d)
           IN  s \in DOMAIN es => es[s].pair.key = e.pair.key
    PROVE  OnPath(Put(es, Slot(m, e.pair.key, d), e), m)
<1>. DEFINE s == Slot(m, e.pair.key, d)
            ps == Put(es, s, e)
<1>1. e.pair.key \in Keys /\ s \in 0..(m - 1)
    BY SlotsOf DEF Entry, Pairs
<1>2. /\ DOMAIN ps = DOMAIN es \cup {s} /\ ps[s] = e
      /\ \A x \in DOMAIN es \ {s} : ps[x] = es[x]
    BY DEF Put
<1>. HIDE DEF ps
<1>3. \A f \in 0..d : Slot(m, ps[s].pair.key, f) \in DOMAIN ps
    BY <1>2
<1>4. ASSUME NEW x \in DOMAIN es \ {s}
      PROVE  \E g \in 0..(m - 1) : /\ x = Slot(m, ps[x].pair.key, g)
                                   /\ \A f \in 0..g : Slot(m, ps[x].pair.key, f) \in DOMAIN ps
    BY <1>2 DEF OnPath
<1>5. s = Slot(m, ps[s].pair.key, d)
    BY <1>2
<1>6. ASSUME NEW x \in DOMAIN ps
      PROVE  \E g \in 0..(m - 1) : /\ x = Slot(m, ps[x].pair.key, g)
                                   /\ \A f \in 0..g : Slot(m, ps[x].pair.key, f) \in DOMAIN ps
    <2>. HIDE DEF s
    <2>. QED
        BY <1>2, <1>3, <1>4, <1>5
<1>. QED
    BY <1>6 DEF OnPath, ps

\* Pairs that a table holds.
PairsIn(es) == {es[x].pair : x \in DOMAIN es}

\* hash_map_move_entry puts the entry on the path of its key and keeps all others;
\* when it refuses, the entry is in the table already.
LEMMA MovedOnPath ==
    ASSUME NEW m \in Nat \ {0}, NEW es, IsTable(es, m), OnPath(es, m), NEW e \in Entry,
           Cardinality(DOMAIN es) < m
    PROVE  /\ IsTable(Moved(es, m, e), m) /\ OnPath(Moved(es, m, e), m)
           /\ PairsIn(Moved(es, m, e)) = PairsIn(es) \cup {e.pair}
           /\ Cardinality(DOMAIN Moved(es, m, e)) \in Nat
           /\ Cardinality(DOMAIN Moved(es, m, e)) <=
                  Cardinality(DOMAIN es) + (IF Refused(es, m, e) THEN 0 ELSE 1)
<1>. DEFINE k == e.pair.key
<1>1. k \in Keys
    BY DEF Entry, Pairs
<1>2. IsFiniteSet(DOMAIN es) /\ Cardinality(DOMAIN es) \in Nat
    BY FS_Interval, FS_Subset, FS_CardinalityType, 0 \in Int, m - 1 \in Int DEF IsTable
<1>3. CASE Refused(es, m, e)
    <2>1. Moved(es, m, e) = es
        BY <1>3 DEF Moved
    <2>2. PICK d \in 1..(m - 1) : /\ \A f \in 0..d : Slot(m, k, f) \in DOMAIN es
                                  /\ es[Slot(m, k, d)] = e
        BY <1>3 DEF Refused
    <2>3. d \in 0..d
        OBVIOUS
    <2>4. e.pair \in PairsIn(es)
        BY <2>2, <2>3 DEF PairsIn
    <2>. QED
        BY <1>2, <1>3, <2>1, <2>4
<1>4. CASE ~Refused(es, m, e)
    <2>1. PICK x \in 0..(m - 1) : x \in Empty(es, m)
        BY FreeSlots DEF IsTable
    <2>2. PICK d \in 0..(m - 1) :
              /\ First(m, k, Empty(es, m)) = Slot(m, k, d)
              /\ Slot(m, k, d) \in Empty(es, m)
              /\ \A f \in 0..(d - 1) : Slot(m, k, f) \notin Empty(es, m)
        BY <1>1, <2>1, ProbeEnds
    <2>3. \A f \in 0..(d - 1) : f \in 0..(m - 1) /\ Slot(m, k, f) \in DOMAIN es
        BY <1>1, <2>2, SlotsOf DEF Empty
    <2>. DEFINE s == Slot(m, k, d)
    <2>4. s \in 0..(m - 1) /\ s \notin DOMAIN es
        BY <2>2 DEF Empty
    <2>5. Moved(es, m, e) = Put(es, s, e)
        BY <1>4, <2>2 DEF Moved
    <2>6. OnPath(Put(es, s, e), m)
        BY <2>3, <2>4, PutOnPath
    <2>. HIDE DEF s
    <2>7. PairsIn(Put(es, s, e)) = PairsIn(es) \cup {e.pair}
        BY <2>4 DEF PairsIn, Put
    <2>8. /\ IsTable(Put(es, s, e), m)
          /\ Cardinality(DOMAIN Put(es, s, e)) <= Cardinality(DOMAIN es) + 1
          /\ Cardinality(DOMAIN Put(es, s, e)) \in Nat
        BY <2>4, PutTable, Zenon
    <2>. QED
        BY <1>4, <2>5, <2>6, <2>7, <2>8
<1>. QED
    BY <1>3, <1>4

(***************************************************************************)
(* The invariant                                                           *)
(***************************************************************************)

\* What the properties do not say and the induction needs: calls are those of hash_map.h,
\* and the new slots hold what the loop of hash_map_expand has passed.
CallOK == call \in      [op : {"none"}]
                   \cup [op : {"insert", "insert_move"}, pair : Pairs]
                   \cup [op : {"get"}, key : Keys]

Passed(n)  == {x \in DOMAIN entries : x < n}
PairsAt(S) == {entries[x].pair : x \in S}

Growing == /\ slot > 0 => Full
           /\ PairsIn(new) = PairsAt(Passed(slot))
           /\ Cardinality(DOMAIN new) <= Cardinality(Passed(slot))

IInv == TypeOK /\ EveryEntryFound /\ CallOK /\ Growing

\* The empty array is a table of any size.
LEMMA NoneIsTable ==
    /\ \A m : IsTable(None, m) /\ OnPath(None, m)
    /\ DOMAIN None = {} /\ PairsIn(None) = {} /\ Cardinality(DOMAIN None) = 0
<1>1. DOMAIN None = {}
    BY DEF None
<1>. QED
    BY <1>1, FS_EmptySet DEF IsTable, OnPath, PairsIn

LEMMA InitInv == Init => IInv
<1>. SUFFICES ASSUME Init PROVE IInv
    OBVIOUS
<1>1. cap \in 2..(SizeMod - 1) /\ len = 0 /\ slot = 0 /\ entries = None /\ new = None
    BY HashMapAssumption DEF Init
<1>2. TypeOK
    BY <1>1, NoneIsTable DEF TypeOK, Init, Idle
<1>3. EveryEntryFound /\ Growing
    <2>1. Passed(slot) = {}
        BY <1>1, NoneIsTable DEF Passed
    <2>2. PairsAt(Passed(slot)) = {} /\ Cardinality(Passed(slot)) = 0
        BY <2>1, FS_EmptySet DEF PairsAt
    <2>3. Growing
        BY <1>1, <2>2, NoneIsTable DEF Growing
    <2>. QED
        BY <1>1, <2>3, NoneIsTable DEF EveryEntryFound
<1>. QED
    BY <1>2, <1>3 DEF IInv, CallOK, Init, Idle

\* Without growth under way the new array is empty.
LEMMA NotGrowing == ASSUME IInv, ~Full PROVE slot = 0
BY DEF IInv, Growing, TypeOK

\* At the start of the loop nothing has been passed.
LEMMA PassedNone ==
    ASSUME IInv, slot = 0, slot' = 0, new' = new,
           NEW m, IsTable(entries, m), NEW n, IsTable(entries', n)
    PROVE  Growing'
<1>1. Passed(slot) = {} /\ Passed(slot)' = {}
    BY DEF Passed, IsTable
<1>2. /\ PairsAt(Passed(slot)) = {} /\ Cardinality(Passed(slot)) = 0
      /\ PairsAt(Passed(slot))' = {} /\ Cardinality(Passed(slot))' = 0
    BY <1>1, FS_EmptySet DEF PairsAt
<1>3. PairsIn(new)' = {} /\ Cardinality(DOMAIN new') <= 0
    BY <1>2 DEF IInv, Growing, PairsIn
<1>4. ~(slot' > 0)
    OBVIOUS
<1>. QED
    BY <1>2, <1>3, <1>4 DEF Growing

\* A call that is answered leaves the table as it is.
LEMMA AnswerInv ==
    ASSUME IInv, call' \in [op : {"none"}] \cup [op : {"get"}, key : Keys]
                           \cup [op : {"insert", "insert_move"}, pair : Pairs],
           call'.op \in Ops \cup {"none"},
           UNCHANGED <<cap, len, entries, new, slot>>
    PROVE  IInv'
<1>1. TypeOK' /\ CallOK'
    BY DEF IInv, TypeOK, CallOK, IsTable
<1>2. EveryEntryFound' /\ Growing'
    BY DEF IInv, EveryEntryFound, OnPath, Growing, Passed, Full, PairsIn, PairsAt
<1>. QED
    BY <1>1, <1>2 DEF IInv

\* One slot of the old array moves.
LEMMA MoveNextInv == ASSUME IInv, MoveNext PROVE IInv'
<1>1. /\ cap \in 2..(SizeMod - 1) /\ SizeMod \in Nat /\ slot \in 0..(cap - 1) /\ slot' = slot + 1
      /\ Doubled = 2 * cap /\ 2 * cap \in Nat \ {0}
    BY HashMapAssumption DEF MoveNext, Doubled, IInv, TypeOK
<1>2. UNCHANGED <<cap, len, entries, call>>
    BY DEF MoveNext
<1>3. IsTable(new, 2 * cap) /\ OnPath(new, 2 * cap)
    BY DEF IInv, TypeOK, EveryEntryFound
<1>4. /\ Cardinality(DOMAIN new) \in Nat /\ Cardinality(DOMAIN new) <= slot
      /\ IsFiniteSet(DOMAIN entries)
    <2>1. IsFiniteSet(DOMAIN new)
        BY <1>1, <1>3, FS_Interval, FS_Subset, 0 \in Int, 2 * cap - 1 \in Int DEF IsTable
    <2>2. IsFiniteSet(DOMAIN entries)
        BY <1>1, FS_Interval, FS_Subset, 0 \in Int, cap - 1 \in Int DEF IInv, TypeOK, IsTable
    <2>. QED
        BY <2>1, <2>2, FS_CardinalityType DEF IInv, TypeOK
<1>5. /\ IsFiniteSet(Passed(slot)) /\ Cardinality(Passed(slot)) \in Nat
      /\ Cardinality(DOMAIN new) <= Cardinality(Passed(slot))
    <2>1. IsFiniteSet(Passed(slot))
        BY <1>4, FS_Subset DEF Passed
    <2>. QED
        BY <2>1, FS_CardinalityType DEF IInv, Growing
<1>6. /\ IsTable(new', 2 * cap) /\ OnPath(new', 2 * cap)
      /\ Cardinality(DOMAIN new') <= slot + 1
      /\ PairsIn(new') = PairsAt(Passed(slot + 1))
      /\ Cardinality(DOMAIN new') <= Cardinality(Passed(slot + 1))
    <2>1. CASE slot \in DOMAIN entries
        <3>1. new' = Moved(new, 2 * cap, entries[slot])
            BY <1>1, <2>1 DEF MoveNext
        <3>2. entries[slot] \in Entry
            BY <2>1 DEF IInv, TypeOK, IsTable
        <3>3. Cardinality(DOMAIN new) < 2 * cap
            BY <1>1, <1>4
        <3>. DEFINE mv == Moved(new, 2 * cap, entries[slot])
        <3>4. /\ IsTable(mv, 2 * cap) /\ OnPath(mv, 2 * cap)
              /\ PairsIn(mv) = PairsIn(new) \cup {entries[slot].pair}
              /\ Cardinality(DOMAIN mv) \in Nat
              /\ Cardinality(DOMAIN mv) <=
                     Cardinality(DOMAIN new) + (IF Refused(new, 2 * cap, entries[slot]) THEN 0 ELSE 1)
            BY <1>1, <1>3, <3>2, <3>3, MovedOnPath
        <3>. HIDE DEF mv
        <3>5. Passed(slot + 1) = Passed(slot) \cup {slot} /\ slot \notin Passed(slot)
            BY <1>1, <2>1 DEF IInv, TypeOK, IsTable, Passed
        <3>6. Cardinality(Passed(slot + 1)) = Cardinality(Passed(slot)) + 1
            BY <1>5, <3>5, FS_AddElement
        <3>7. /\ Cardinality(DOMAIN mv) <= slot + 1
              /\ Cardinality(DOMAIN mv) <= Cardinality(Passed(slot + 1))
            BY <1>1, <1>4, <1>5, <3>4, <3>6
        <3>8. PairsIn(mv) = PairsAt(Passed(slot + 1))
            BY <3>4, <3>5 DEF IInv, Growing, PairsAt
        <3>. QED
            BY <3>1, <3>4, <3>7, <3>8 DEF mv
    <2>2. CASE slot \notin DOMAIN entries
        <3>1. new' = new
            BY <2>2 DEF MoveNext
        <3>2. Passed(slot + 1) = Passed(slot)
            BY <1>1, <2>2 DEF IInv, TypeOK, IsTable, Passed
        <3>3. Cardinality(DOMAIN new) <= slot + 1
            BY <1>1, <1>4
        <3>. QED
            BY <1>3, <3>1, <3>2, <3>3 DEF IInv, Growing
    <2>. QED
        BY <2>1, <2>2
<1>7. TypeOK'
    BY <1>1, <1>2, <1>6 DEF IInv, TypeOK, IsTable
<1>8. EveryEntryFound'
    BY <1>2, <1>6 DEF IInv, EveryEntryFound, OnPath
<1>9. Growing'
    <2>1. slot' > 0 => Full'
        BY <1>2 DEF MoveNext, Full
    <2>2. Passed(slot)' = Passed(slot + 1)
        BY <1>1, <1>2 DEF Passed
    <2>. QED
        BY <1>2, <1>6, <2>1, <2>2 DEF Growing, PairsIn, PairsAt
<1>. QED
    BY <1>2, <1>7, <1>8, <1>9 DEF IInv, CallOK

\* The new array takes the place of the old one, with the same pairs.
LEMMA GrowInv == ASSUME IInv, Grow PROVE IInv' /\ Held' = Held
<1>1. /\ cap \in 2..(SizeMod - 1) /\ SizeMod \in Nat /\ slot = cap /\ cap' = 2 * cap
      /\ 2 * cap \in 2..(SizeMod - 1) /\ len \in Nat /\ len <= cap \div 2
    BY HashMapAssumption DEF Grow, Grown, Doubled, IInv, TypeOK
<1>2. UNCHANGED <<len, call>> /\ entries' = new /\ new' = None /\ slot' = 0
    BY DEF Grow
<1>3. Passed(slot) = DOMAIN entries
    <2>1. DOMAIN entries \subseteq 0..(cap - 1)
        BY DEF IInv, TypeOK, IsTable
    <2>2. \A x \in DOMAIN entries : x < slot
        BY <1>1, <2>1
    <2>. QED
        BY <2>2 DEF Passed
<1>4. PairsIn(new) = Held /\ Cardinality(DOMAIN new) <= Cardinality(DOMAIN entries)
    BY <1>3 DEF IInv, Growing, Held, PairsAt
<1>5. IsTable(new, 2 * cap) /\ OnPath(new, 2 * cap)
    BY DEF IInv, TypeOK, EveryEntryFound
<1>6. Cardinality(DOMAIN new) <= len
    <2>1. IsFiniteSet(DOMAIN new) /\ IsFiniteSet(DOMAIN entries)
        BY <1>1, <1>5, FS_Interval, FS_Subset, 0 \in Int, 2 * cap - 1 \in Int, cap - 1 \in Int
        DEF IsTable, IInv, TypeOK
    <2>. QED
        BY <1>1, <1>4, <2>1, FS_CardinalityType DEF IInv, TypeOK
<1>7. len <= cap' \div 2
    BY <1>1
<1>8. TypeOK'
    BY <1>1, <1>2, <1>5, <1>6, <1>7, NoneIsTable DEF TypeOK, IInv
<1>9. EveryEntryFound'
    BY <1>1, <1>2, <1>5, NoneIsTable DEF EveryEntryFound
<1>10. Growing'
    <2>1. Passed(slot)' = {}
        BY <1>1, <1>2, <1>5 DEF Passed, IsTable
    <2>2. PairsIn(new)' = {} /\ Cardinality(DOMAIN new') = 0
        BY <1>2, NoneIsTable DEF PairsIn
    <2>3. PairsAt(Passed(slot))' = {} /\ Cardinality(Passed(slot))' = 0
        BY <2>1, FS_EmptySet DEF PairsAt
    <2>4. ~(slot' > 0)
        BY <1>2
    <2>. QED
        BY <2>2, <2>3, <2>4 DEF Growing
<1>11. Held' = Held
    BY <1>2, <1>4 DEF Held, PairsIn
<1>. QED
    BY <1>2, <1>8, <1>9, <1>10, <1>11 DEF IInv, CallOK

\* Hash_map_insert_move: one entry more, or the pair was there.
LEMMA InsertMoveInv ==
    ASSUME IInv, InsertMove
    PROVE  IInv' /\ call.pair \in Pairs /\ Held' = Held \cup {call.pair}
<1>. DEFINE e == [pair |-> call.pair, own |-> TRUE]
            mv == Moved(entries, cap, e)
<1>1. /\ call.pair \in Pairs /\ e \in Entry
      /\ cap \in 2..(SizeMod - 1) /\ SizeMod \in Nat /\ len \in Nat /\ len < cap \div 2
      /\ IsTable(entries, cap) /\ OnPath(entries, cap) /\ Cardinality(DOMAIN entries) <= len
    BY HashMapAssumption DEF IInv, CallOK, TypeOK, EveryEntryFound, InsertMove, Entry, Full
<1>2. slot = 0
    BY NotGrowing DEF InsertMove
<1>3. /\ entries' = mv /\ UNCHANGED <<cap, new, slot>>
      /\ len' = IF Refused(entries, cap, e) THEN len ELSE len + 1
      /\ call' = Idle
    BY DEF InsertMove, Return
<1>4. Cardinality(DOMAIN entries) \in Nat
    <2>1. IsFiniteSet(DOMAIN entries)
        BY <1>1, FS_Interval, FS_Subset, 0 \in Int, cap - 1 \in Int DEF IsTable
    <2>. QED
        BY <2>1, FS_CardinalityType
<1>5. Cardinality(DOMAIN entries) < cap
    BY <1>1, <1>4
<1>. HIDE DEF e
<1>6. /\ IsTable(mv, cap) /\ OnPath(mv, cap)
      /\ PairsIn(mv) = PairsIn(entries) \cup {e.pair}
      /\ Cardinality(DOMAIN mv) \in Nat
      /\ Cardinality(DOMAIN mv) <=
             Cardinality(DOMAIN entries) + (IF Refused(entries, cap, e) THEN 0 ELSE 1)
    <2>1. cap \in Nat \ {0}
        BY <1>1
    <2>. QED
        BY <1>1, <1>5, <2>1, MovedOnPath
<1>. HIDE DEF mv
<1>7. TypeOK'
    <2>1. /\ len' \in Nat /\ Cardinality(DOMAIN mv) <= len' /\ len' <= cap \div 2
        BY <1>1, <1>3, <1>4, <1>6
    <2>. QED
        BY <1>3, <1>6, <2>1 DEF IInv, TypeOK, Idle
<1>8. EveryEntryFound'
    BY <1>3, <1>6 DEF IInv, EveryEntryFound
<1>9. Growing'
    BY <1>1, <1>2, <1>3, <1>6, PassedNone
<1>10. Held' = Held \cup {call.pair}
    BY <1>3, <1>6 DEF Held, PairsIn, e
<1>. QED
    BY <1>1, <1>3, <1>7, <1>8, <1>9, <1>10 DEF IInv, CallOK, Idle

\* Where the probe of a key ends: at an entry of the key, or at a free slot, and then
\* no entry has the key.
LEMMA FoundRight ==
    ASSUME IInv, NEW k \in Keys
    PROVE  LET s == ProbeEnd(entries, cap, k)
           IN  /\ s \in 0..(cap - 1)
               /\ s \in DOMAIN entries => entries[s].pair.key = k
               /\ s \notin DOMAIN entries => \A p \in Held : p.key # k
               /\ \E d \in 0..(cap - 1) :
                      /\ s = Slot(cap, k, d)
                      /\ \A f \in 0..(d - 1) : Slot(cap, k, f) \in DOMAIN entries
<1>. DEFINE S == Holding(entries, k) \cup Empty(entries, cap)
            s == ProbeEnd(entries, cap, k)
<1>1. /\ cap \in Nat \ {0} /\ cap > 1 /\ IsTable(entries, cap) /\ OnPath(entries, cap)
      /\ Cardinality(DOMAIN entries) <= cap \div 2 /\ len \in Nat
    <2>1. /\ cap \in 2..(SizeMod - 1) /\ SizeMod \in Nat /\ len \in Nat /\ len <= cap \div 2
          /\ Cardinality(DOMAIN entries) <= len /\ IsTable(entries, cap) /\ OnPath(entries, cap)
        BY HashMapAssumption DEF IInv, TypeOK, EveryEntryFound
    <2>2. IsFiniteSet(DOMAIN entries)
        BY <2>1, FS_Interval, FS_Subset, 0 \in Int, cap - 1 \in Int DEF IsTable
    <2>3. Cardinality(DOMAIN entries) \in Nat
        BY <2>2, FS_CardinalityType
    <2>. QED
        BY <2>1, <2>3
<1>2. Cardinality(DOMAIN entries) < cap
    <2>1. IsFiniteSet(DOMAIN entries)
        BY <1>1, FS_Interval, FS_Subset, 0 \in Int, cap - 1 \in Int DEF IsTable
    <2>2. Cardinality(DOMAIN entries) \in Nat
        BY <2>1, FS_CardinalityType
    <2>. QED
        BY <1>1, <2>2
<1>3. PICK x \in 0..(cap - 1) : x \in Empty(entries, cap)
    BY <1>1, <1>2, FreeSlots DEF IsTable
<1>4. PICK d \in 0..(cap - 1) :
          /\ First(cap, k, S) = Slot(cap, k, d) /\ Slot(cap, k, d) \in S
          /\ \A f \in 0..(d - 1) : Slot(cap, k, f) \notin S
    <2>1. x \in S
        BY <1>3
    <2>. HIDE DEF S
    <2>. QED
        BY <1>1, <1>3, <2>1, ProbeEnds
<1>5. s = Slot(cap, k, d) /\ s \in S
    BY <1>4 DEF ProbeEnd
<1>6. \A f \in 0..(d - 1) : f \in 0..(cap - 1) /\ Slot(cap, k, f) \in DOMAIN entries
    <2>1. \A f \in 0..(d - 1) : f \in 0..(cap - 1)
        BY <1>1
    <2>. QED
        BY <1>1, <1>4, <2>1, SlotsOf DEF Empty
<1>7. ASSUME s \notin DOMAIN entries, NEW p \in Held, p.key = k PROVE FALSE
    <2>1. PICK y \in DOMAIN entries : entries[y].pair = p
        BY <1>7 DEF Held
    <2>2. PICK g \in 0..(cap - 1) : /\ y = Slot(cap, k, g)
                                    /\ \A f \in 0..g : Slot(cap, k, f) \in DOMAIN entries
        BY <1>1, <1>7, <2>1 DEF OnPath
    <2>3. ~(d \in 0..g)
        BY <1>5, <1>7, <2>2
    <2>4. g \in 0..(d - 1)
        BY <1>1, <2>3
    <2>5. y \in S
        BY <1>7, <2>1 DEF Holding
    <2>. QED
        BY <1>4, <2>2, <2>4, <2>5
<1>8. s \in 0..(cap - 1) /\ (s \in DOMAIN entries => entries[s].pair.key = k)
    BY <1>1, <1>5, SlotsOf DEF Holding, Empty
<1>. QED
    BY <1>5, <1>6, <1>7, <1>8

\* Hash_map_insert: one entry more, or one in the place of an entry of its key.
LEMMA InsertInv ==
    ASSUME IInv, Insert
    PROVE  /\ IInv' /\ call.pair \in Pairs
           /\ \/ answer' = TRUE /\ Held' = Held \cup {call.pair}
              \/ \E q \in Held : /\ q.key = call.pair.key /\ answer' = TRUE
                                     /\ Held' = (Held \ {q}) \cup {call.pair}
              \/ answer' = FALSE /\ Held' = Held
<1>. DEFINE k == call.pair.key
            s == ProbeEnd(entries, cap, k)
            e == [pair |-> call.pair, own |-> FALSE]
            known == s \in DOMAIN entries /\ entries[s] = [pair |-> call.pair, own |-> TRUE]
<1>1. /\ call.pair \in Pairs /\ k \in Keys /\ e \in Entry
      /\ cap \in 2..(SizeMod - 1) /\ SizeMod \in Nat /\ len \in Nat /\ len < cap \div 2
      /\ IsTable(entries, cap) /\ OnPath(entries, cap) /\ Cardinality(DOMAIN entries) <= len
      /\ cap \in Nat \ {0}
    BY HashMapAssumption
    DEF IInv, CallOK, TypeOK, EveryEntryFound, Insert, Entry, Pairs, Full
<1>2. slot = 0
    BY NotGrowing DEF Insert
<1>3. /\ entries' = IF known THEN entries ELSE Put(entries, s, e)
      /\ len' = IF known THEN len ELSE len + 1
      /\ UNCHANGED <<cap, new, slot>> /\ call' = Idle /\ answer' = ~known
    BY DEF Insert, Return
<1>4. /\ s \in 0..(cap - 1) /\ (s \in DOMAIN entries => entries[s].pair.key = k)
      /\ \E d \in 0..(cap - 1) :
             /\ s = Slot(cap, k, d)
             /\ \A f \in 0..(d - 1) : Slot(cap, k, f) \in DOMAIN entries
    BY <1>1, FoundRight
<1>5. /\ IsTable(Put(entries, s, e), cap)
      /\ Cardinality(DOMAIN Put(entries, s, e)) <= Cardinality(DOMAIN entries) + 1
      /\ Cardinality(DOMAIN entries) \in Nat
      /\ Cardinality(DOMAIN Put(entries, s, e)) \in Nat
    <2>. HIDE DEF s, e
    <2>. QED
        BY <1>1, <1>4, PutTable, Zenon
<1>6. OnPath(Put(entries, s, e), cap)
    <2>1. PICK d \in 0..(cap - 1) :
              /\ s = Slot(cap, k, d)
              /\ \A f \in 0..(d - 1) : Slot(cap, k, f) \in DOMAIN entries
        BY <1>4
    <2>2. e.pair.key = k
        OBVIOUS
    <2>. HIDE DEF s, e, k
    <2>. QED
        BY <1>1, <1>4, <2>1, <2>2, PutOnPath
<1>. HIDE DEF s
<1>7. TypeOK'
    <2>1. IsTable(entries', cap) /\ Cardinality(DOMAIN entries') <= len'
        BY <1>1, <1>3, <1>5
    <2>2. len' \in Nat /\ len' <= cap \div 2
        BY <1>1, <1>3
    <2>. QED
        BY <1>3, <2>1, <2>2 DEF IInv, TypeOK, Idle
<1>8. EveryEntryFound'
    BY <1>1, <1>3, <1>6 DEF IInv, EveryEntryFound
<1>9. Growing'
    BY <1>1, <1>2, <1>3, <1>5, PassedNone
<1>10. IInv'
    BY <1>3, <1>7, <1>8, <1>9 DEF IInv, CallOK, Idle
<1>11. CASE known
    BY <1>1, <1>3, <1>10, <1>11 DEF Held
<1>12. CASE ~known
    <2>1. entries' = Put(entries, s, e) /\ answer' = TRUE
        BY <1>3, <1>12
    <2>2. Held' = {entries[x].pair : x \in DOMAIN entries \ {s}} \cup {call.pair}
        BY <2>1 DEF Held, Put
    <2>3. CASE s \notin DOMAIN entries
        <3>1. Held' = Held \cup {call.pair}
            BY <2>2, <2>3 DEF Held
        <3>. QED
            BY <1>1, <1>10, <2>1, <3>1
    <2>4. CASE /\ s \in DOMAIN entries
               /\ \E x \in DOMAIN entries \ {s} : entries[x].pair = entries[s].pair
        <3>1. Held' = Held \cup {call.pair}
            BY <2>2, <2>4 DEF Held
        <3>. QED
            BY <1>1, <1>10, <2>1, <3>1
    <2>5. CASE /\ s \in DOMAIN entries
               /\ ~ \E x \in DOMAIN entries \ {s} : entries[x].pair = entries[s].pair
        <3>. DEFINE q == entries[s].pair
        <3>1. q \in Held /\ q.key = k
            BY <1>4, <2>5 DEF Held
        <3>2. Held' = (Held \ {q}) \cup {call.pair}
            BY <2>2, <2>5 DEF Held
        <3>. QED
            BY <1>1, <1>10, <2>1, <3>1, <3>2
    <2>. QED
        BY <2>3, <2>4, <2>5
<1>. QED
    BY <1>11, <1>12

(***************************************************************************)
(* The theorems                                                            *)
(***************************************************************************)

\* One step per action.
LEMMA StepInv == ASSUME IInv, [Next]_vars PROVE IInv'
<1>2. CASE Ask
    BY <1>2, AnswerInv DEF Ask
<1>3. CASE Get
    BY <1>3, AnswerInv DEF Get, Return, Idle
<1>4. CASE CannotGrow
    BY <1>4, AnswerInv DEF CannotGrow, Return, Idle
<1>5. CASE MoveNext
    BY <1>5, MoveNextInv
<1>6. CASE Grow
    BY <1>6, GrowInv
<1>7. CASE InsertMove
    BY <1>7, InsertMoveInv
<1>8. CASE Insert
    BY <1>8, InsertInv
<1>9. CASE UNCHANGED vars
    BY <1>9 DEF vars, IInv, TypeOK, EveryEntryFound, CallOK, Growing, Full, PairsIn, PairsAt,
                Passed, IsTable, OnPath
<1>. QED
    BY <1>2, <1>3, <1>4, <1>5, <1>6, <1>7, <1>8, <1>9 DEF Next

\* The table keeps its shape: never more than half full, for any hash and capacity, so a
\* probe of hash_map.c always ends.
THEOREM TableTypeCorrect == Spec => []TypeOK
<1>1. IInv => TypeOK
    BY DEF IInv
<1>. QED
    BY <1>1, InitInv, StepInv, PTL DEF Spec

\* Every entry is found by a probe for its key, whatever was inserted before and however
\* often hash_map_expand ran.
THEOREM EveryEntryFoundHolds == Spec => []EveryEntryFound
<1>1. IInv => EveryEntryFound
    BY DEF IInv
<1>. QED
    BY <1>1, InitInv, StepInv, PTL DEF Spec

(***************************************************************************)
(* What hash_map.h says, when callers give every pair once                 *)
(***************************************************************************)

\* No pair is in two slots.
Once(es) == \A x, y \in DOMAIN es : es[x].pair = es[y].pair => x = y

\* The pair of a call is not in the table, through the growth before it is inserted.
OnceEach == Once(entries) /\ Once(new) /\ (Inserting => call.pair \notin Held)

\* Then each pair is in one slot.
LEMMA OneSlot ==
    ASSUME NEW es, Once(es), NEW p \in PairsIn(es)
    PROVE  Cardinality({x \in DOMAIN es : es[x].pair = p}) = 1
<1>1. PICK s \in DOMAIN es : es[s].pair = p
    BY DEF PairsIn
<1>2. {x \in DOMAIN es : es[x].pair = p} = {s}
    BY <1>1 DEF Once
<1>. QED
    BY <1>2, FS_Singleton

\* And the bag of pairs holds each of them once.
LEMMA HeldOnce ==
    /\ Once(entries) => Contents = [p \in Held |-> 1] /\ DOMAIN Contents = Held
    /\ Once(entries') => Contents' = [p \in Held' |-> 1]
<1>. DEFINE Slots(es, p) == {x \in DOMAIN es : es[x].pair = p}
<1>1. Held = PairsIn(entries) /\ Held' = PairsIn(entries')
    BY DEF Held, PairsIn
<1>2. /\ Contents = [p \in Held |-> Cardinality(Slots(entries, p))]
      /\ Contents' = [p \in Held' |-> Cardinality(Slots(entries', p))]
    BY DEF Contents
<1>3. /\ Once(entries) => \A p \in Held : Cardinality(Slots(entries, p)) = 1
      /\ Once(entries') => \A p \in Held' : Cardinality(Slots(entries', p)) = 1
    BY <1>1, OneSlot
<1>. HIDE DEF Slots
<1>. QED
    BY <1>2, <1>3

\* An entry whose pair is new to an array is put into it once, and nowhere refused.
LEMMA MovedOnce ==
    ASSUME NEW m \in Nat \ {0}, NEW es, IsTable(es, m), Once(es), NEW e \in Entry,
           Cardinality(DOMAIN es) < m, e.pair \notin PairsIn(es)
    PROVE  Once(Moved(es, m, e)) /\ ~Refused(es, m, e)
<1>1. ~Refused(es, m, e)
    <2>1. ASSUME NEW d \in 1..(m - 1), Slot(m, e.pair.key, d) \in DOMAIN es,
                 es[Slot(m, e.pair.key, d)] = e
          PROVE  FALSE
        BY <2>1 DEF PairsIn
    <2>2. \A d \in 1..(m - 1) : d \in 0..d
        OBVIOUS
    <2>. QED
        BY <2>1, <2>2 DEF Refused
<1>2. PICK s : s = First(m, e.pair.key, Empty(es, m))
    OBVIOUS
<1>3. Moved(es, m, e) = Put(es, s, e)
    BY <1>1, <1>2 DEF Moved
<1>4. \A x \in DOMAIN es : es[x].pair # e.pair
    BY DEF PairsIn
<1>5. Once(Put(es, s, e))
    BY <1>4 DEF Once, Put
<1>. QED
    BY <1>1, <1>3, <1>5

\* What an insertion finds, when callers give every pair once.
LEMMA InsertionStarts ==
    ASSUME IInv, OnceEach, InsertMove \/ Insert
    PROVE  /\ cap \in Nat \ {0} /\ IsTable(entries, cap) /\ Cardinality(DOMAIN entries) < cap
           /\ call.pair \in Pairs /\ call.pair \notin Held /\ Held = PairsIn(entries)
           /\ Once(entries) /\ Once(new) /\ Inserting
<1>1. /\ cap \in 2..(SizeMod - 1) /\ SizeMod \in Nat /\ len \in Nat /\ len < cap \div 2
      /\ IsTable(entries, cap) /\ Cardinality(DOMAIN entries) <= len /\ call.pair \in Pairs
      /\ Inserting
    BY HashMapAssumption DEF IInv, CallOK, TypeOK, InsertMove, Insert, Full, Inserting
<1>2. IsFiniteSet(DOMAIN entries)
    BY <1>1, FS_Interval, FS_Subset, 0 \in Int, cap - 1 \in Int DEF IsTable
<1>3. Cardinality(DOMAIN entries) \in Nat
    BY <1>2, FS_CardinalityType
<1>4. cap \in Nat \ {0} /\ Cardinality(DOMAIN entries) < cap
    BY <1>1, <1>3
<1>. QED
    BY <1>1, <1>4 DEF OnceEach, Held, PairsIn

\* Hash_map_insert_move of a new pair adds it and says so.
LEMMA InsertMoveAdds ==
    ASSUME IInv, OnceEach, InsertMove
    PROVE  /\ OnceEach' /\ answer' = TRUE /\ len' = len + 1 /\ call' = Idle
           /\ Contents' = T!BagAdd(Contents, call.pair)
<1>. DEFINE e == [pair |-> call.pair, own |-> TRUE]
<1>1. /\ cap \in Nat \ {0} /\ IsTable(entries, cap) /\ Cardinality(DOMAIN entries) < cap
      /\ call.pair \in Pairs /\ call.pair \notin Held /\ Held = PairsIn(entries)
      /\ Once(entries) /\ Once(new)
    BY InsertionStarts
<1>2. e \in Entry /\ e.pair = call.pair
    BY <1>1 DEF Entry
<1>3. /\ entries' = Moved(entries, cap, e) /\ new' = new /\ call' = Idle
      /\ answer' = ~Refused(entries, cap, e)
      /\ len' = IF Refused(entries, cap, e) THEN len ELSE len + 1
    BY DEF InsertMove, Return
<1>. HIDE DEF e
<1>4. Once(Moved(entries, cap, e)) /\ ~Refused(entries, cap, e)
    BY <1>1, <1>2, MovedOnce
<1>5. OnceEach'
    BY <1>1, <1>3, <1>4 DEF OnceEach, Once, Inserting, Idle
<1>6. Held' = Held \cup {call.pair}
    BY InsertMoveInv
<1>7. /\ Contents = [p \in Held |-> 1] /\ DOMAIN Contents = Held
      /\ Contents' = [p \in Held' |-> 1]
    <2>1. Once(entries')
        BY <1>5 DEF OnceEach, Once
    <2>. QED
        BY <1>1, <2>1, HeldOnce
<1>8. Contents' = T!BagAdd(Contents, call.pair)
    BY <1>1, <1>6, <1>7 DEF T!BagAdd
<1>. QED
    BY <1>3, <1>4, <1>5, <1>8

\* Hash_map_insert of a new pair adds it when no pair has its key, and else puts it in
\* the place of one that has.
LEMMA InsertAdds ==
    ASSUME IInv, OnceEach, Insert
    PROVE  /\ OnceEach' /\ answer' = TRUE /\ len' = len + 1 /\ call' = Idle
           /\ \/ /\ \A q \in DOMAIN Contents : q.key # call.pair.key
                 /\ Contents' = T!BagAdd(Contents, call.pair)
              \/ \E q \in DOMAIN Contents :
                     /\ q.key = call.pair.key
                     /\ Contents' = T!BagAdd(T!BagRemove(Contents, q), call.pair)
<1>. DEFINE k == call.pair.key
            s == ProbeEnd(entries, cap, k)
            e == [pair |-> call.pair, own |-> FALSE]
<1>1. /\ cap \in Nat \ {0} /\ IsTable(entries, cap) /\ Cardinality(DOMAIN entries) < cap
      /\ call.pair \in Pairs /\ call.pair \notin Held /\ Held = PairsIn(entries)
      /\ Once(entries) /\ Once(new)
    BY InsertionStarts
<1>2. k \in Keys
    BY <1>1 DEF Pairs
<1>3. /\ s \in DOMAIN entries => entries[s].pair.key = k
      /\ s \notin DOMAIN entries => \A p \in Held : p.key # k
    BY <1>2, FoundRight
<1>4. ~(s \in DOMAIN entries /\ entries[s] = [pair |-> call.pair, own |-> TRUE])
    BY <1>1 DEF Held
<1>5. /\ entries' = Put(entries, s, e) /\ len' = len + 1 /\ answer' = TRUE
      /\ new' = new /\ call' = Idle
    BY <1>4 DEF Insert, Return
<1>. HIDE DEF s
<1>6. Once(entries')
    BY <1>1, <1>5 DEF Once, Put, PairsIn
<1>7. OnceEach'
    BY <1>1, <1>5, <1>6 DEF OnceEach, Once, Inserting, Idle
<1>8. /\ Contents = [p \in Held |-> 1] /\ DOMAIN Contents = Held
      /\ Contents' = [p \in Held' |-> 1]
    BY <1>1, <1>6, HeldOnce
<1>9. CASE s \notin DOMAIN entries
    <2>1. Held' = Held \cup {call.pair}
        BY <1>5, <1>9 DEF Held, Put
    <2>2. Contents' = T!BagAdd(Contents, call.pair)
        BY <1>1, <1>8, <2>1 DEF T!BagAdd
    <2>. QED
        BY <1>3, <1>5, <1>7, <1>8, <1>9, <2>2
<1>10. CASE s \in DOMAIN entries
    <2>. DEFINE q == entries[s].pair
    <2>1. q \in Held /\ q.key = k
        BY <1>3, <1>10 DEF Held
    <2>2. Held' = (Held \ {q}) \cup {call.pair}
        <3>1. \A x \in DOMAIN entries \ {s} : entries[x].pair # q
            BY <1>1, <1>10 DEF Once
        <3>. QED
            BY <1>5, <1>10, <3>1 DEF Held, Put
    <2>. HIDE DEF q
    <2>3. T!BagRemove(Contents, q) = [p \in Held \ {q} |-> 1]
        BY <1>8, <2>1 DEF T!BagRemove
    <2>4. Contents' = T!BagAdd(T!BagRemove(Contents, q), call.pair)
        BY <1>1, <1>8, <2>2, <2>3 DEF T!BagAdd
    <2>. QED
        BY <1>5, <1>7, <1>8, <2>1, <2>4
<1>. QED
    BY <1>9, <1>10

\* A table that grows moves every pair once.
LEMMA MoveNextOnce == ASSUME IInv, OnceEach, MoveNext PROVE OnceEach'
<1>1. /\ cap \in 2..(SizeMod - 1) /\ SizeMod \in Nat /\ slot \in 0..(cap - 1)
      /\ Doubled = 2 * cap /\ 2 * cap \in Nat \ {0}
    BY HashMapAssumption DEF MoveNext, Doubled, IInv, TypeOK
<1>2. UNCHANGED <<entries, call>>
    BY DEF MoveNext
<1>3. IsTable(new, 2 * cap) /\ Cardinality(DOMAIN new) <= slot
    BY DEF IInv, TypeOK
<1>4. Once(new')
    <2>1. CASE slot \in DOMAIN entries
        <3>. DEFINE e == entries[slot]
        <3>1. new' = Moved(new, 2 * cap, e) /\ e \in Entry
            BY <1>1, <2>1 DEF MoveNext, IInv, TypeOK, IsTable
        <3>2. e.pair \notin PairsIn(new)
            <4>1. \A x \in Passed(slot) : x \in DOMAIN entries /\ x # slot
                BY <1>1 DEF Passed
            <4>2. e.pair \notin PairsAt(Passed(slot))
                BY <2>1, <4>1 DEF PairsAt, OnceEach, Once
            <4>. QED
                BY <4>2 DEF IInv, Growing
        <3>3. Cardinality(DOMAIN new) < 2 * cap
            <4>1. IsFiniteSet(DOMAIN new)
                BY <1>1, <1>3, FS_Interval, FS_Subset, 0 \in Int, 2 * cap - 1 \in Int DEF IsTable
            <4>2. Cardinality(DOMAIN new) \in Nat
                BY <4>1, FS_CardinalityType
            <4>. QED
                BY <1>1, <1>3, <4>2
        <3>. HIDE DEF e
        <3>. QED
            BY <1>1, <1>3, <3>1, <3>2, <3>3, MovedOnce DEF OnceEach
    <2>2. CASE slot \notin DOMAIN entries
        BY <2>2 DEF MoveNext, OnceEach
    <2>. QED
        BY <2>1, <2>2
<1>. QED
    BY <1>2, <1>4 DEF OnceEach, Once, Held, Inserting

\* One step per action: callers give every pair once.
LEMMA OnceStep == ASSUME ~GivenAgain, IInv, OnceEach, [Next]_vars PROVE OnceEach'
<1>1. CASE Ask
    <2>1. Inserting' => call'.pair \notin Held
        BY <1>1 DEF Ask, Given, Inserting
    <2>. QED
        BY <1>1, <2>1 DEF Ask, OnceEach, Once, Held
<1>2. CASE Get \/ CannotGrow
    BY <1>2 DEF Get, CannotGrow, Return, Idle, OnceEach, Once, Inserting
<1>3. CASE MoveNext
    BY <1>3, MoveNextOnce
<1>4. CASE Grow
    <2>1. Held' = Held /\ entries' = new /\ new' = None /\ call' = call
        BY <1>4, GrowInv DEF Grow
    <2>. QED
        BY <2>1, NoneIsTable DEF OnceEach, Once, Inserting
<1>5. CASE InsertMove
    BY <1>5, InsertMoveAdds
<1>6. CASE Insert
    BY <1>6, InsertAdds
<1>7. CASE UNCHANGED vars
    BY <1>7 DEF vars, OnceEach, Once, Held, Inserting
<1>. QED
    BY <1>1, <1>2, <1>3, <1>4, <1>5, <1>6, <1>7 DEF Next

\* The table of hash_map.c does what hash_map.h says, for callers that give every pair
\* once: each step is one of module Table, which holds no pair twice, and which refuses a
\* pair only when it is in the table or there is no memory.
THEOREM TableRefined == ASSUME ~GivenAgain PROVE Spec => TableSpec
<1>1. Init => T!Init /\ OnceEach
    <2>. SUFFICES ASSUME Init PROVE T!Init /\ OnceEach
        OBVIOUS
    <2>1. Held = {} /\ Once(entries) /\ Once(new)
        BY NoneIsTable DEF Init, Held, Once
    <2>2. Contents = [p \in {} |-> 1]
        BY <2>1, HeldOnce
    <2>. QED
        BY <2>1, <2>2 DEF Init, T!Init, T!NoPairs, OnceEach, Inserting, Idle
<1>2. ASSUME IInv, OnceEach, [Next]_vars PROVE [T!Next]_<<Contents, len, call, answer>>
    <2>1. Contents = [p \in Held |-> 1] /\ DOMAIN Contents = Held
        BY <1>2, HeldOnce DEF OnceEach
    <2>2. CASE Ask
        <3>1. UNCHANGED <<Contents, len, answer>>
            BY <2>2 DEF Ask, Contents, Held
        <3>. QED
            BY <2>2, <3>1 DEF Ask, Idle, T!Next, T!Ask, T!Pairs, Pairs
    <2>3. CASE Get
        <3>1. UNCHANGED <<Contents, len>>
            BY <2>3 DEF Get, Contents, Held
        <3>2. call.key \in Keys
            BY <1>2, <2>3 DEF IInv, CallOK, Get
        <3>. DEFINE s == ProbeEnd(entries, cap, call.key)
        <3>3. /\ s \in DOMAIN entries => entries[s].pair.key = call.key
              /\ s \notin DOMAIN entries => \A p \in Held : p.key # call.key
            BY <1>2, <3>2, FoundRight
        <3>4. T!Get
            BY <2>1, <2>3, <3>1, <3>3 DEF Get, Return, Idle, T!Get, T!Return, Held
        <3>. QED
            BY <3>4 DEF T!Next
    <2>4. CASE CannotGrow
        <3>1. UNCHANGED <<Contents, len>>
            BY <2>4 DEF CannotGrow, Contents, Held
        <3>2. len >= SizeMod \div 4
            BY <1>2, <2>4, HashMapAssumption DEF CannotGrow, Full, Doubled, IInv, TypeOK
        <3>3. T!Refuse
            BY <2>4, <3>1, <3>2 DEF CannotGrow, Inserting, Return, Idle, T!Refuse, T!Return
        <3>. QED
            BY <3>3 DEF T!Next
    <2>5. CASE MoveNext
        BY <2>5 DEF MoveNext, Contents, Held
    <2>6. CASE Grow
        <3>1. Held' = Held /\ UNCHANGED <<len, call, answer>>
            BY <1>2, <2>6, GrowInv DEF Grow
        <3>2. Once(entries')
            BY <1>2, <2>6 DEF Grow, OnceEach
        <3>3. Contents' = [p \in Held' |-> 1]
            BY <3>2, HeldOnce
        <3>. QED
            BY <2>1, <3>1, <3>3
    <2>7. CASE InsertMove
        <3>1. /\ answer' = TRUE /\ len' = len + 1 /\ call' = Idle
              /\ Contents' = T!BagAdd(Contents, call.pair)
            BY <1>2, <2>7, InsertMoveAdds
        <3>2. call.op = "insert_move" /\ call.pair \notin Held
            BY <1>2, <2>7 DEF InsertMove, OnceEach, Inserting
        <3>3. T!Insert
            BY <2>1, <3>1, <3>2 DEF Idle, T!Insert, T!Return
        <3>. QED
            BY <3>3 DEF T!Next
    <2>8. CASE Insert
        <3>1. /\ answer' = TRUE /\ len' = len + 1 /\ call' = Idle
              /\ \/ /\ \A q \in DOMAIN Contents : q.key # call.pair.key
                    /\ Contents' = T!BagAdd(Contents, call.pair)
                 \/ \E q \in DOMAIN Contents :
                        /\ q.key = call.pair.key
                        /\ Contents' = T!BagAdd(T!BagRemove(Contents, q), call.pair)
            BY <1>2, <2>8, InsertAdds
        <3>2. call.op = "insert" /\ call.pair \notin Held
            BY <1>2, <2>8 DEF Insert, OnceEach, Inserting
        <3>3. T!Insert
            BY <2>1, <3>1, <3>2 DEF Idle, T!Insert, T!Return, T!SameKey
        <3>. QED
            BY <3>3 DEF T!Next
    <2>9. CASE UNCHANGED vars
        BY <2>9 DEF vars, Contents, Held
    <2>. QED
        BY <1>2, <2>2, <2>3, <2>4, <2>5, <2>6, <2>7, <2>8, <2>9 DEF Next
<1>3. ~GivenAgain
    OBVIOUS
<1>4. IInv /\ OnceEach /\ [Next]_vars => IInv' /\ OnceEach' /\ [T!Next]_<<Contents, len, call, answer>>
    BY <1>2, <1>3, StepInv, OnceStep
<1>. QED
    BY <1>1, <1>4, InitInv, PTL DEF Spec, T!Spec, TableSpec

(***************************************************************************)
(* Erasing                                                                 *)
(***************************************************************************)

\* What is left of the invariant when pairs are erased: entries may be off their paths,
\* but the table has its shape, and nothing is erased while it grows.
Kept ==
    /\ cap \in 2..(SizeMod - 1) /\ len \in Nat /\ len <= cap \div 2
    /\ IsTable(entries, cap) /\ Cardinality(DOMAIN entries) <= len
    /\ slot \in 0..cap /\ IsTable(new, 2 * cap)
    /\ Cardinality(DOMAIN new) <= Cardinality(Passed(slot))
    /\ slot > 0 => Inserting /\ Full /\ Doubled >= cap
    /\ call \in      [op : {"none", "crashed"}]
                \cup [op : {"insert", "insert_move"}, pair : Pairs]
                \cup [op : {"get", "erase"}, key : Keys]

\* A subset of an array has a size.
LEMMA TableSize ==
    ASSUME NEW m \in Nat \ {0}, NEW es, IsTable(es, m), NEW S, S \subseteq DOMAIN es
    PROVE  IsFiniteSet(S) /\ Cardinality(S) \in Nat /\ Cardinality(S) <= Cardinality(DOMAIN es)
<1>1. IsFiniteSet(DOMAIN es)
    BY FS_Interval, FS_Subset, 0 \in Int, m - 1 \in Int DEF IsTable
<1>. QED
    BY <1>1, FS_Subset, FS_CardinalityType

\* hash_map_move_entry fills one slot, or none, wherever the others are.
LEMMA MovedTable ==
    ASSUME NEW m \in Nat \ {0}, NEW es, IsTable(es, m), NEW e \in Entry,
           Cardinality(DOMAIN es) < m
    PROVE  /\ IsTable(Moved(es, m, e), m)
           /\ Cardinality(DOMAIN Moved(es, m, e)) \in Nat
           /\ Cardinality(DOMAIN Moved(es, m, e)) <=
                  Cardinality(DOMAIN es) + (IF Refused(es, m, e) THEN 0 ELSE 1)
<1>1. Cardinality(DOMAIN es) \in Nat
    BY TableSize
<1>2. CASE Refused(es, m, e)
    BY <1>1, <1>2 DEF Moved
<1>3. CASE ~Refused(es, m, e)
    <2>1. e.pair.key \in Keys
        BY DEF Entry, Pairs
    <2>2. PICK x \in 0..(m - 1) : x \in Empty(es, m)
        BY FreeSlots DEF IsTable
    <2>3. PICK d \in 0..(m - 1) : First(m, e.pair.key, Empty(es, m)) = Slot(m, e.pair.key, d)
        BY <2>1, <2>2, ProbeEnds
    <2>4. PICK s \in 0..(m - 1) : s = First(m, e.pair.key, Empty(es, m))
        BY <2>1, <2>3, SlotsOf
    <2>5. Moved(es, m, e) = Put(es, s, e)
        BY <1>3, <2>4 DEF Moved
    <2>6. /\ IsTable(Put(es, s, e), m)
          /\ Cardinality(DOMAIN Put(es, s, e)) <= Cardinality(DOMAIN es) + 1
          /\ Cardinality(DOMAIN Put(es, s, e)) \in Nat
        BY PutTable, Zenon
    <2>. QED
        BY <1>3, <2>5, <2>6
<1>. QED
    BY <1>2, <1>3

\* Facts of sizes that the steps need.
LEMMA KeptSizes ==
    ASSUME Kept
    PROVE  /\ cap \in Nat \ {0} /\ 2 * cap \in Nat \ {0} /\ SizeMod \in Nat
           /\ Cardinality(DOMAIN entries) \in Nat /\ Cardinality(DOMAIN entries) < cap
           /\ Cardinality(DOMAIN new) \in Nat
           /\ \A n : Cardinality(Passed(n)) \in Nat
                     /\ Cardinality(Passed(n)) <= Cardinality(DOMAIN entries)
                     /\ IsFiniteSet(Passed(n))
<1>1. cap \in Nat \ {0} /\ 2 * cap \in Nat \ {0} /\ SizeMod \in Nat /\ cap \div 2 < cap
    BY HashMapAssumption DEF Kept
<1>2. Cardinality(DOMAIN entries) \in Nat /\ Cardinality(DOMAIN new) \in Nat
    BY <1>1, TableSize DEF Kept
<1>3. Cardinality(DOMAIN entries) < cap
    BY <1>1, <1>2 DEF Kept
<1>4. ASSUME NEW n
      PROVE  /\ Cardinality(Passed(n)) \in Nat
             /\ Cardinality(Passed(n)) <= Cardinality(DOMAIN entries)
             /\ IsFiniteSet(Passed(n))
    <2>1. Passed(n) \subseteq DOMAIN entries
        BY DEF Passed
    <2>. QED
        BY <1>1, <2>1, TableSize DEF Kept
<1>. QED
    BY <1>1, <1>2, <1>3, <1>4

\* The followers of a slot are a run of entries that ends at one of them.
LEMMA LastFollower ==
    ASSUME Kept, NEW s \in DOMAIN entries, NEW h
    PROVE  s + Cardinality(Followers(s, h)) \in DOMAIN entries
<1>. DEFINE F == Followers(s, h)
<1>1. cap \in Nat /\ s \in 0..(cap - 1)
    BY KeptSizes DEF Kept, IsTable
<1>2. /\ F \subseteq 1..(cap - 1 - s)
      /\ \A k \in F : s + k \in DOMAIN entries
      /\ \A k \in F : \A j \in 1..k : j \in F
    <2>1. F \subseteq 1..(cap - 1 - s)
        BY DEF Followers
    <2>2. ASSUME NEW k \in F PROVE s + k \in DOMAIN entries
        <3>1. k \in 1..k
            BY <2>1
        <3>. QED
            BY <3>1 DEF Followers
    <2>3. ASSUME NEW k \in F, NEW j \in 1..k PROVE j \in F
        <3>1. j \in 1..(cap - 1 - s) /\ \A l \in 1..j : l \in 1..k
            BY <1>1, <2>1
        <3>. QED
            BY <3>1 DEF Followers
    <2>. QED
        BY <2>1, <2>2, <2>3
<1>. HIDE DEF F
<1>. DEFINE D == {k \in Nat : k + 1 \notin F}
<1>3. D \in SUBSET Nat /\ D # {}
    <2>1. cap \in D
        BY <1>1, <1>2
    <2>. QED
        BY <2>1
<1>4. PICK n \in D : \A k \in D : n <= k
    <2>. HIDE DEF D
    <2>. QED
        BY <1>3, LeastNat
<1>5. F = 1..n
    <2>1. ASSUME NEW k \in F, k > n PROVE FALSE
        <3>1. n + 1 \in 1..k
            BY <1>2, <1>4, <2>1
        <3>. QED
            BY <1>2, <1>4, <3>1
    <2>2. ASSUME NEW k \in 1..n PROVE k \in F
        <3>1. k - 1 \in Nat /\ k - 1 < n /\ k - 1 + 1 = k
            BY <1>4
        <3>2. k - 1 \notin D
            BY <1>4, <3>1
        <3>. QED
            BY <3>1, <3>2
    <2>3. \A k \in F : k \in 1..n
        BY <1>1, <1>2, <1>4, <2>1
    <2>. QED
        BY <2>2, <2>3
<1>6. Cardinality(F) = n
    BY <1>4, <1>5, FS_Interval, 1 \in Int, n \in Int
<1>7. CASE n = 0
    BY <1>1, <1>6, <1>7 DEF F
<1>8. CASE n > 0
    <2>1. n \in F
        BY <1>4, <1>5, <1>8
    <2>. QED
        BY <1>2, <1>6, <2>1 DEF F
<1>. QED
    BY <1>4, <1>7, <1>8

\* The entries that an erase leaves are some of those that were there, and all of other keys.
LEMMA ErasedRight ==
    ASSUME Kept, EraseFound
    PROVE  /\ IsTable(entries', cap) /\ DOMAIN entries' \subseteq DOMAIN entries
           /\ Held' \subseteq Held
           /\ \A p \in Held \ Held' : p.key = call.key
<1>1. PICK s \in DOMAIN entries : s = HomeSlot /\ entries[s].pair.key = call.key
    BY DEF EraseFound
<1>2. PICK last \in DOMAIN entries : last = s + Cardinality(Followers(s, Hash[call.key]))
    BY <1>1, LastFollower
<1>3. entries' = [x \in DOMAIN entries \ {last} |-> entries[IF x = s THEN last ELSE x]]
    BY <1>1, <1>2 DEF EraseFound
<1>4. IsTable(entries', cap) /\ DOMAIN entries' \subseteq DOMAIN entries
    BY <1>3 DEF Kept, IsTable
<1>5. Held' \subseteq Held
    BY <1>3 DEF Held
<1>6. ASSUME NEW p \in Held, p \notin Held' PROVE p.key = call.key
    <2>1. PICK x \in DOMAIN entries : entries[x].pair = p
        BY DEF Held
    <2>2. CASE x = s
        BY <1>1, <2>1, <2>2
    <2>3. CASE x # s /\ x = last
        <3>1. s \in DOMAIN entries' /\ entries'[s] = entries[last]
            BY <1>3, <2>3
        <3>. QED
            BY <1>6, <2>1, <2>3, <3>1 DEF Held
    <2>4. CASE x # s /\ x # last
        <3>1. x \in DOMAIN entries' /\ entries'[x] = entries[x]
            BY <1>3, <2>4
        <3>. QED
            BY <1>6, <2>1, <3>1 DEF Held
    <2>. QED
        BY <2>2, <2>3, <2>4
<1>. QED
    BY <1>4, <1>5, <1>6

\* A step that changes no array, and nothing of a table that grows.
LEMMA AnswerKeeps ==
    ASSUME Kept, UNCHANGED <<cap, len, entries, new, slot>>, slot = 0,
           call' \in [op : {"none", "crashed"}] \cup [op : {"get", "erase"}, key : Keys]
                     \cup [op : {"insert", "insert_move"}, pair : Pairs]
    PROVE  Kept'
BY DEF Kept, Passed, IsTable

\* Growing keeps the shape.
LEMMA GrowthKeeps == ASSUME Kept, MoveNext \/ Grow PROVE Kept'
<1>1. /\ cap \in 2..(SizeMod - 1) /\ cap \in Nat \ {0} /\ 2 * cap \in Nat \ {0} /\ SizeMod \in Nat
      /\ Doubled >= cap /\ Inserting /\ Full
    BY KeptSizes DEF Kept, MoveNext, Grow
<1>2. Doubled = 2 * cap /\ 2 * cap \in 2..(SizeMod - 1)
    BY <1>1 DEF Doubled
<1>3. CASE MoveNext
    <2>1. /\ slot \in 0..(cap - 1) /\ slot' = slot + 1
          /\ new' = IF slot \in DOMAIN entries THEN Moved(new, 2 * cap, entries[slot]) ELSE new
          /\ UNCHANGED <<cap, len, entries, call>>
        BY <1>2, <1>3 DEF MoveNext, Kept
    <2>2. Cardinality(DOMAIN new) < 2 * cap
        BY <1>1, KeptSizes DEF Kept
    <2>3. IsTable(new', 2 * cap) /\ Cardinality(DOMAIN new') <= Cardinality(Passed(slot + 1))
        <3>1. CASE slot \in DOMAIN entries
            <4>1. entries[slot] \in Entry
                BY <3>1 DEF Kept, IsTable
            <4>2. new' = Moved(new, 2 * cap, entries[slot])
                BY <2>1, <3>1
            <4>3. /\ IsTable(new', 2 * cap) /\ Cardinality(DOMAIN new') \in Nat
                  /\ Cardinality(DOMAIN new') <=
                         Cardinality(DOMAIN new) + (IF Refused(new, 2 * cap, entries[slot]) THEN 0 ELSE 1)
                BY <1>1, <2>2, <4>1, <4>2, MovedTable DEF Kept
            <4>4. Passed(slot + 1) = Passed(slot) \cup {slot} /\ slot \notin Passed(slot)
                BY <1>1, <2>1, <3>1 DEF Kept, IsTable, Passed
            <4>5. Cardinality(Passed(slot + 1)) = Cardinality(Passed(slot)) + 1
                BY <4>4, KeptSizes, FS_AddElement
            <4>. QED
                BY <4>3, <4>5, KeptSizes DEF Kept
        <3>2. CASE slot \notin DOMAIN entries
            <4>1. Passed(slot + 1) = Passed(slot)
                BY <1>1, <2>1, <3>2 DEF Kept, IsTable, Passed
            <4>. QED
                BY <2>1, <3>2, <4>1 DEF Kept
        <3>. QED
            BY <3>1, <3>2
    <2>4. Passed(slot)' = Passed(slot + 1)
        BY <2>1 DEF Passed
    <2>5. slot' \in 0..cap
        BY <1>1, <2>1
    <2>6. Inserting' /\ Full' /\ Doubled' >= cap'
        BY <1>1, <2>1 DEF Inserting, Full, Doubled
    <2>. QED
        BY <2>1, <2>3, <2>4, <2>5, <2>6 DEF Kept, IsTable
<1>4. CASE Grow
    <2>1. /\ entries' = new /\ cap' = 2 * cap /\ new' = None /\ slot' = 0 /\ slot = cap
          /\ UNCHANGED <<len, call>>
        BY <1>2, <1>4 DEF Grow, Grown
    <2>2. Cardinality(DOMAIN new) <= len /\ len <= (2 * cap) \div 2
        <3>1. Cardinality(DOMAIN new) <= Cardinality(Passed(slot)) /\ len \in Nat
              /\ Cardinality(DOMAIN entries) <= len /\ len <= cap \div 2
            BY DEF Kept
        <3>. QED
            BY <1>1, <3>1, KeptSizes
    <2>3. Cardinality(DOMAIN new') <= Cardinality(Passed(slot)')
        <3>1. Passed(slot)' = {}
            BY <1>1, <2>1 DEF Kept, IsTable, Passed
        <3>. QED
            BY <2>1, <3>1, NoneIsTable, FS_EmptySet
    <2>4. IsTable(entries', cap') /\ IsTable(new', 2 * cap')
        BY <2>1, NoneIsTable DEF Kept
    <2>. QED
        BY <1>2, <2>1, <2>2, <2>3, <2>4 DEF Kept
<1>. QED
    BY <1>3, <1>4

\* Insertions fill one slot at most.
LEMMA InsertionKeeps == ASSUME Kept, InsertMove \/ Insert PROVE Kept'
<1>1. /\ cap \in 2..(SizeMod - 1) /\ cap \in Nat \ {0} /\ SizeMod \in Nat
      /\ IsTable(entries, cap) /\ len \in Nat /\ len < cap \div 2
      /\ call.pair \in Pairs
      /\ Cardinality(DOMAIN entries) \in Nat /\ Cardinality(DOMAIN entries) <= len
      /\ Cardinality(DOMAIN entries) < cap
    BY KeptSizes DEF Kept, InsertMove, Insert, Full
<1>2. slot = 0 /\ UNCHANGED <<cap, new, slot>> /\ call' = Idle
    BY DEF Kept, InsertMove, Insert, Return
<1>3. \/ entries' = entries /\ len' = len
      \/ /\ IsTable(entries', cap) /\ len' = len + 1
         /\ Cardinality(DOMAIN entries') \in Nat
         /\ Cardinality(DOMAIN entries') <= Cardinality(DOMAIN entries) + 1
    <2>1. CASE InsertMove
        <3>1. PICK e \in Entry : e = [pair |-> call.pair, own |-> TRUE]
            BY <1>1 DEF Entry
        <3>2. /\ entries' = Moved(entries, cap, e)
              /\ len' = IF Refused(entries, cap, e) THEN len ELSE len + 1
            BY <2>1, <3>1 DEF InsertMove
        <3>3. /\ IsTable(Moved(entries, cap, e), cap)
              /\ Cardinality(DOMAIN Moved(entries, cap, e)) \in Nat
              /\ Cardinality(DOMAIN Moved(entries, cap, e)) <=
                     Cardinality(DOMAIN entries) + (IF Refused(entries, cap, e) THEN 0 ELSE 1)
            BY <1>1, MovedTable
        <3>4. CASE Refused(entries, cap, e)
            BY <3>2, <3>4 DEF Moved
        <3>5. CASE ~Refused(entries, cap, e)
            BY <3>2, <3>3, <3>5
        <3>. QED
            BY <3>4, <3>5
    <2>2. CASE Insert
        <3>1. PICK e \in Entry : e = [pair |-> call.pair, own |-> FALSE]
            BY <1>1 DEF Entry
        <3>2. call.pair.key \in Keys
            BY <1>1 DEF Pairs
        <3>3. PICK x \in 0..(cap - 1) : x \in Empty(entries, cap)
            BY <1>1, FreeSlots DEF IsTable
        <3>4. PICK s \in 0..(cap - 1) : s = ProbeEnd(entries, cap, call.pair.key)
            <4>1. PICK S : S = Holding(entries, call.pair.key) \cup Empty(entries, cap)
                OBVIOUS
            <4>2. PICK d \in 0..(cap - 1) : First(cap, call.pair.key, S) = Slot(cap, call.pair.key, d)
                <5>1. x \in S
                    BY <3>3, <4>1, Zenon
                <5>. QED
                    BY <1>1, <3>2, <5>1, ProbeEnds
            <4>3. ProbeEnd(entries, cap, call.pair.key) = Slot(cap, call.pair.key, d)
                BY <4>1, <4>2 DEF ProbeEnd
            <4>. QED
                BY <1>1, <3>2, <4>3, SlotsOf
        <3>5. \/ entries' = Put(entries, s, e) /\ len' = len + 1
              \/ entries' = entries /\ len' = len
            BY <2>2, <3>1, <3>4 DEF Insert
        <3>6. /\ IsTable(Put(entries, s, e), cap)
              /\ Cardinality(DOMAIN Put(entries, s, e)) <= Cardinality(DOMAIN entries) + 1
              /\ Cardinality(DOMAIN Put(entries, s, e)) \in Nat
            BY <1>1, PutTable, Zenon
        <3>. QED
            BY <3>5, <3>6
    <2>. QED
        BY <2>1, <2>2
<1>4. /\ IsTable(entries', cap) /\ len' \in Nat /\ len' <= cap \div 2
      /\ Cardinality(DOMAIN entries') <= len'
    BY <1>1, <1>3
<1>5. Cardinality(DOMAIN new') <= Cardinality(Passed(slot)')
    <2>1. Passed(slot) = {} /\ Passed(slot)' = {}
        BY <1>1, <1>2, <1>4 DEF Passed, IsTable
    <2>. QED
        BY <1>2, <2>1 DEF Kept
<1>. QED
    BY <1>2, <1>4, <1>5 DEF Kept, Idle

\* One step per action.
LEMMA KeptStep == ASSUME Kept, [NextOrErase]_vars PROVE Kept'
<1>1. CASE Ask \/ AskErase
    <2>1. UNCHANGED <<cap, len, entries, new, slot>> /\ slot = 0
        BY <1>1 DEF Ask, AskErase, Kept, Inserting, Idle
    <2>2. call' \in [op : {"none", "crashed"}] \cup [op : {"get", "erase"}, key : Keys]
                    \cup [op : {"insert", "insert_move"}, pair : Pairs]
        BY <1>1 DEF Ask, AskErase
    <2>. QED
        BY <2>1, <2>2, AnswerKeeps
<1>2. CASE Get \/ EraseEnds
    BY <1>2, AnswerKeeps DEF Get, EraseEnds, Return, Idle, Kept, Inserting
<1>3. CASE CannotGrow
    <2>1. slot = 0
        <3>1. slot \in Nat /\ cap \in Nat /\ Doubled \in Int
            BY KeptSizes DEF Kept, Doubled
        <3>. QED
            BY <1>3, <3>1 DEF CannotGrow, Kept
    <2>. QED
        BY <1>3, <2>1, AnswerKeeps DEF CannotGrow, Return, Idle
<1>4. CASE MoveNext \/ Grow
    BY <1>4, GrowthKeeps
<1>5. CASE InsertMove \/ Insert
    BY <1>5, InsertionKeeps
<1>6. CASE EraseFound
    <2>1. IsTable(entries', cap) /\ DOMAIN entries' \subseteq DOMAIN entries
        BY <1>6, ErasedRight
    <2>2. UNCHANGED <<cap, len, new, slot>> /\ slot = 0 /\ (call' = call \/ call' = [op |-> "crashed"])
        BY <1>6 DEF EraseFound, Kept, Inserting
    <2>3. Cardinality(DOMAIN entries') <= len
        <3>1. /\ Cardinality(DOMAIN entries') \in Nat
              /\ Cardinality(DOMAIN entries') <= Cardinality(DOMAIN entries)
            BY <2>1, KeptSizes, TableSize DEF Kept
        <3>. QED
            BY <3>1, KeptSizes DEF Kept
    <2>4. Passed(slot) = {} /\ Passed(slot)' = {}
        BY <2>1, <2>2 DEF Passed, Kept, IsTable
    <2>5. call' \in [op : {"none", "crashed"}] \cup [op : {"get", "erase"}, key : Keys]
                    \cup [op : {"insert", "insert_move"}, pair : Pairs]
        BY <2>2 DEF Kept
    <2>6. Cardinality(DOMAIN new') <= Cardinality(Passed(slot)')
        BY <2>2, <2>4 DEF Kept
    <2>. QED
        BY <2>1, <2>2, <2>3, <2>5, <2>6 DEF Kept
<1>7. CASE UNCHANGED vars
    BY <1>7 DEF vars, Kept, Passed, IsTable, Inserting, Full, Doubled
<1>. QED
    BY <1>1, <1>2, <1>3, <1>4, <1>5, <1>6, <1>7 DEF NextOrErase, Next, EraseSpins

\* Hash_map_erase takes nothing but pairs of its key, for any hash, whatever was inserted
\* and erased before, and though entries may be off their paths by then.
THEOREM EraseKeepsOthersHolds == SpecWithErase => EraseKeepsOthers
<1>1. Init => Kept
    <2>. SUFFICES ASSUME Init PROVE Kept
        OBVIOUS
    <2>1. IInv
        BY InitInv
    <2>2. slot = 0 /\ new = None /\ call = Idle
        BY DEF Init
    <2>3. Passed(slot) = {}
        BY <2>1, <2>2 DEF IInv, TypeOK, IsTable, Passed
    <2>. QED
        BY <2>1, <2>2, <2>3, NoneIsTable, FS_EmptySet DEF Kept, IInv, TypeOK, Idle
<1>2. Kept /\ [NextOrErase]_vars => Kept'
    BY KeptStep
<1>3. ASSUME Kept, [NextOrErase]_vars, call.op = "erase"
      PROVE  /\ Held' \subseteq Held
             /\ \A p \in Held \ Held' : p.key = call.key
    <2>1. CASE EraseFound
        BY <1>3, <2>1, ErasedRight
    <2>2. CASE ~EraseFound
        <3>1. entries' = entries
            BY <1>3, <2>2
            DEF NextOrErase, Next, AskErase, EraseEnds, EraseSpins, Ask, Get, CannotGrow, MoveNext,
                Grow, InsertMove, Insert, Inserting, Idle, vars
        <3>. QED
            BY <3>1 DEF Held
    <2>. QED
        BY <2>1, <2>2
<1>4. Kept /\ [NextOrErase]_vars
      => [call.op = "erase" => /\ Held' \subseteq Held
                               /\ \A p \in Held \ Held' : p.key = call.key]_vars
    BY <1>3
<1>. QED
    BY <1>1, <1>2, <1>4, PTL DEF SpecWithErase, EraseKeepsOthers
=============================================================================
