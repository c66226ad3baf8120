----------------------------- MODULE HashTable ------------------------------
(***************************************************************************)
(* The hash table of the user-level encrypt server, clear_stack/hash.c:    *)
(* Size bins, each a list of key-value pairs in strcmp() order.  A key is  *)
(* the rank of its string in that order.                                   *)
(*                                                                         *)
(* htHash() starts from an uninitialised hashval and shifts it left by     *)
(* eight bits for each character.  A key of fewer than eight characters    *)
(* may thus get another bin in every call, and so may a longer one, since  *)
(* the loop is left at once when the value it starts from is ULONG_MAX:    *)
(* Bins[key] is the set of bins that a call may return.                    *)
(***************************************************************************)
EXTENDS Integers, SequencesExt

CONSTANTS Keys, Values, None, Size, Bins

ASSUME HashAssumption ==
    /\ Keys \subseteq Nat /\ None \notin Values
    /\ Size \in Nat \ {0}
    /\ Bins \in [Keys -> SUBSET (0 .. Size - 1) \ {{}}]

VARIABLES ht,
          call   \* the last call: its function, its key, and the value given or got

Pair == [key : Keys, value : Values]

htCreate == [b \in 0 .. Size - 1 |-> <<>>]

htNewpair(key, value) == [key |-> key, value |-> value]

(* Mutant: the walk also passes the pair that has the key. *)
StopsAfter(list, key) == {n \in 1 .. Len(list) + 1 : n <= Len(list) => list[n].key > key}

(* Where the walk along a bin stops: at the first pair that is not before key. *)
Stops(list, key) == {n \in 1 .. Len(list) + 1 : n <= Len(list) => list[n].key >= key}
Stop(list, key)  == CHOOSE n \in Stops(list, key) : \A m \in Stops(list, key) : n <= m

Present(list, key) == Stop(list, key) <= Len(list) /\ list[Stop(list, key)].key = key

(* Mutant: the rest of the list is not linked behind a new pair. *)
htSetUnlinked(table, bin, key, value) ==
    LET list == table[bin]
        n    == Stop(list, key)
    IN  [table EXCEPT ![bin] = IF Present(list, key)
                               THEN [list EXCEPT ![n].value = value]
                               ELSE Append(SubSeq(list, 1, n - 1), htNewpair(key, value))]

htSet(table, bin, key, value) ==
    LET list == table[bin]
        n    == Stop(list, key)
    IN  [table EXCEPT ![bin] = IF Present(list, key)
                               THEN [list EXCEPT ![n].value = value]
                               ELSE InsertAt(list, n, htNewpair(key, value))]

htGet(table, bin, key) ==
    IF Present(table[bin], key) THEN table[bin][Stop(table[bin], key)].value ELSE None
-----------------------------------------------------------------------------
Called(fn, key, value) == [fn |-> fn, key |-> key, value |-> value]

HtInit == ht = htCreate /\ call = Called("htCreate", 0, None)

Set(key, value) == /\ \E bin \in Bins[key] : ht' = htSet(ht, bin, key, value)
                   /\ call' = Called("htSet", key, value)

Get(key) == /\ \E bin \in Bins[key] : call' = Called("htGet", key, htGet(ht, bin, key))
            /\ UNCHANGED ht
-----------------------------------------------------------------------------
(* Every bin is in strictly ascending order, in whatever order keys came: htSet's three  *)
(* ways of linking a pair in rely on it, and so does htGet, which stops early.           *)
BinsSorted ==
    /\ ht \in [0 .. Size - 1 -> Seq(Pair)]
    /\ call \in [fn : {"htCreate", "htSet", "htGet"}, key : Nat, value : Values \cup {None}]
    /\ \A b \in 0 .. Size - 1 : \A m, n \in DOMAIN ht[b] : m < n => ht[b][m].key < ht[b][n].key

(* The table is a map although it is lists in bins: htSet stores the value it is given   *)
(* under its key and loses no other key, and htGet answers with a value of its own key.  *)
(* For a key that always gets the same bin that is the value it was last set to; for the *)
(* others it may be an older one, or none.                                               *)
OneBin       == {key \in Keys : \E b \in 0 .. Size - 1 : Bins[key] = {b}}
PairsOf(key) == {p \in UNION {Range(ht[b]) : b \in 0 .. Size - 1} : p.key = key}
Stored(key)  == {p.value : p \in PairsOf(key)}
TheMap == INSTANCE KeyMap WITH Exact <- OneBin, map <- [key \in Keys |-> Stored(key)]
IsMap  == TheMap!Spec
=============================================================================
