------------------------------- MODULE KeyMap -------------------------------
(***************************************************************************)
(* What clear_stack/hash.c promises: a map from keys to values, set and    *)
(* got by calls that name their key.  A key of Exact has the value it was  *)
(* last set to.  Of another key older values may be left behind, and a     *)
(* call that gets it may find one of them, or None, the NULL of htGet.     *)
(***************************************************************************)
CONSTANTS Keys, Values, None, Exact

VARIABLES map,   \* the values that are kept for each key
          call   \* the last call: its function, its key, and the value given or got

Init == map = [key \in Keys |-> {}] /\ call.fn = "htCreate"

Set(key) ==
    /\ call'.fn = "htSet" /\ call'.key = key
    /\ \E older \in SUBSET (IF key \in Exact THEN {} ELSE map[key]) :
          map' = [map EXCEPT ![key] = older \cup {call'.value}]

Get(key) ==
    /\ call'.fn = "htGet" /\ call'.key = key
    /\ \/ call'.value \in map[key]
       \/ call'.value = None /\ (map[key] = {} \/ key \notin Exact)
    /\ UNCHANGED map

Next == \E key \in Keys : Set(key) \/ Get(key)

Spec == Init /\ [][Next]_<<map, call>>
=============================================================================
