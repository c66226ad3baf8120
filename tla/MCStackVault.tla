---------------------------- MODULE MCStackVault ----------------------------
(* Instances of StackVault for TLC. *)
EXTENDS StackVault

F(name, sp, rbp, plist) == [func |-> name, sp |-> sp, rbp |-> rbp, plist |-> plist]
ByValue(a)       == [addr |-> a, size |-> 1, pointer |-> 0]
Pointer(a, l, n) == [addr |-> a, size |-> n, pointer |-> l]

(* Cells 6 .. 11 are the frame of f, with a by-value parameter at 10 and a pointer to  *)
(* a pointer at 6, and 1 .. 3 the frame of g or of a recursive f.  g's pointer at 1    *)
(* may point into its own frame or to the cell f's pointer ends at.                    *)
MCInitMem == [a \in 0 .. 12 |-> CASE a = 6 -> 7 [] a = 7 -> 8 [] a = 1 -> 3 [] OTHER -> 20]

MCData  == {3, 7, 8, 20, 21}

MCSites == {F("f", 5, 12, <<ByValue(10), Pointer(6, 2, 1)>>),
            F("g", 0, 4, <<Pointer(1, 1, 1)>>),
            F("f", 0, 4, <<>>)}

MCSymbols == <<"f", "g">>

MCStores == {<<8, 21>>, <<3, 21>>, <<1, 8>>, <<10, 21>>}

(* Requests the handlers were not written for: f's frame is 5 .. 9 with parameters in  *)
(* the middle of it, a pointer across one, a chain that leaves it, or a pointer with a *)
(* negative number of levels, which goes round a cell that points to itself until the  *)
(* int has run through; objects of size 0; g names a pointer outside its frame, or asks *)
(* with rbp below rsp, or below two frames that are hidden; h is in no symbol table.    *)
OddInitMem == [a \in 0 .. 10 |-> IF a = 5 THEN 7 ELSE 20]

OddData == {1, 5, 7, 20}

OddSites == {F("f", 4, 10, <<ByValue(9), Pointer(5, 2, 1)>>),
             F("f", 4, 10, <<ByValue(6), ByValue(8), Pointer(5, 1, 1)>>),
             F("f", 4, 10, <<Pointer(5, -1, 1)>>),
             F("f", 4, 10, <<Pointer(6, 0, 0), Pointer(5, 1, 0), Pointer(7, 1, 1)>>),
             F("g", 2, 3, <<Pointer(6, 1, 1)>>),
             F("g", 2, 2, <<>>),
             F("g", 0, 1, <<>>),
             F("h", 0, 1, <<>>)}

OddStores == {<<5, 1>>, <<5, 5>>}

(* A chain of four small frames, for nesting. *)
ChainSymbols == <<"f">>

ChainSites == {F("f", 6, 7, <<>>), F("f", 4, 5, <<>>), F("f", 2, 3, <<>>), F("f", 0, 1, <<>>)}
=============================================================================
