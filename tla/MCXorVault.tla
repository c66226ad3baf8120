----------------------------- MODULE MCXorVault -----------------------------
(***************************************************************************)
(* XorVault for TLC, with words of two cells: a frame of an even and one   *)
(* of an odd number of cells, which share cells; parameters inside a       *)
(* frame, at its end, across it and of several cells; a key with a zero.   *)
(***************************************************************************)
EXTENDS XorVault

R(rsp, rbp, plt, key) == [rsp |-> rsp, rbp |-> rbp, plt |-> plt, key |-> key]
P(addr, size) == [addr |-> addr, size |-> size]
K(x, y) == [n \in 0 .. 1 |-> IF n = 0 THEN x ELSE y]

MCRequests == {R(0, 2, <<P(1, 2)>>, K(1, 1)),
               R(2, 5, <<P(3, 2), P(4, 1)>>, K(1, 0)),
               R(3, 2, <<>>, K(1, 1)), R(5, 1, <<>>, K(1, 1)),
               R(1, 4, <<>>, K(1, 1))}
=============================================================================
