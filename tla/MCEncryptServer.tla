-------------------------- MODULE MCEncryptServer ---------------------------
(* Instances of EncryptServer for TLC: lines in the format of the protocol, whose last *)
(* token is a number, and lines whose last token starts with the letter that the       *)
(* server looks for.                                                                   *)
EXTENDS EncryptServer

R(op, func, head) == [op |-> op, func |-> func, head |-> head]

(* Keys 2 and 3 share a bin, and key 1, a short one, may get that bin or another. *)
MCBins == [key \in Keys |-> IF key = 1 THEN {0, 1} ELSE {0}]

(* A complete line, and one that lacks all tokens but the first, which may be taken for *)
(* a request of any kind.                                                                *)
MCRequests == {R("e", 3, "e"), R("d", 2, "short")}

MCFormat == {R("e", 1, "digit"), R("d", 1, "digit")}
=============================================================================
