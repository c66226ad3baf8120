--------------------------- MODULE MCSharedVault ----------------------------
(***************************************************************************)
(* SharedVault for TLC: the processes are interchangeable.                 *)
(***************************************************************************)
EXTENDS SharedVault, TLC

Symmetry == Permutations(Procs)

(* The bound of the run.  Nothing is claimed of the stacks once critical sections have    *)
(* met, so a race is followed only as long as data has not come into a frame it does not  *)
(* belong to, and until its handlers have returned.  While it lasts no other handler      *)
(* starts, but for two cases that only a race reaches: a released record below the top,   *)
(* and an encrypt that is about to build the buffers over those of another.               *)
RaceBound ==
    raced => /\ \A p \in Procs : \A d \in 1 .. Levels : mem[p][d] \in {Fill, <<p, d>>}
             /\ \/ CallerGone
                \/ InKernel # {} /\ InKernel' \subseteq InKernel
                \/ call_stack_top > 0 /\ \E p \in Procs : pc[p] = "init"
=============================================================================
