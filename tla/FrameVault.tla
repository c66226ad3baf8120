----------------------------- MODULE FrameVault -----------------------------
(***************************************************************************)
(* What protecting stack frames promises, whatever the kernel module does  *)
(* to keep the promise.  `plain' is the stack the program would have if    *)
(* nobody touched it; `view' is the stack that is really in memory.  A     *)
(* cell of the view shows its plain value or the fill pattern.  Protecting *)
(* only ever hides cells of the frame it was asked to protect (`asking'),  *)
(* unprotecting only ever shows the plain value again, and the program's   *)
(* stores go to cells it can see.  Where the memory for a copy may be      *)
(* refused, cells of that frame may also be lost at the moment they are    *)
(* hidden: they are the fill pattern from then on, for the program too.    *)
(***************************************************************************)
CONSTANTS Addr, Data, Fill, MayLose

VARIABLES plain, view, asking

Init == /\ plain \in [Addr -> Data]
        /\ view = plain
        /\ asking = {}

(* The program stores v in a cell that is not hidden; it may be lost. *)
Store == \E a \in Addr, v \in Data :
            /\ asking = {}
            /\ view[a] # Fill \/ plain[a] = Fill
            /\ plain' = [plain EXCEPT ![a] = v]
            /\ view' = [view EXCEPT ![a] = v]
            /\ UNCHANGED asking

(* The protection of a frame begins, and ends. *)
Ask == /\ asking = {} /\ asking' \subseteq Addr
       /\ UNCHANGED <<plain, view>>

Done == asking' = {} /\ UNCHANGED <<plain, view>>

Conceal == /\ \A a \in Addr : view'[a] = view[a] \/ (a \in asking /\ view'[a] = Fill)
           /\ UNCHANGED <<plain, asking>>

Reveal == /\ asking = {}
          /\ \A a \in Addr : view'[a] \in {view[a], plain[a]}
          /\ UNCHANGED <<plain, asking>>

(* Only what is in sight in the frame can be lost, never what is kept for a hidden cell. *)
Lose == /\ MayLose
        /\ \A a \in Addr : \/ plain'[a] = plain[a] /\ view'[a] = view[a]
                           \/ /\ a \in asking /\ plain[a] = view[a]
                              /\ plain'[a] = Fill /\ view'[a] = Fill
        /\ UNCHANGED asking

Next == Store \/ Ask \/ Done \/ Conceal \/ Reveal \/ Lose

Spec == Init /\ [][Next]_<<plain, view, asking>>
=============================================================================
