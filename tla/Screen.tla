-------------------------------- MODULE Screen ---------------------------------
(***************************************************************************)
(* What the display promises for the rounds it hears of: it shows only     *)
(* rounds it has heard of, a round once shown stays, and every round is    *)
(* shown in the end.                                                       *)
(***************************************************************************)
CONSTANT Rounds
VARIABLES known, shown

Init == known = {} /\ shown = {}

Learn == /\ known' \in SUBSET Rounds /\ known \subseteq known'
         /\ UNCHANGED shown

Show == /\ shown' \in SUBSET known /\ shown \subseteq shown'
        /\ UNCHANGED known

Next == Learn \/ Show

SafeSpec == Init /\ [][Next]_<<known, shown>>

EachShown == \A r \in Rounds : r \in known ~> r \in shown

Spec == SafeSpec /\ EachShown
================================================================================
