---------------------------- MODULE MCWindowTree ----------------------------
(* Three windows, and the labels of DigitGroup with ints of eleven bits.   *)
(* The two have no effect on each other: each is explored while the other  *)
(* is at rest.                                                             *)
EXTENDS WindowTree, DigitGroup, TLC

CONSTANTS w1, w2, w3

MCWindow == {w1, w2, w3}
MCLeast == -1024
Symmetry == Permutations(MCWindow)

MCInit == Init /\ LabelInit
MCNext == \/ asked = 0 /\ Next /\ UNCHANGED labelVars
          \/ Init /\ LabelNext /\ UNCHANGED vars

MCSpec == MCInit /\ [][MCNext]_<<vars, labelVars>>
=============================================================================
