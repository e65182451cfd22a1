--------------------------- MODULE MCCardMirror ---------------------------
(* Instances of CardMirror for TLC: two items name the same printing.      *)
EXTENDS CardMirror, TLC

CONSTANTS card, low, high, item1, item2, api1, api2

MCWants == item1 :> card @@ item2 :> card
Symmetry ==
    Permutations({low, high}) \cup Permutations({api1, api2})
        \cup Permutations({item1, item2})
=============================================================================
