------------------------------ MODULE MCDiscovery ------------------------------
(***************************************************************************)
(* An instance of Discovery: a card with an M31 and no Waveshare module,   *)
(* whose outputs are fewer than the card can use and whose inputs are more.*)
(* The descriptor takes two reads.                                         *)
(***************************************************************************)
EXTENDS Discovery

Wired(w, o, i) ==
  [b \in Bank |-> CASE b = "waveshare" -> w [] b = "m31out" -> o [] b = "m31in" -> i]

MCLimit == Wired(1, 3, 1)
MCPlants == {Wired(0, 2, 2)}
================================================================================
