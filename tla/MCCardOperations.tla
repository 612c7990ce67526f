-------------------------- MODULE MCCardOperations --------------------------
(* A small instance of CardOperations for TLC.                             *)
EXTENDS CardOperations, TLC

CONSTANTS p1, p2, monster, weapon, token, field

MCCards == {monster, weapon, token}
MCTokens == {token}
MCPlayers == {p1, p2}
MCOperated == {monster, token}
MCEquipment == {weapon}
MCChanges == {"FACE_DOWN_DEFENSE", "TOGGLE"}
MCOneZone == {field}

\* A token starts without a position of its own.
MCPrototype ==
  [place |-> Nowhere, position |-> NotCanonical, face_up |-> FALSE, defense_position |-> FALSE,
   controller |-> none, owner |-> none, equip_target |-> none]

Symmetry == Permutations({p1, p2})
=============================================================================
