---------------------------- MODULE MCAttributes ----------------------------
(* Small instances of Attributes for TLC.                                  *)
EXTENDS Attributes, TLC

CONSTANTS life, counter

MCFields == {life, counter}
MCOneField == {life}
MCLo == -3
MCValues == -1..1
MCAmounts == {1}
MCOne == {1}

Symmetry == Permutations({life, counter})
=============================================================================
