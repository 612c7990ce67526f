------------------------------ MODULE MCChain ------------------------------
(* Small instances of Chain for TLC.                                       *)
EXTENDS Chain, TLC

CONSTANTS f1, f2, card, other

MCTwoDrivers == {f1, f2}
MCOneDriver == {f1}
MCSubjects == {card, other}
MCOneSubject == {card}

MCAllBodies == {<< >>, <<"choose", "negate">>, <<"await", "chain">>, <<"plain">>}
MCQuestions == {<<"choose", "choose">>, <<"plain", "choose">>, <<"await", "choose">>}
MCNegatingBodies == {<<"plain", "negate">>}
MCCommittingBodies == {<<"plain", "commit">>}

MCAnyBudget == 0..2
MCEnough == {2, 3}
MCOneStep == {1}

Symmetry == Permutations({f1, f2}) \cup Permutations({card, other})
=============================================================================
