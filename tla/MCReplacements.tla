--------------------------- MODULE MCReplacements ---------------------------
(* Small instances of Replacements for TLC.                                *)
EXTENDS Replacements, TLC

CONSTANTS r1, r2, d1, plain, elsewhere

MCRegistrations == {r1, r2}
MCOneDriver == {d1}

\* plain: well formed, writes an attribute.  elsewhere: well formed, but its
\* destination is not an attribute.
MCOperands == {plain, elsewhere}
MCWellFormed == {plain, elsewhere}
MCAttributeDst == {plain}

\* The schedule does not depend on the operands.
MCOneOperand == {plain}

Symmetry == Permutations({r1, r2})
=============================================================================
