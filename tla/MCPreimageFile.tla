--------------------------- MODULE MCPreimageFile ---------------------------
(* Small instances of the file-backed preimage store: constants only.      *)
EXTENDS PreimageFile, TLC

CONSTANTS h1, h2, h3, i1, i2, i3, i4, c1, c2

Symmetry == Permutations({h1, h2, h3})
=============================================================================
