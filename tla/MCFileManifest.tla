--------------------------- MODULE MCFileManifest ---------------------------
(* FileManifest for TLC: one code file, one document, two contents, which  *)
(* nothing tells apart.                                                    *)
EXTENDS FileManifest, TLC

MCSymmetry == Permutations(Contents)
=============================================================================
