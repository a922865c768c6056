--------------------------- MODULE MCSemanticRun ----------------------------
(* SemanticRun for TLC: a document of two slices and a file that goes out  *)
(* whole and can be cut once.                                              *)
EXTENDS SemanticRun

CONSTANTS big, doc

MCCorpus == <<[file |-> big, from |-> 0, to |-> 1],
              [file |-> big, from |-> 1, to |-> 2],
              [file |-> doc, from |-> 0, to |-> 2]>>
=============================================================================
