----------------------------- MODULE MCFullText -----------------------------
(* Small instances of FullTextIndex.                                        *)
EXTENDS FullTextIndex
CONSTANTS r1, r2, r3, a, b
=============================================================================
