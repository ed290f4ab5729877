---------------------------- MODULE MCNetBuffers ----------------------------
(* Small instances of NetBuffers.  Descriptors are interchangeable, and so *)
(* are threads none of which releases a buffer twice.                      *)
EXTENDS NetBuffers, TLC

Symmetry == Permutations(Descs) \cup
            IF DoubleReleasers = {} THEN Permutations(Threads) ELSE {}
=============================================================================
