------------------------------ MODULE MCGoldens -----------------------------
(***************************************************************************)
(* Goldens on three records, two of which have one slug between them.      *)
(***************************************************************************)
EXTENDS Goldens

CONSTANTS r1, r2, r3, i, j

MCCaseId == [x \in {r1, r2, r3} |-> IF x = r2 THEN j ELSE i]

MCShortlists == { << >>, <<r1>>, <<r2, r1>>, <<r1, r3>>, <<r3, r2, r1>> }

MCStanding == { << >>, <<j>> }
=============================================================================
