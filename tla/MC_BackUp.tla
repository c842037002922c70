------------------------------ MODULE MC_BackUp ------------------------------
(* BackUp on a line of cells -6 .. 6 around a start at 0: goals of 4 units *)
(* backwards and 3 forwards (and 0), up to two obstacles, and a simulation *)
(* of three cycles (poses x, x+s, x+3s).                                    *)
EXTENDS BackUp_proofs, FiniteSets

MCCommands == {-4, 0, 3}
MCFacingsBack == {-1}
MCCells == (-5 .. 5) \ {0}
MCObstacleMaps == {o \in SUBSET MCCells : Cardinality(o) <= 2}
============================================================================
