------------------------- MODULE MC_InflationLayer -------------------------
(***************************************************************************)
(* Model values for InflationLayer: a small map whose only lethal cells    *)
(* are the ones chosen, and the cost table computeCost produces for a      *)
(* robot whose inscribed radius is one cell.                               *)
(***************************************************************************)
EXTENDS InflationLayer_proofs

\* Master grids with one to three lethal cells drawn from a few cells,
\* and at most one unknown cell, everything else free.
MCGrids(cand, n, unknown) ==
  { [c \in Cells |-> IF c \in O THEN LETHAL_OBSTACLE
                     ELSE IF c \in U THEN NO_INFORMATION ELSE FREE_SPACE] :
      O \in {O \in SUBSET cand : Cardinality(O) \in 1 .. n},
      U \in {{}, {unknown}} }

\* Lethal cells that put some cell between two obstacles at nearly the
\* same distance.
MCCandidates ==
  {<<0, 0>>, <<1, 2>>, <<3, 3>>, <<2, 1>>, <<4, 0>>, <<0, 4>>, <<4, 4>>}

MCGridsPass == MCGrids(MCCandidates, 3, <<2, 3>>)

\* The whole map and a corner of it.
MCBoxes == {<<0, 0, SizeX, SizeY>>, <<SizeX - 1, SizeY - 1, SizeX, SizeY>>}

\* computeCost: lethal at the obstacle, inscribed within one cell, then an
\* exponential decay, strictly decreasing in the distance.
MCCostOfSq ==
  [d \in 0 .. MaxD2 |-> CASE d = 0 -> LETHAL_OBSTACLE
                          [] d = 1 -> INSCRIBED_INFLATED_OBSTACLE
                          [] OTHER -> 252 - 20 * d]

=============================================================================
