------------------------ MODULE InflationLayer_proofs ------------------------
(***************************************************************************)
(* Proofs about InflationLayer: updateCosts keeps its types, and whatever  *)
(* point it has reached, it has changed only cells within the inflation    *)
(* radius of a lethal cell of the window, each to the cost of its distance *)
(* to one of them, for every map size, radius, cost table and grid.        *)
(***************************************************************************)
EXTENDS InflationLayer, TLAPS

\* inflation_cells_ as the loop leaves it: a bin for every distance up to
\* the radius, each a sequence of <<cell, source>>.
BinsOK(b) == b \in [0 .. MaxD2 -> Seq(CellData)]

\* Every queued cell sits in the bin of its squared distance to its
\* source, and that source is one of the cells in S.
WellKeyed(b, S) ==
  \A d \in 0 .. MaxD2 : \A k \in 1 .. Len(b[d]) :
    /\ b[d][k][2] \in S
    /\ Dist2(b[d][k][1], b[d][k][2]) = d

\* Every cell updateCosts has not yet marked in seen_ still holds what the
\* lower layers wrote.
UnseenInv ==
  \A c \in Cells : ~seen[c] => master[c] = before[c]

\* The inductive strengthening of TypeOK and ChangedOnlyWithinRadius: what
\* the scan and enqueue put in inflation_cells_ is keyed by its distance to
\* a lethal cell of the window, and a cell is costed only when it is first
\* taken out of a bin.
IInv ==
  /\ TypeOK
  /\ WellKeyed(bins, sources)
  /\ UnseenInv
  /\ ChangedOnlyWithinRadius
  /\ phase = "idle" => bins = NoBins

-----------------------------------------------------------------------------
(***************************************************************************)
(* Lemmas about the operators.                                             *)
(***************************************************************************)

LEMMA AssumeFacts ==
  /\ SizeX \in Nat /\ SizeY \in Nat
  /\ MaxD2 \in Nat
  /\ CostOfSq \in [0 .. MaxD2 -> Costs]
  /\ Grids \subseteq [Cells -> Costs]
  /\ Boxes \subseteq Int \X Int \X Int \X Int
BY InflationAssumption DEF MaxD2

\* A squared distance between two cells is a natural number, and 0 from a
\* cell to itself.
LEMMA Dist2Nat ==
  ASSUME NEW c \in Int \X Int, NEW s \in Int \X Int
  PROVE  Dist2(c, s) \in Nat
<1>1. /\ (c[1] - s[1]) * (c[1] - s[1]) \in Nat
      /\ (c[2] - s[2]) * (c[2] - s[2]) \in Nat
  OBVIOUS
<1>. QED  BY <1>1 DEF Dist2

LEMMA Dist2Self ==
  ASSUME NEW c \in Int \X Int
  PROVE  Dist2(c, c) = 0
BY DEF Dist2

LEMMA CellsInt == Cells \subseteq Int \X Int
BY DEF Cells

\* NewCost keeps a cost a cost.
LEMMA NewCostType ==
  ASSUME NEW old \in Costs, NEW cost \in Costs
  PROVE  NewCost(old, cost) \in Costs
BY DEF NewCost, IntMax, Costs

\* Appending <<n, src>> to the bin of its distance keeps inflation_cells_
\* well typed and well keyed, when src is one of S.
LEMMA AppendInv ==
  ASSUME NEW b, BinsOK(b), NEW S \in SUBSET Cells, WellKeyed(b, S),
         NEW n \in Cells, NEW src \in S, Dist2(n, src) \in 0 .. MaxD2
  PROVE  LET b2 == [b EXCEPT ![Dist2(n, src)] = Append(@, <<n, src>>)]
         IN  BinsOK(b2) /\ WellKeyed(b2, S)
<1>. DEFINE d0 == Dist2(n, src)
            b2 == [b EXCEPT ![d0] = Append(b[d0], <<n, src>>)]
<1>1. <<n, src>> \in CellData
  BY DEF CellData
<1>2. BinsOK(b2)
  BY <1>1 DEF BinsOK
<1>3. WellKeyed(b2, S)
  <2> SUFFICES ASSUME NEW d \in 0 .. MaxD2, NEW k \in 1 .. Len(b2[d])
               PROVE  /\ b2[d][k][2] \in S
                      /\ Dist2(b2[d][k][1], b2[d][k][2]) = d
    BY DEF WellKeyed
  <2>1. CASE d # d0
    BY <2>1 DEF WellKeyed, BinsOK
  <2>2. CASE d = d0 /\ k <= Len(b[d0])
    <3>1. b2[d][k] = b[d][k]
      BY <2>2 DEF BinsOK
    <3>. QED  BY <3>1, <2>2 DEF WellKeyed
  <2>3. CASE d = d0 /\ k > Len(b[d0])
    <3>1. Len(b2[d]) = Len(b[d0]) + 1
      BY <2>3 DEF BinsOK
    <3>2. b2[d][k] = <<n, src>>
      BY <2>3, <3>1 DEF BinsOK
    <3>. QED  BY <3>2, <2>3
  <2>. QED  BY <2>1, <2>2, <2>3
<1>. QED  BY <1>2, <1>3

\* enqueue keeps inflation_cells_ well typed and well keyed, when the
\* source it is given is one of S.
LEMMA EnqueueInv ==
  ASSUME NEW b, BinsOK(b), NEW S \in SUBSET Cells, WellKeyed(b, S),
         NEW s \in [Cells -> BOOLEAN], NEW n \in Cells, NEW src \in S
  PROVE  /\ BinsOK(Enqueue(b, s, n, src))
         /\ WellKeyed(Enqueue(b, s, n, src), S)
<1>0. Dist2(n, src) \in Nat
  BY CellsInt, Dist2Nat
<1>1. CASE ~(~s[n] /\ Dist2(n, src) <= MaxD2)
  BY <1>1 DEF Enqueue
<1>2. CASE ~s[n] /\ Dist2(n, src) <= MaxD2
  <2>1. Dist2(n, src) \in 0 .. MaxD2
    BY <1>0, <1>2
  <2>. QED  BY <1>2, <2>1, AppendInv DEF Enqueue
<1>. QED  BY <1>1, <1>2

\* The four enqueue calls of the loop body together.
LEMMA EnqueueNeighboursInv ==
  ASSUME NEW b, BinsOK(b), NEW S \in SUBSET Cells, WellKeyed(b, S),
         NEW s \in [Cells -> BOOLEAN], NEW c \in Cells, NEW src \in S
  PROVE  /\ BinsOK(EnqueueNeighbours(b, s, c, src))
         /\ WellKeyed(EnqueueNeighbours(b, s, c, src), S)
<1>. DEFINE EnqueueIf(bb, n) == IF n \in Cells THEN Enqueue(bb, s, n, src) ELSE bb
<1>1. ASSUME NEW bb, BinsOK(bb), WellKeyed(bb, S), NEW n
      PROVE  BinsOK(EnqueueIf(bb, n)) /\ WellKeyed(EnqueueIf(bb, n), S)
  BY <1>1, EnqueueInv
<1>. DEFINE b1 == EnqueueIf(b, <<c[1] - 1, c[2]>>)
            b2 == EnqueueIf(b1, <<c[1], c[2] - 1>>)
            b3 == EnqueueIf(b2, <<c[1] + 1, c[2]>>)
            b4 == EnqueueIf(b3, <<c[1], c[2] + 1>>)
<1>2. BinsOK(b1) /\ WellKeyed(b1, S)
  BY <1>1
<1>3. BinsOK(b2) /\ WellKeyed(b2, S)
  BY <1>1, <1>2
<1>4. BinsOK(b3) /\ WellKeyed(b3, S)
  BY <1>1, <1>3
<1>5. BinsOK(b4) /\ WellKeyed(b4, S)
  BY <1>1, <1>4
<1>6. EnqueueNeighbours(b, s, c, src) = b4
  BY DEF EnqueueNeighbours
<1>. QED  BY <1>5, <1>6

\* A larger set of sources keeps the queue well keyed.
LEMMA WellKeyedMono ==
  ASSUME NEW b, NEW S, NEW T, S \subseteq T, WellKeyed(b, S)
  PROVE  WellKeyed(b, T)
BY DEF WellKeyed

-----------------------------------------------------------------------------
(***************************************************************************)
(* The strengthening is inductive.                                         *)
(***************************************************************************)

\* The empty queue is well typed and well keyed for any sources.
LEMMA NoBinsInv ==
  ASSUME NEW S
  PROVE  BinsOK(NoBins) /\ WellKeyed(NoBins, S)
BY AssumeFacts DEF BinsOK, WellKeyed, NoBins

LEMMA InitIInv == Init => IInv
<1> SUFFICES ASSUME Init PROVE IInv
  OBVIOUS
<1>1. TypeOK
  <2>1. master \in [Cells -> Costs] /\ before \in [Cells -> Costs]
    BY AssumeFacts DEF Init
  <2>2. bins \in [0 .. MaxD2 -> Seq(CellData)]
    BY NoBinsInv DEF Init, BinsOK
  <2>3. /\ win \in Nat \X Nat \X Int \X Int /\ win[3] <= SizeX
        /\ win[4] <= SizeY
    BY AssumeFacts DEF Init
  <2>. QED  BY <2>1, <2>2, <2>3, AssumeFacts DEF Init, TypeOK
<1>2. WellKeyed(bins, sources)
  BY NoBinsInv DEF Init
<1>. QED  BY <1>1, <1>2 DEF Init, IInv, UnseenInv, ChangedOnlyWithinRadius

\* The lower layers write the grid only between calls, when the queue is
\* empty.
LEMMA LowerLayersStep ==
  ASSUME IInv, NEW g \in Grids, LowerLayersUpdate(g)
  PROVE  IInv'
<1>1. g \in [Cells -> Costs]
  BY AssumeFacts
<1>2. bins = NoBins
  BY DEF IInv, LowerLayersUpdate
<1>3. WellKeyed(bins', sources')
  BY <1>2, NoBinsInv DEF LowerLayersUpdate
<1>4. TypeOK'
  BY <1>1 DEF IInv, TypeOK, LowerLayersUpdate
<1>. QED  BY <1>3, <1>4 DEF IInv, LowerLayersUpdate, UnseenInv,
                              ChangedOnlyWithinRadius

\* The grown and clamped window starts at the map's origin or inside it
\* and ends at its far edge or before.
LEMMA WindowType ==
  ASSUME NEW box \in Int \X Int \X Int \X Int
  PROVE  /\ Window(box) \in Nat \X Nat \X Int \X Int
         /\ Window(box)[3] <= SizeX /\ Window(box)[4] <= SizeY
<1>1. /\ IntMax(0, box[1] - CellInflationRadius) \in Nat
      /\ IntMax(0, box[2] - CellInflationRadius) \in Nat
  BY InflationAssumption DEF IntMax
<1>2. /\ IntMin(SizeX, box[3] + CellInflationRadius) \in Int
      /\ IntMin(SizeX, box[3] + CellInflationRadius) <= SizeX
      /\ IntMin(SizeY, box[4] + CellInflationRadius) \in Int
      /\ IntMin(SizeY, box[4] + CellInflationRadius) <= SizeY
  BY InflationAssumption DEF IntMin
<1>. QED  BY <1>1, <1>2 DEF Window

LEMMA StartStep ==
  ASSUME IInv, NEW box \in Boxes, StartUpdateCosts(box)
  PROVE  IInv'
<1>1. box \in Int \X Int \X Int \X Int
  BY AssumeFacts
<1>2. /\ win' \in Nat \X Nat \X Int \X Int
      /\ win'[3] <= SizeX /\ win'[4] <= SizeY
      /\ scan' \in Nat \X Nat
  <2>1. Window(box) \in Nat \X Nat \X Int \X Int
        /\ Window(box)[3] <= SizeX /\ Window(box)[4] <= SizeY
    BY <1>1, WindowType
  <2>2. <<Window(box)[1], Window(box)[2]>> \in Nat \X Nat
    BY <2>1
  <2>. QED  BY <2>1, <2>2 DEF StartUpdateCosts
<1>3. BinsOK(bins') /\ WellKeyed(bins', sources')
  BY NoBinsInv DEF StartUpdateCosts
<1>4. TypeOK'
  <2>1. master' \in [Cells -> Costs] /\ before' \in [Cells -> Costs]
    BY DEF IInv, TypeOK, StartUpdateCosts
  <2>2. seen' \in [Cells -> BOOLEAN]
    BY DEF StartUpdateCosts
  <2>3. /\ binKey' \in 0 .. MaxD2 /\ pos' \in Nat \ {0}
        /\ phase' \in {"idle", "scanning", "inflating"}
        /\ sources' \in SUBSET Cells
    BY AssumeFacts DEF StartUpdateCosts
  <2>. QED  BY <1>2, <1>3, <2>1, <2>2, <2>3 DEF TypeOK, BinsOK
<1>. QED  BY <1>3, <1>4 DEF IInv, StartUpdateCosts, UnseenInv,
                              ChangedOnlyWithinRadius

\* A lethal cell of the window goes into bin 0 as its own source.
LEMMA ScanCellStep ==
  ASSUME IInv, ScanCell
  PROVE  IInv'
<1>0. TypeOK /\ WellKeyed(bins, sources)
  BY DEF IInv
<1>1. scan \in Cells
  <2>0. /\ scan \in Nat \X Nat /\ win \in Nat \X Nat \X Int \X Int
        /\ win[3] <= SizeX /\ win[4] <= SizeY
        /\ scan[1] < win[3] /\ scan[2] < win[4]
    BY <1>0 DEF TypeOK, ScanCell
  <2>1. scan \in Nat \X Nat /\ scan[1] < SizeX /\ scan[2] < SizeY
    BY <2>0, AssumeFacts
  <2>2. scan[1] \in 0 .. SizeX - 1 /\ scan[2] \in 0 .. SizeY - 1
    BY <2>1, AssumeFacts
  <2>. QED  BY <2>1, <2>2 DEF Cells
<1>2. BinsOK(bins') /\ WellKeyed(bins', sources') /\ sources' \in SUBSET Cells
  <2>1. CASE master[scan] = LETHAL_OBSTACLE
    <3>1. WellKeyed(bins, sources \cup {scan})
      BY <1>0, WellKeyedMono
    <3>2. Dist2(scan, scan) = 0 /\ 0 \in 0 .. MaxD2
      BY <1>1, CellsInt, Dist2Self, AssumeFacts
    <3>3. BinsOK(bins)
      BY <1>0 DEF TypeOK, BinsOK
    <3>4. sources \cup {scan} \in SUBSET Cells
      BY <1>0, <1>1 DEF TypeOK
    <3>5. LET b2 == [bins EXCEPT ![Dist2(scan, scan)] = Append(@, <<scan, scan>>)]
          IN  BinsOK(b2) /\ WellKeyed(b2, sources \cup {scan})
      BY <1>1, <3>1, <3>2, <3>3, <3>4, AppendInv
    <3>. QED  BY <2>1, <3>2, <3>4, <3>5 DEF ScanCell
  <2>2. CASE master[scan] # LETHAL_OBSTACLE
    BY <2>2, <1>0 DEF ScanCell, TypeOK, BinsOK
  <2>. QED  BY <2>1, <2>2
<1>3. TypeOK'
  <2>1. scan' \in Nat \X Nat
    BY <1>0 DEF TypeOK, ScanCell
  <2>. QED  BY <1>0, <1>2, <2>1 DEF TypeOK, ScanCell, BinsOK
<1>4. ChangedOnlyWithinRadius'
  BY DEF IInv, ChangedOnlyWithinRadius, ScanCell
<1>. QED  BY <1>2, <1>3, <1>4 DEF IInv, ScanCell, UnseenInv

LEMMA ScanRestStep ==
  ASSUME IInv, ScanNextRow \/ EndScan
  PROVE  IInv'
<1>1. CASE ScanNextRow
  BY <1>1 DEF IInv, TypeOK, ScanNextRow, UnseenInv, ChangedOnlyWithinRadius
<1>2. CASE EndScan
  BY <1>2 DEF IInv, TypeOK, EndScan, UnseenInv, ChangedOnlyWithinRadius
<1>. QED  BY <1>1, <1>2

\* One iteration of the inner loop: a seen cell is skipped; an unseen one
\* is costed from the source it was queued with, which is a lethal cell
\* within the radius because the queue is well keyed, and its neighbours
\* are queued with that same source.
LEMMA ProcessCellStep ==
  ASSUME IInv, ProcessCell
  PROVE  IInv'
<1>0. /\ TypeOK /\ WellKeyed(bins, sources) /\ UnseenInv
      /\ ChangedOnlyWithinRadius
  BY DEF IInv
<1>. DEFINE e    == bins[binKey][pos]
            cell == e[1]
            src  == e[2]
            s2   == [seen EXCEPT ![cell] = TRUE]
<1>1. pos \in 1 .. Len(bins[binKey]) /\ binKey \in 0 .. MaxD2
  BY <1>0 DEF TypeOK, ProcessCell
<1>2. cell \in Cells /\ src \in Cells
  BY <1>0, <1>1 DEF TypeOK, CellData
<1>3. src \in sources /\ Dist2(cell, src) = binKey
  BY <1>0, <1>1 DEF WellKeyed
<1>4. /\ pos' = pos + 1
      /\ UNCHANGED <<binKey, win, scan, phase, before, sources>>
  BY DEF ProcessCell
<1>5. CASE seen[cell]
  <2>1. UNCHANGED <<seen, bins, master>>
    BY <1>5 DEF ProcessCell
  <2>2. TypeOK'
    BY <1>0, <1>4, <2>1 DEF TypeOK
  <2>. QED  BY <1>0, <1>4, <2>1, <2>2 DEF IInv, UnseenInv,
                                          ChangedOnlyWithinRadius
<1>6. CASE ~seen[cell]
  <2>1. /\ seen' = s2
        /\ master' = [master EXCEPT ![cell] =
                        NewCost(master[cell], CostOfSq[Dist2(cell, src)])]
        /\ bins' = EnqueueNeighbours(bins, s2, cell, src)
    BY <1>6 DEF ProcessCell
  <2>2. s2 \in [Cells -> BOOLEAN]
    BY <1>0, <1>2 DEF TypeOK
  <2>3. BinsOK(bins') /\ WellKeyed(bins', sources')
    BY <1>0, <1>2, <1>3, <1>4, <2>1, <2>2, EnqueueNeighboursInv
       DEF TypeOK, BinsOK
  <2>4. master[cell] = before[cell]
    BY <1>0, <1>2, <1>6 DEF UnseenInv
  <2>5. CostOfSq[Dist2(cell, src)] \in Costs /\ master[cell] \in Costs
    BY <1>0, <1>1, <1>2, <1>3, AssumeFacts DEF TypeOK
  <2>6. NewCost(master[cell], CostOfSq[Dist2(cell, src)]) \in Costs
    BY <2>5, NewCostType
  <2>7. master' \in [Cells -> Costs]
    BY <1>0, <2>1, <2>6 DEF TypeOK
  <2>8. TypeOK'
    <3>1. /\ binKey' \in 0 .. MaxD2 /\ pos' \in Nat \ {0}
          /\ win' \in Nat \X Nat \X Int \X Int
          /\ win'[3] <= SizeX /\ win'[4] <= SizeY
          /\ scan' \in Nat \X Nat
          /\ phase' \in {"idle", "scanning", "inflating"}
          /\ before' \in [Cells -> Costs] /\ sources' \in SUBSET Cells
      BY <1>0, <1>4 DEF TypeOK
    <3>2. seen' \in [Cells -> BOOLEAN] /\ bins' \in [0 .. MaxD2 -> Seq(CellData)]
      BY <2>1, <2>2, <2>3 DEF BinsOK
    <3>. QED  BY <3>1, <3>2, <2>7 DEF TypeOK
  <2>9. UnseenInv'
    <3> SUFFICES ASSUME NEW c \in Cells, ~seen'[c] PROVE master'[c] = before'[c]
      BY DEF UnseenInv
    <3>1. c # cell
      BY <2>1, <1>0, <1>2, Zenon DEF TypeOK
    <3>. QED  BY <3>1, <1>0, <1>4, <2>1 DEF UnseenInv
  <2>10. ChangedOnlyWithinRadius'
    <3> SUFFICES ASSUME NEW c \in Cells
                 PROVE  \/ master'[c] = before'[c]
                        \/ \E o \in sources' :
                             /\ Dist2(c, o) <= MaxD2
                             /\ master'[c] = NewCost(before'[c], CostOfSq[Dist2(c, o)])
      BY DEF ChangedOnlyWithinRadius
    <3>1. CASE c = cell
      <4>1. master'[c] = NewCost(before[c], CostOfSq[Dist2(c, src)])
        BY <3>1, <2>1, <2>4, <1>0, <1>2 DEF TypeOK
      <4>2. Dist2(c, src) <= MaxD2
        BY <3>1, <1>1, <1>3
      <4>. QED  BY <4>1, <4>2, <1>3, <1>4
    <3>2. CASE c # cell
      BY <3>2, <2>1, <1>0, <1>4 DEF ChangedOnlyWithinRadius
    <3>. QED  BY <3>1, <3>2
  <2>11. phase' # "idle"
    BY <1>4 DEF ProcessCell
  <2>. QED  BY <2>3, <2>8, <2>9, <2>10, <2>11 DEF IInv
<1>. QED  BY <1>5, <1>6

LEMMA BinStep ==
  ASSUME IInv, NextBin \/ FinishUpdateCosts
  PROVE  IInv'
<1>1. CASE NextBin
  <2>1. binKey' \in 0 .. MaxD2
    BY <1>1, AssumeFacts DEF IInv, TypeOK, NextBin
  <2>. QED  BY <1>1, <2>1 DEF IInv, TypeOK, NextBin, UnseenInv,
                                ChangedOnlyWithinRadius
<1>2. CASE FinishUpdateCosts
  <2>1. BinsOK(bins') /\ WellKeyed(bins', sources')
    BY <1>2, NoBinsInv DEF FinishUpdateCosts
  <2>2. binKey' \in 0 .. MaxD2 /\ pos' \in Nat \ {0}
    BY <1>2, AssumeFacts DEF FinishUpdateCosts
  <2>3. TypeOK'
    BY <1>2, <2>1, <2>2 DEF IInv, TypeOK, FinishUpdateCosts, BinsOK
  <2>. QED  BY <1>2, <2>1, <2>3 DEF IInv, FinishUpdateCosts, UnseenInv,
                                    ChangedOnlyWithinRadius
<1>. QED  BY <1>1, <1>2

LEMMA StepIInv ==
  ASSUME IInv, [Next]_vars
  PROVE  IInv'
<1>1. CASE \E g \in Grids : LowerLayersUpdate(g)
  BY <1>1, LowerLayersStep
<1>2. CASE \E box \in Boxes : StartUpdateCosts(box)
  BY <1>2, StartStep
<1>3. CASE ScanCell
  BY <1>3, ScanCellStep
<1>4. CASE ScanNextRow \/ EndScan
  BY <1>4, ScanRestStep
<1>5. CASE ProcessCell
  BY <1>5, ProcessCellStep
<1>6. CASE NextBin \/ FinishUpdateCosts
  BY <1>6, BinStep
<1>7. CASE UNCHANGED vars
  BY <1>7 DEF IInv, vars, TypeOK, WellKeyed, UnseenInv,
              ChangedOnlyWithinRadius
<1>. QED  BY <1>1, <1>2, <1>3, <1>4, <1>5, <1>6, <1>7 DEF Next

-----------------------------------------------------------------------------
(***************************************************************************)
(* Theorems.                                                               *)
(***************************************************************************)

\* The strengthening holds at every step of updateCosts (lines 153-260) and
\* of the lower layers between calls.
THEOREM IInvHolds == Spec => []IInv
<1>1. Init => IInv
  BY InitIInv
<1>2. IInv /\ [Next]_vars => IInv'
  BY StepIInv
<1>. QED  BY <1>1, <1>2, PTL DEF Spec

\* updateCosts and enqueue (lines 153-290) keep the master grid a grid of
\* costs, seen_ a flag per cell, and inflation_cells_ a bin of cells for
\* every distance up to the radius, whatever the map size, radius, cost
\* table, grids and update windows.
THEOREM InflationTypeCorrect == Spec => []TypeOK
<1>1. IInv => TypeOK
  BY DEF IInv
<1>. QED  BY <1>1, IInvHolds, PTL

\* At every point of updateCosts and between calls, every cell whose cost
\* differs from what the lower layers wrote lies within the inflation
\* radius of a lethal cell of the window and holds the cost of its
\* distance to one of them (lines 224-241 and 271-290).
THEOREM InflationSound == Spec => []ChangedOnlyWithinRadius
<1>1. IInv => ChangedOnlyWithinRadius
  BY DEF IInv
<1>. QED  BY <1>1, IInvHolds, PTL

=============================================================================
