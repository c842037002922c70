--------------------------- MODULE InflationLayer ---------------------------
(***************************************************************************)
(* nav2_costmap_2d::InflationLayer::updateCosts and enqueue               *)
(* (plugins/inflation_layer.cpp), which spread cost outwards from every    *)
(* lethal cell in bins of increasing distance, each cell carrying the      *)
(* obstacle it was reached from.                                           *)
(*                                                                         *)
(* Cells are <<x, y>> pairs; the map index x + y * size_x is left out.     *)
(* Distances are compared as squared cell distances: distanceLookup is     *)
(* hypot(dx, dy), which orders cells as dx^2 + dy^2 does, and              *)
(* hypot(dx, dy) > r holds exactly when dx^2 + dy^2 > r^2.  costLookup is  *)
(* the table CostOfSq, fixed by computeCaches from computeCost, whose      *)
(* body lives in a header that is not part of the sources.                *)
(***************************************************************************)
EXTENDS Integers, Sequences, FiniteSets

CONSTANTS
  SizeX, SizeY,          \* master_grid.getSizeInCellsX/Y()
  CellInflationRadius,   \* cell_inflation_radius_
  InflateUnknown,        \* inflate_unknown_
  CostOfSq,              \* cached_costs_ by squared distance
  Grids,                 \* the master grids the lower layers may leave
  Boxes                  \* the update windows <<min_i, min_j, max_i, max_j>>

FREE_SPACE == 0
INSCRIBED_INFLATED_OBSTACLE == 253
LETHAL_OBSTACLE == 254
NO_INFORMATION == 255
Costs == 0 .. 255

Cells == (0 .. SizeX - 1) \X (0 .. SizeY - 1)
MaxD2 == CellInflationRadius * CellInflationRadius
Dist2(c, s) == (c[1] - s[1]) * (c[1] - s[1]) + (c[2] - s[2]) * (c[2] - s[2])

ASSUME InflationAssumption ==
  /\ SizeX \in Nat \ {0} /\ SizeY \in Nat \ {0}
  /\ CellInflationRadius \in Nat \ {0}
  /\ InflateUnknown \in BOOLEAN
  /\ CostOfSq \in [0 .. MaxD2 -> Costs]
  /\ Grids \subseteq [Cells -> Costs]
  /\ Boxes \subseteq Int \X Int \X Int \X Int

VARIABLES
  master,       \* master_grid's char map
  seen,         \* seen_
  bins,         \* inflation_cells_: squared distance -> CellData sequence
  binKey,       \* the key the outer loop's iterator is at
  pos,          \* the index i of the inner loop
  win,          \* <<min_i, min_j, max_i, max_j>> once grown and clamped
  scan,         \* <<i, j>> of the loop over the window that seeds bin 0
  phase,        \* "idle" between calls, "scanning" and "inflating" inside
  before,       \* ghost: the master grid as updateCosts found it
  sources       \* ghost: the lethal cells updateCosts started from

vars == <<master, seen, bins, binKey, pos, win, scan, phase,
          before, sources>>

NoBins == [d \in 0 .. MaxD2 |-> <<>>]
CellData == Cells \X Cells   \* <<cell, source>>

TypeOK ==
  /\ master \in [Cells -> Costs]
  /\ seen \in [Cells -> BOOLEAN]
  /\ bins \in [0 .. MaxD2 -> Seq(CellData)]
  /\ binKey \in 0 .. MaxD2
  /\ pos \in Nat \ {0}
  /\ win \in Nat \X Nat \X Int \X Int /\ win[3] <= SizeX /\ win[4] <= SizeY
  /\ scan \in Nat \X Nat
  /\ phase \in {"idle", "scanning", "inflating"}
  /\ before \in [Cells -> Costs]
  /\ sources \in SUBSET Cells

-----------------------------------------------------------------------------
(***************************************************************************)
(* Helpers of updateCosts.                                                 *)
(***************************************************************************)

IntMax(a, b) == IF a >= b THEN a ELSE b   \* std::max
IntMin(a, b) == IF a <= b THEN a ELSE b   \* std::min

\* The box grown by cell_inflation_radius_ and clamped to the map
\* (lines 178-190): cells up to that far outside can change costs inside.
Window(box) ==
  <<IntMax(0, box[1] - CellInflationRadius),
    IntMax(0, box[2] - CellInflationRadius),
    IntMin(SizeX, box[3] + CellInflationRadius),
    IntMin(SizeY, box[4] + CellInflationRadius)>>

\* enqueue without the seen_ test (mutant).
EnqueueSeenToo(b, s, n, src) ==
  IF Dist2(n, src) <= MaxD2
    THEN [b EXCEPT ![Dist2(n, src)] = Append(@, <<n, src>>)]
    ELSE b

\* enqueue dropping cells exactly at the radius (mutant).
EnqueueStrict(b, s, n, src) ==
  IF ~s[n] /\ Dist2(n, src) < MaxD2
    THEN [b EXCEPT ![Dist2(n, src)] = Append(@, <<n, src>>)]
    ELSE b

\* enqueue (lines 271-290): an unseen cell within the radius of the source
\* is appended to the bin of its distance.
Enqueue(b, s, n, src) ==
  IF ~s[n] /\ Dist2(n, src) <= MaxD2
    THEN [b EXCEPT ![Dist2(n, src)] = Append(@, <<n, src>>)]
    ELSE b

\* The neighbours enqueued with the current cell as their source instead
\* of the cell's obstacle (mutant).
EnqueueNeighboursFromCell(b, s, c, src) ==
  LET EnqueueIf(bb, n) == IF n \in Cells THEN Enqueue(bb, s, n, c) ELSE bb
  IN  EnqueueIf(EnqueueIf(EnqueueIf(EnqueueIf(b,
        <<c[1] - 1, c[2]>>), <<c[1], c[2] - 1>>),
        <<c[1] + 1, c[2]>>), <<c[1], c[2] + 1>>)

\* The four calls of enqueue in the loop body, in its order: left, down,
\* right, up, each only when that neighbour is on the map (lines 243-255).
EnqueueNeighbours(b, s, c, src) ==
  LET EnqueueIf(bb, n) == IF n \in Cells THEN Enqueue(bb, s, n, src) ELSE bb
  IN  EnqueueIf(EnqueueIf(EnqueueIf(EnqueueIf(b,
        <<c[1] - 1, c[2]>>), <<c[1], c[2] - 1>>),
        <<c[1] + 1, c[2]>>), <<c[1], c[2] + 1>>)

\* The new cost of a cell (lines 232-241): an unknown cell takes the
\* inflated cost only above a threshold, any other keeps the larger.
NewCost(old, cost) ==
  IF old = NO_INFORMATION /\ IF InflateUnknown THEN cost > FREE_SPACE
                                               ELSE cost >= INSCRIBED_INFLATED_OBSTACLE
    THEN cost
    ELSE IntMax(old, cost)

-----------------------------------------------------------------------------
(***************************************************************************)
(* Actions.                                                                *)
(***************************************************************************)

\* onInitialize and matchSize (lines 75-101): seen_ all false and no
\* cells queued.  The master grid is whatever the lower layers wrote.
Init ==
  /\ master \in Grids
  /\ seen = [c \in Cells |-> FALSE]
  /\ bins = NoBins
  /\ binKey = 0
  /\ pos = 1
  /\ win = <<0, 0, 0, 0>>
  /\ scan = <<0, 0>>
  /\ phase = "idle"
  /\ before = master
  /\ sources = {}

\* The layered costmap resets the master grid and lets the layers below
\* this one write it before calling updateCosts again.
LowerLayersUpdate(g) ==
  /\ phase = "idle"
  /\ master' = g
  /\ before' = g
  /\ sources' = {}
  /\ UNCHANGED <<seen, bins, binKey, pos, win, scan, phase>>

\* updateCosts up to its scan of the window (lines 153-196): seen_
\* cleared, the window grown and clamped.  enabled_ is true and
\* cell_inflation_radius_ is not 0, so the early return of line 159 is not
\* taken; inflation_cells_ is empty, as line 164 asserts.
StartUpdateCosts(box) ==
  /\ phase = "idle"
  /\ phase' = "scanning"
  /\ seen' = [c \in Cells |-> FALSE]
  /\ win' = Window(box)
  /\ scan' = <<Window(box)[1], Window(box)[2]>>
  /\ bins' = NoBins
  /\ binKey' = 0
  /\ pos' = 1
  /\ before' = master
  /\ sources' = {}
  /\ UNCHANGED master

\* One iteration of the inner scan loop (lines 198-206): a lethal cell
\* goes into bin 0 as its own source.
ScanCell ==
  /\ phase = "scanning"
  /\ scan[2] < win[4]
  /\ scan[1] < win[3]
  /\ IF master[scan] = LETHAL_OBSTACLE
       THEN /\ bins' = [bins EXCEPT ![0] = Append(@, <<scan, scan>>)]
            /\ sources' = sources \cup {scan}
       ELSE UNCHANGED <<bins, sources>>
  /\ scan' = <<scan[1] + 1, scan[2]>>
  /\ UNCHANGED <<master, seen, binKey, pos, win, phase, before>>

\* The end of a row (lines 199-200): j moves on and i starts again.
ScanNextRow ==
  /\ phase = "scanning"
  /\ scan[2] < win[4]
  /\ scan[1] >= win[3]
  /\ scan' = <<win[1], scan[2] + 1>>
  /\ UNCHANGED <<master, seen, bins, binKey, pos, win, phase, before,
                 sources>>

\* The scan is done and the outer loop over the bins begins (lines 199
\* and 212-213).
EndScan ==
  /\ phase = "scanning"
  /\ scan[2] >= win[4]
  /\ phase' = "inflating"
  /\ UNCHANGED <<master, seen, bins, binKey, pos, win, scan, before,
                 sources>>

\* One iteration of the inner loop (lines 214-256): a seen cell is
\* skipped; otherwise it is marked, given the cost of its distance to its
\* source, and its neighbours are enqueued.
ProcessCell ==
  /\ phase = "inflating"
  /\ pos <= Len(bins[binKey])
  /\ LET cell == bins[binKey][pos][1]
         src  == bins[binKey][pos][2]
         s2   == [seen EXCEPT ![cell] = TRUE]
     IN  IF seen[cell]
           THEN UNCHANGED <<seen, bins, master>>
           ELSE /\ seen' = s2
                /\ master' = [master EXCEPT ![cell] =
                                NewCost(@, CostOfSq[Dist2(cell, src)])]
                /\ bins' = EnqueueNeighbours(bins, s2, cell, src)
  /\ pos' = pos + 1
  /\ UNCHANGED <<binKey, win, scan, phase, before, sources>>

\* ++bin without the end test (mutant).
NextBinPastEnd ==
  /\ phase = "inflating"
  /\ pos > Len(bins[binKey])
  /\ binKey' = binKey + 1
  /\ pos' = 1
  /\ UNCHANGED <<master, seen, bins, win, scan, phase, before, sources>>

\* ++bin (line 213): the iterator moves to the next key.  A bin created
\* at a key it has passed is never visited.
NextBin ==
  /\ phase = "inflating"
  /\ pos > Len(bins[binKey])
  /\ binKey < MaxD2
  /\ binKey' = binKey + 1
  /\ pos' = 1
  /\ UNCHANGED <<master, seen, bins, win, scan, phase, before, sources>>

\* The loop is done; inflation_cells_ is cleared (line 259).
FinishUpdateCosts ==
  /\ phase = "inflating"
  /\ pos > Len(bins[binKey])
  /\ binKey = MaxD2
  /\ phase' = "idle"
  /\ bins' = NoBins
  /\ binKey' = 0
  /\ pos' = 1
  /\ UNCHANGED <<master, seen, win, scan, before, sources>>

Next ==
  \/ \E g \in Grids : LowerLayersUpdate(g)
  \/ \E box \in Boxes : StartUpdateCosts(box)
  \/ ScanCell
  \/ ScanNextRow
  \/ EndScan
  \/ ProcessCell
  \/ NextBin
  \/ FinishUpdateCosts

Spec == Init /\ [][Next]_vars

-----------------------------------------------------------------------------
(***************************************************************************)
(* Properties.                                                             *)
(***************************************************************************)

\* The squared distance from c to the nearest lethal cell updateCosts
\* started from, and whether that cell is within the inflation radius.
NearestD2(c) ==
  CHOOSE m \in {Dist2(c, o) : o \in sources} :
    \A o \in sources : m <= Dist2(c, o)
InRange(c) == sources # {} /\ NearestD2(c) <= MaxD2

\* When updateCosts returns, every cell within the inflation radius of a
\* lethal cell of the window has been reached and holds the cost of its
\* distance to one such cell (combined with its old cost as lines 235-241
\* do), and every cell farther out is untouched.  The propagation goes only
\* through cells no earlier source claimed, so a cell could be cut off
\* from every source behind a ring of cells claimed by farther ones.
InflationCoversRadius ==
  phase = "idle" =>
    \A c \in Cells :
      IF InRange(c)
        THEN \E o \in sources :
               /\ Dist2(c, o) <= MaxD2
               /\ master[c] = NewCost(before[c], CostOfSq[Dist2(c, o)])
        ELSE master[c] = before[c]

\* At every point of updateCosts and between calls, a cell whose cost
\* differs from what the lower layers wrote lies within the inflation
\* radius of a lethal cell the scan found, and holds the cost of its
\* distance to one such cell combined with its old cost (lines 224-241 and
\* 271-290): the wave never costs a cell from beyond the radius, nor from a
\* cell that is not an obstacle, nor twice.
ChangedOnlyWithinRadius ==
  \A c \in Cells :
    \/ master[c] = before[c]
    \/ \E o \in sources :
         /\ Dist2(c, o) <= MaxD2
         /\ master[c] = NewCost(before[c], CostOfSq[Dist2(c, o)])

\* The loop body never appends a cell to a bin the outer iterator has
\* already passed (lines 209-211: new cells "can overtake previously
\* inserted but farther away cells", never earlier ones); such a cell would
\* be dropped without being visited.
NothingQueuedBehind ==
  [][ProcessCell => \A d \in 0 .. MaxD2 : d < binKey => bins'[d] = bins[d]]_vars

\* The stronger claim of the comment at lines 192-193: the cost of every
\* cell within the radius is that of its distance to the NEAREST lethal
\* cell of the window.
InflationUsesNearestObstacle ==
  phase = "idle" =>
    \A c \in Cells :
      master[c] = IF InRange(c)
                    THEN NewCost(before[c], CostOfSq[NearestD2(c)])
                    ELSE before[c]

=============================================================================
