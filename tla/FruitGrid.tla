------------------------------ MODULE FruitGrid ------------------------------
(***************************************************************************)
(* Where the fruits and the basket may stand: config/transport_layout.json *)
(* and config/grids/fruit_grid.json as transport_scene.py and fruit_grid.py*)
(* validate and read them.  Lengths are in millimetres; a position is      *)
(* <<x, y>>, with y > 0 on the left.                                       *)
(***************************************************************************)
EXTENDS Integers, Sequences, FiniteSets, SequencesExt

Fruits == 1 .. 4
Slots == 0 .. 3

\* itertools.permutations(FRUITS), in its order.
Before(s, t) == \E i \in 1 .. 4 : s[i] < t[i] /\ \A j \in 1 .. i - 1 : s[j] = t[j]
Permuted == [n \in 1 .. 24 |->
  CHOOSE s \in SetToSeqs(Fruits) :
    Cardinality({t \in SetToSeqs(Fruits) : Before(t, s)}) = n - 1]

SlotIn(order, fruit) == (CHOOSE i \in 1 .. 4 : order[i] = fruit) - 1

Abs(n) == IF n < 0 THEN -n ELSE n
Clip(n, lo, hi) == IF n < lo THEN lo ELSE IF n > hi THEN hi ELSE n
Apart(p, q, mm) == (p[1] - q[1]) * (p[1] - q[1]) + (p[2] - q[2]) * (p[2] - q[2]) >= mm * mm

ReachX == <<440, 560>>
ReachY == <<290, 340>>
TableX == <<400, 900>>
TableY == <<-500, 500>>
CrateHalf == <<90, 150>>
MinTableSeparation == 75
MinCrateSlotSeparation == 70

InReach(p) ==
  /\ ReachX[1] <= p[1] /\ p[1] <= ReachX[2]
  /\ ReachY[1] <= Abs(p[2]) /\ Abs(p[2]) <= ReachY[2]

\* The two files.
GridPositions ==
  [left  |-> <<<<460, 305>>, <<550, 305>>, <<460, 325>>, <<550, 325>>>>,
   right |-> <<<<460, -305>>, <<550, -305>>, <<460, -325>>, <<550, -325>>>>]
SlotPairs == <<<<1, 2>>, <<3, 4>>, <<1, 4>>, <<2, 3>>>>
CrateSlots == <<<<-38, -70>>, <<38, 70>>, <<-38, 70>>, <<38, -70>>>>
CrateXY == <<520, 0>>
ObjectXY == <<<<460, -310>>, <<460, 310>>, <<550, -310>>, <<550, 310>>>>

\* validate_fruit_grid_config
GridIsValid ==
  /\ \A i \in 1 .. 4 :
       /\ InReach(GridPositions.left[i]) /\ GridPositions.left[i][2] > 0
       /\ InReach(GridPositions.right[i]) /\ GridPositions.right[i][2] < 0
       /\ Abs(CrateSlots[i][1]) <= 45 /\ Abs(CrateSlots[i][2]) <= 80
  /\ \A pair \in ToSet(SlotPairs), side \in {"left", "right"} :
       /\ pair[1] # pair[2]
       /\ Apart(GridPositions[side][pair[1]], GridPositions[side][pair[2]], MinTableSeparation)
  /\ \A i, j \in 1 .. 4 : i < j => Apart(CrateSlots[i], CrateSlots[j], MinCrateSlotSeparation)

CrateOnTable(p) ==
  /\ TableX[1] <= p[1] - CrateHalf[1] /\ p[1] + CrateHalf[1] <= TableX[2]
  /\ TableY[1] <= p[2] - CrateHalf[2] /\ p[2] + CrateHalf[2] <= TableY[2]

CrateInReach(p) == ReachX[1] <= p[1] /\ p[1] <= ReachX[2] /\ Abs(p[2]) <= 50

\* validate_layout_config, as far as the table goes.
LayoutIsValid ==
  /\ CrateInReach(CrateXY)
  /\ CrateOnTable(CrateXY)
  /\ \A f \in Fruits : InReach(ObjectXY[f])

LayoutCount == Len(SlotPairs) * Len(SlotPairs)

\* Two slots on the left, then two on the right.
LayoutPositions(layout) ==
  LET left  == SlotPairs[(layout \div Len(SlotPairs)) + 1]
      right == SlotPairs[(layout % Len(SlotPairs)) + 1]
  IN  [s \in Slots |-> IF s < 2 THEN GridPositions.left[left[s + 1]]
                       ELSE GridPositions.right[right[s - 1]]]

TablePlacements(layout, order) ==
  [f \in Fruits |-> LayoutPositions(layout)[SlotIn(order, f)]]
=============================================================================
