------------------------------ MODULE Schedules ------------------------------
(***************************************************************************)
(* The plans of the three collectors: which episodes there are, and which  *)
(* scene each gets.                                                        *)
(*                                                                         *)
(* What an episode is does not depend on the seeds of the schedule: it is  *)
(* written as operators, evaluated at the sizes of the code.  A shuffle is *)
(* any order, and what the code does along it, unit by unit, is a state    *)
(* machine: _assign_scenes of the atomic collector at smaller sizes.       *)
(***************************************************************************)
EXTENDS FruitGrid

CONSTANTS
  Sizes,      \* how many episodes of each family the raw schedule asks for
  NumLayouts  \* layout_count of the fruit grid

VARIABLES
  size,    \* the member of Sizes the schedule is built for
  assign   \* _assign_scenes: where it is, its counters, scenes and the plan

scheduleVars == <<size, assign>>

SplitNames == <<"train", "validation", "test">>
AllSplits == ToSet(SplitNames)

Total(f) == FoldFunction(+, 0, f)
CountOf(S, P(_)) == Cardinality({x \in S : P(x)})
Even(f, slack) == \A i, j \in DOMAIN f : f[i] - f[j] <= slack

-----------------------------------------------------------------------------
(* collect_randomized_pick_place_dataset.build_schedule *)

BalancedCounts(total, buckets, phase) ==
  [b \in 0 .. buckets - 1 |->
     total \div buckets + (IF ((b - phase) % buckets) < (total % buckets) THEN 1 ELSE 0)]

\* Test takes what validation leaves of 25 for each slot.
SlotCounts(split, fruit) ==
  LET validation == BalancedCounts(50, 4, fruit - 1)
  IN  CASE split = "train"      -> [s \in Slots |-> 100]
        [] split = "validation" -> validation
        [] split = "test"       -> [s \in Slots |-> 25 - validation[s]]

TargetCount == [train |-> 400, validation |-> 50, test |-> 50]
SplitTotal == [train |-> 1600, validation |-> 200, test |-> 200]

PromptCounts(split, fruit) ==
  LET index == CHOOSE i \in DOMAIN SplitNames : SplitNames[i] = split
  IN  BalancedCounts(TargetCount[split], 3, fruit + index - 2)

\* The layouts are dealt by plan index, whatever the shuffle has put there.
LayoutOf(plan) == plan % 16

\* validate_schedule: it does not depend on the shuffles.
RandomizedIsValid ==
  LET taken(f, s) == Total([sp \in AllSplits |-> SlotCounts(sp, f)[s]])
      ofSide(S) == Total([x \in Fruits \X S |-> taken(x[1], x[2])])
  IN  /\ \A sp \in AllSplits, f \in Fruits :
           /\ Total(SlotCounts(sp, f)) = TargetCount[sp]
           /\ Total(PromptCounts(sp, f)) = TargetCount[sp]
           /\ Even(PromptCounts(sp, f), 1)
      /\ \A sp \in AllSplits : 4 * TargetCount[sp] = SplitTotal[sp]
      /\ \A f \in Fruits, s \in Slots : taken(f, s) = 125
      /\ ofSide({0, 1}) = ofSide({2, 3})
      /\ \A l \in 0 .. 15 : CountOf(0 .. 1999, LAMBDA p : LayoutOf(p) = l) = 125

-----------------------------------------------------------------------------
(* collect_transport_dataset.build_schedule *)

SplitEven(total, buckets) ==
  [b \in 0 .. buckets - 1 |->
     total \div buckets + (IF b < (total % buckets) THEN 1 ELSE 0)]

\* What is left of full cycles of the permutations goes by rotations, each group
\* of four turned further than the last and every other one reversed.
Rotation(i, phase) ==
  LET group == i \div 4
  IN  [k \in 1 .. 4 |->
         LET at == ((k - 1 + (i % 4) + phase + group) % 4) + 1
         IN  IF group % 2 = 1 THEN 5 - at ELSE at]

PrefixOrders(total, length, phase) ==
  [i \in 1 .. total |->
     SubSeq(IF i <= 24 * (total \div 24)
            THEN Permuted[((i - 1) % 24) + 1]
            ELSE Rotation((i - 1) % 24, phase), 1, length)]

Families == <<"pack_only", "lift_only", "pack_and_lift">>

\* The orders of a family and a count, of a plan of so many episodes.
OrdersOf(family, count, total) ==
  LET budget == SplitEven(total, 3)[family - 1]
      lift == Families[family] = "lift_only"
      index == IF lift THEN count ELSE count - 1
  IN  PrefixOrders(SplitEven(budget, IF lift THEN 5 ELSE 4)[index], count,
                   family - 1 + index)

\* How often each fruit is k-th.
KthIs(orders, k) == [f \in Fruits |-> CountOf(DOMAIN orders, LAMBDA i : orders[i][k] = f)]

\* Layouts and slot orders are dealt in turn, whatever the shuffles do with them.
OrderOf(plan) == Permuted[(plan % 24) + 1]

\* "nearly uniform ordered fruit prefixes; exact for the 1,200 plan", whose layouts and
\* slots are used equally often.
TransportIsBalanced ==
  /\ \A l \in 0 .. 15 : CountOf(0 .. 1199, LAMBDA p : LayoutOf(p) = l) = 75
  /\ \A k \in 1 .. 4 : Even(KthIs([p \in 0 .. 1199 |-> OrderOf(p)], k), 0)
  /\ \A family \in 1 .. 3, count \in 1 .. 4 :
       LET orders == OrdersOf(family, count, 1200)
           times == [p \in {SubSeq(Permuted[i], 1, count) : i \in 1 .. 24} |->
                       CountOf(DOMAIN orders, LAMBDA i : orders[i] = p)]
       IN  /\ \A k \in 1 .. count : Even(KthIs(orders, k), 0)
           /\ Even(times, 1)
           /\ \A total \in 1 .. 30 : \A k \in 1 .. count :
                Even(KthIs(PrefixOrders(total, count, family), k), 1)

-----------------------------------------------------------------------------
(* collect_atomic_transport_dataset._build_raw_schedule *)

\* A specification before it has a scene; unit is what gets one scene.
Blank(family, target, preloaded, split, unit, step) ==
  [family |-> family, target |-> target, preloaded |-> preloaded, split |-> split,
   unit |-> unit, step |-> step]

NoTarget == 0

PairOf(n) ==
  LET cycle == <<<<1, 2>>, <<3, 4>>, <<1, 3>>, <<2, 4>>, <<1, 4>>, <<2, 3>>>>
      pair == cycle[(n % 6) + 1]
  IN  IF n % 2 = 0 THEN pair ELSE Reverse(pair)

TripleOf(n) ==
  LET three == SelectSeq(<<1, 2, 3, 4>>, LAMBDA f : f # (n % 4) + 1)
  IN  [k \in 1 .. 3 |-> three[((k - 1 + n) % 3) + 1]]

\* _unit_key: the sequence group of a linked episode.
UnitOf(split, kind, n) == <<kind, split, n>>

\* A plausible bug: the step's own fruit is in the basket too.
LinkedWithItself(split, kind, n, targets) ==
  {Blank("linked_atomic", targets[k], SubSeq(targets, 1, k), split,
         UnitOf(split, kind, n), k - 1) : k \in DOMAIN targets}

Linked(split, kind, n, targets) ==
  {Blank("linked_atomic", targets[k], SubSeq(targets, 1, k - 1), split,
         UnitOf(split, kind, n), k - 1) : k \in DOMAIN targets}

Alone(family, target, preloaded, split, n) ==
  Blank(family, target, preloaded, split, <<family, split, n, target>>, 0)

\* The permutations of the other fruits, in turn.
PreloadedOf(target, n, count) ==
  LET orders == SelectSeq(Permuted, LAMBDA p : p[1] = target)
  IN  SubSeq(orders[(n % 6) + 1], 2, count + 1)

\* The orders of each load of the basket are dealt to the splits in turn.
LiftOf(split, sz) ==
  LET index == CHOOSE i \in 1 .. 3 : SplitNames[i] = split
  IN  UNION {LET before(k) == Total([i \in 1 .. k |-> sz.lift[c + 1][i]])
                 orders == PrefixOrders(before(3), c, c)
             IN  {Alone("lift_basket", NoTarget, orders[n], split, <<c, n>>) :
                    n \in before(index - 1) + 1 .. before(index)} : c \in 0 .. 4}

RawOf(sp, sz) ==
  {Alone("clean_single", f, << >>, sp, n) : f \in Fruits, n \in 1 .. sz.clean[sp]}
  \cup UNION {Linked(sp, "pair", n, PairOf(n)) : n \in 0 .. sz.pairs[sp] - 1}
  \cup UNION {Linked(sp, "triple", n, TripleOf(n)) : n \in 0 .. sz.triples[sp] - 1}
  \cup {Alone("preloaded_single", f, PreloadedOf(f, n, c), sp, <<c, n>>) :
          f \in Fruits, c \in 1 .. 3, n \in 0 .. sz.preloaded[sp] \div 3 - 1}
  \cup {Alone("recovery", f, << >>, sp, n) : f \in Fruits, n \in 1 .. sz.recovery[sp]}
  \cup LiftOf(sp, sz)
  \cup (IF sz.paraphrases
         THEN {Alone("paraphrase_extension", f, << >>, sp, <<k, n>>) :
                 f \in Fruits, k \in 1 .. 3, n \in 1 .. sz.perTemplate[sp]}
         ELSE {})

RawSchedule(sz) == UNION {RawOf(sp, sz) : sp \in AllSplits}

InSplits(train, validation, test) ==
  [train |-> train, validation |-> validation, test |-> test]

\* The sizes of the code.
FullSize ==
  [clean |-> InSplits(240, 30, 30), pairs |-> InSplits(80, 10, 10),
   triples |-> InSplits(32, 4, 4), preloaded |-> InSplits(48, 6, 6),
   recovery |-> InSplits(32, 4, 4), perTemplate |-> InSplits(16, 2, 2),
   lift |-> <<<<13, 2, 1>>, <<13, 2, 1>>, <<13, 2, 1>>, <<13, 1, 2>>, <<12, 1, 3>>>>,
   paraphrases |-> FALSE]

FamilyTotals ==
  [clean_single |-> 1200, linked_atomic |-> 320, preloaded_single |-> 240,
   recovery |-> 160, lift_basket |-> 80]

\* The part of validate_schedule, and of the comments of the raw schedule, that no
\* shuffle can change.
AtomicIsValid ==
  LET raw == RawSchedule(FullSize)
      lift == {x \in raw : x.family = "lift_basket"}
  IN  /\ \A sp \in AllSplits : CountOf(raw, LAMBDA x : x.split = sp) = SplitTotal[sp]
      /\ \A fa \in DOMAIN FamilyTotals :
           CountOf(raw, LAMBDA x : x.family = fa) = FamilyTotals[fa]
      /\ \A f \in Fruits : CountOf(raw, LAMBDA x : x.target = f) = 480
      /\ \A x \in raw : x.target \notin ToSet(x.preloaded)
      /\ \A c \in 0 .. 4 : CountOf(lift, LAMBDA x : Len(x.preloaded) = c) = 16
      /\ \A f \in Fruits : CountOf(lift, LAMBDA x : f \in ToSet(x.preloaded)) = 40

-----------------------------------------------------------------------------
(* collect_atomic_transport_dataset._assign_scenes *)

\* The units of a schedule in the order they are listed, each with its steps in theirs.
UnitsOf(raw) ==
  LET keys == FoldSet(LAMBDA u, list : Append(list, u), << >>, {x.unit : x \in raw})
  IN  [i \in DOMAIN keys |->
         LET steps == {x \in raw : x.unit = keys[i]}
         IN  [k \in 1 .. Cardinality(steps) |->
                [(CHOOSE x \in steps : Cardinality({y \in steps : y.step < x.step}) = k - 1)
                   EXCEPT !.unit = i]]]

NoScene == [layout |-> -1, order |-> << >>, seed |-> -1]

ScheduleInit ==
  /\ size \in Sizes
  /\ assign = [pc |-> "units", units |-> UnitsOf(RawSchedule(size)),
               layouts |-> [l \in 0 .. NumLayouts - 1 |-> 0],
               slots |-> [x \in Fruits \X Slots |-> 0],
               scene |-> [u \in {} |-> NoScene], plan |-> << >>]

Units == DOMAIN assign.units
TargetsOf(u) ==
  SelectSeq([k \in DOMAIN assign.units[u] |-> assign.units[u][k].target],
            LAMBDA f : f # NoTarget)

\* Any unit may be the next of a shuffled order: of those left, one of the first
\* size.ahead.  That is a bound on the shuffles, no part of the code.
Shuffled(left) == {u \in left : Cardinality({v \in left : v < u}) < size.ahead}

\* The n-th of a list, counted round.
Nth(list, n) == list[(n % Len(list)) + 1]

\* The least used layouts.
LeastUsed == SelectSeq([i \in 1 .. NumLayouts |-> i - 1],
  LAMBDA l : \A k \in 0 .. NumLayouts - 1 : assign.layouts[l] <= assign.layouts[k])

\* A plausible bug: any permutation will do.
AnyOrders(targets) == Permuted

\* The permutations that put the targets where they have been least, together.
BestOrders(targets) ==
  LET score(p) == Total([k \in DOMAIN targets |->
                           assign.slots[<<targets[k], SlotIn(p, targets[k])>>]])
      least == CHOOSE n \in {score(p) : p \in ToSet(Permuted)} :
                 \A p \in ToSet(Permuted) : n <= score(p)
  IN  SelectSeq(Permuted, LAMBDA p : score(p) = least)

\* The next unit of the shuffled order takes one scene for all its steps.
AssignUnit ==
  /\ assign.pc = "units"
  /\ \E u \in Shuffled(Units \ DOMAIN assign.scene) :
       LET n == Cardinality(DOMAIN assign.scene)
           targets == TargetsOf(u)
           layout == Nth(LeastUsed, n)
           order == Nth(BestOrders(targets), n)
       IN  assign' = [assign EXCEPT
             !.layouts[layout] = @ + Len(assign.units[u]),
             !.slots = [x \in Fruits \X Slots |->
                          @[x] + CountOf(DOMAIN targets, LAMBDA k :
                            targets[k] = x[1] /\ SlotIn(order, x[1]) = x[2])],
             !.scene = [v \in DOMAIN @ \cup {u} |->
                          IF v = u THEN [layout |-> layout, order |-> order, seed |-> 1000 + n]
                          ELSE @[v]]]
  /\ UNCHANGED size

EndOfUnits ==
  /\ assign.pc = "units"
  /\ DOMAIN assign.scene = Units
  /\ assign' = [assign EXCEPT !.pc = "plan"]
  /\ UNCHANGED size

Planned == {assign.plan[i].unit : i \in DOMAIN assign.plan}

\* The units of a split in any order, the steps of a unit in theirs.
PlanUnit ==
  /\ assign.pc = "plan"
  /\ LET left == Units \ Planned
         Rank(u) == CHOOSE i \in 1 .. 3 : SplitNames[i] = assign.units[u][1].split
     IN  \E u \in Shuffled({v \in left : \A w \in left : Rank(v) <= Rank(w)}) :
           assign' = [assign EXCEPT !.plan = @ \o assign.units[u]]
  /\ UNCHANGED size

\* How often the plan has a fruit to be taken from a slot, and a layout.
Taken(f, s) == CountOf(DOMAIN assign.plan, LAMBDA i :
  assign.plan[i].target = f /\ SlotIn(assign.scene[assign.plan[i].unit].order, f) = s)
Uses(l) == CountOf(DOMAIN assign.plan, LAMBDA i :
  assign.scene[assign.plan[i].unit].layout = l)

\* The slots are asked for only without the paraphrases.
SlotsBalanced == \A f \in Fruits : \A s, r \in Slots : Taken(f, s) = Taken(f, r)

ValidatePlan ==
  /\ assign.pc = "plan"
  /\ Planned = Units
  /\ assign' = [assign EXCEPT
       !.pc = IF size.paraphrases \/ SlotsBalanced THEN "built" ELSE "raised"]
  /\ UNCHANGED size

ScheduleDone == assign.pc \in {"built", "raised"} /\ UNCHANGED scheduleVars

ScheduleNext == AssignUnit \/ EndOfUnits \/ PlanUnit \/ ValidatePlan \/ ScheduleDone

-----------------------------------------------------------------------------
(***************************************************************************)
(* What does not depend on the shuffles is what the validators and the     *)
(* tests ask for, at the sizes of the code.  Randomized: the quotas, slots *)
(* and arms of every fruit, prompts within one of each other, layouts.     *)
(* Transport: layouts, slots, and fruit prefixes that are exactly even in  *)
(* the plan of 1,200.  Atomic: the quotas of splits, families and targets, *)
(* and the loads of the basket.                                            *)
(***************************************************************************)
SchedulesBalanced ==
  assign.pc = "units" /\ DOMAIN assign.scene = {} =>
    RandomizedIsValid /\ TransportIsBalanced /\ AtomicIsValid

(***************************************************************************)
(* The steps of a linked sequence follow each other in the plan, in one    *)
(* split and one scene, each with the fruits of the earlier steps in the   *)
(* basket; and no layout is ahead of another by more than the longest of   *)
(* them.                                                                   *)
(***************************************************************************)
SequencesLinked ==
  /\ \A i \in DOMAIN assign.plan :
       LET this == assign.plan[i]
           last == assign.plan[i - 1]
       IN  this.step > 0 =>
             /\ i > 1
             /\ last.step = this.step - 1
             /\ last.split = this.split
             /\ assign.scene[last.unit] = assign.scene[this.unit]
             /\ this.preloaded = Append(last.preloaded, last.target)
  /\ Even(assign.layouts, 3)

(***************************************************************************)
(* The atomic builder deals scenes along a shuffle.  Only the sequences    *)
(* can make the slots of a fruit uneven, by one each: the single episodes  *)
(* keep them within one of each other, so a plan is refused only for its   *)
(* sequences or for numbers no scene could even out (120 for each slot,    *)
(* collect_atomic_transport_dataset.py:346-352).  What was counted while   *)
(* scenes were dealt is what the plan uses.                                *)
(***************************************************************************)
ScenesDealtEvenly ==
  /\ \A f \in Fruits :
       LET linked == {u \in DOMAIN assign.scene :
                        Len(TargetsOf(u)) > 1 /\ f \in ToSet(TargetsOf(u))}
       IN  \A s, r \in Slots :
             assign.slots[<<f, s>>] - assign.slots[<<f, r>>] <= 1 + Cardinality(linked)
  /\ assign.pc \in {"built", "raised"} =>
       /\ \A l \in DOMAIN assign.layouts : assign.layouts[l] = Uses(l)
       /\ \A x \in DOMAIN assign.slots : assign.slots[x] = Taken(x[1], x[2])
=============================================================================
