----------------------------- MODULE AtomicSuite -----------------------------
(***************************************************************************)
(* The trials of an atomic experiment, as pi05_ex_infer.py lists them:     *)
(* episodes of a dataset chosen to differ as much as possible, each in a   *)
(* scene drawn anew, or in its own scene.  What the generator draws is any *)
(* outcome it can have; the seeds and the order of the fruits that are no  *)
(* target are left out.                                                    *)
(***************************************************************************)
EXTENDS Integers, Sequences, FiniteSets, SequencesExt

CONSTANTS
  Records,    \* atomic_episodes.jsonl: [task, target, arm, family, preloaded, layout, split]
  Wanted,     \* --atomic-trials and --atomic-split: [count, split]
  NumLayouts, \* layout_count of the fruit grid
  ScoreScale  \* a common multiple of the counts a score divides by

VARIABLE suite

SuiteInit ==
  \E want \in Wanted, tie \in Bijection(DOMAIN Records, DOMAIN Records) :
    suite = [pc |-> "load", want |-> want, tie |-> tie, chosen |-> << >>,
             deck |-> {}, sides |-> << >>, scenes |-> << >>]

Candidates == {e \in DOMAIN Records : suite.want.split \in {"all", Records[e].split}}

\* No line is an error, and so are more trials than candidates.
LoadEpisodes ==
  /\ suite.pc = "load"
  /\ suite' = [suite EXCEPT
       !.pc = IF suite.want.count \in 1 .. Cardinality(Candidates) THEN "select" ELSE "raised"]

Features(e) ==
  LET r == Records[e] IN <<r.task, r.target, r.arm, r.family, r.preloaded, r.layout>>

\* How often a feature of an episode has been chosen.
Chosen(e, i) ==
  Cardinality({k \in DOMAIN suite.chosen : Features(suite.chosen[k])[i] = Features(e)[i]})

\* The score of the code, times ScoreScale.
Score(e) ==
  LET part(i) == ScoreScale \div (1 + Chosen(e, i))
  IN  part(1) + part(2) + part(3) + part(4) + part(5) + part(6)

\* Equal scores are told apart by a number drawn for each episode.
Better(e, f) == Score(e) > Score(f) \/ (Score(e) = Score(f) /\ suite.tie[e] > suite.tie[f])

Remaining == Candidates \ ToSet(suite.chosen)

SelectDiverse ==
  /\ suite.pc = "select"
  /\ Len(suite.chosen) < suite.want.count
  /\ suite' = [suite EXCEPT !.chosen = Append(@,
       CHOOSE e \in Remaining : \A f \in Remaining \ {e} : Better(e, f))]

IsPlace(e) == Records[e].task = "place_one"

\* A plausible bug: every trial uses up a side.
EveryTrial == DOMAIN suite.chosen

\* The trials that place a fruit.
Places == {k \in DOMAIN suite.chosen : IsPlace(suite.chosen[k])}

Alternating(n) == [k \in 1 .. n |-> IF k % 2 = 1 THEN "left" ELSE "right"]

\* The sides are dealt alternately, then shuffled; or every scene is replayed.
DealSides ==
  /\ suite.pc = "select"
  /\ Len(suite.chosen) = suite.want.count
  /\ LET n == Cardinality(Places)
     IN  \/ \E p \in Bijection(1 .. n, 1 .. n) :
              suite' = [suite EXCEPT !.pc = "scenes",
                                     !.sides = [k \in 1 .. n |-> Alternating(n)[p[k]]]]
         \/ suite' = [suite EXCEPT !.pc = "replay"]

SlotsOf(side) == IF side = "left" THEN {0, 1} ELSE {2, 3}

\* Only the trials that place a fruit use up a side.
SideOf(k) == suite.sides[Cardinality(Places \cap 1 .. k)]

\* Layouts are drawn from whole permutations of them; the target of a trial goes to
\* a slot of its side, and that side's arm is asked for.
RandomizeScene ==
  /\ suite.pc = "scenes"
  /\ Len(suite.scenes) < suite.want.count
  /\ LET k == Len(suite.scenes) + 1
         deck == IF suite.deck = {} THEN 0 .. NumLayouts - 1 ELSE suite.deck
         side == IF IsPlace(suite.chosen[k]) THEN SideOf(k) ELSE "both"
     IN  \E layout \in deck, slot \in IF side = "both" THEN 0 .. 3 ELSE SlotsOf(side) :
           suite' = [suite EXCEPT !.deck = deck \ {layout},
                       !.scenes = Append(@, [layout |-> layout, arm |-> side, slot |-> slot])]

EndOfSuite ==
  /\ suite.pc = "scenes"
  /\ Len(suite.scenes) = suite.want.count
  /\ suite' = [suite EXCEPT !.pc = "listed"]

SuiteDone == suite.pc \in {"listed", "replay", "raised"} /\ UNCHANGED suite

SuiteNext == LoadEpisodes \/ SelectDiverse \/ DealSides \/ RandomizeScene \/ EndOfSuite \/ SuiteDone

-----------------------------------------------------------------------------
(***************************************************************************)
(* No episode is listed twice; scenes drawn anew use the two arms and the  *)
(* layouts within one of each other; and a target lies where the arm that  *)
(* is asked for can reach it.                                              *)
(***************************************************************************)
SuiteBalanced ==
  LET times(l) == Cardinality({k \in DOMAIN suite.scenes : suite.scenes[k].layout = l})
      armed(a) == {k \in DOMAIN suite.scenes : suite.scenes[k].arm = a}
      gap == Cardinality(armed("left")) - Cardinality(armed("right"))
  IN  /\ IsInjective(suite.chosen)
      /\ \A k \in DOMAIN suite.scenes :
           IsPlace(suite.chosen[k]) => suite.scenes[k].slot \in SlotsOf(suite.scenes[k].arm)
      /\ \A l, m \in 0 .. NumLayouts - 1 : times(l) - times(m) <= 1
      /\ suite.pc = "listed" => gap \in {-1, 0, 1}
=============================================================================
