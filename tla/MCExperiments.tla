---- MODULE MCExperiments ----
EXTENDS Experiments

\* The plain policy, and guided chunks next to an obstacle.
MCConditions ==
  {[seam |-> FALSE, obstacle |-> FALSE], [seam |-> TRUE, obstacle |-> TRUE]}
====
