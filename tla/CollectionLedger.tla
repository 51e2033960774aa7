--------------------------- MODULE CollectionLedger ---------------------------
(***************************************************************************)
(* What a collection promises, without files, processes or stages: a       *)
(* ledger of plans.  A plan is committed to the dataset at most once and   *)
(* only while no committed plan waits for its acknowledgement; an          *)
(* acknowledged plan was committed; and a collection is complete when all  *)
(* plans are acknowledged.  A committed plan may wait forever, which is    *)
(* what a crash between the two steps leaves behind.                       *)
(*                                                                         *)
(* The dataset (AtomicTransportChild) holds the commits and the statistics *)
(* file (PlanCollector) the acknowledgements.                              *)
(***************************************************************************)
EXTENDS Integers, Sequences

CONSTANT NumPlans

Plan == 0 .. NumPlans - 1

VARIABLES
  log,        \* the committed plans, in order
  ack,        \* the acknowledged plans
  complete    \* the collection has been declared complete

Init ==
  /\ log = << >>
  /\ ack = {}
  /\ complete = FALSE

Committed == {log[k] : k \in DOMAIN log}

Commit(p) ==
  /\ ~ complete
  /\ p \notin Committed
  /\ ack = Committed
  /\ log' = Append(log, p)
  /\ UNCHANGED <<ack, complete>>

Ack(p) ==
  /\ p \in Committed \ ack
  /\ ack' = ack \cup {p}
  /\ UNCHANGED <<log, complete>>

Complete ==
  /\ ack = Plan
  /\ complete' = TRUE
  /\ UNCHANGED <<log, ack>>

\* The command is run again on a complete collection.
Reopen ==
  /\ complete
  /\ complete' = FALSE
  /\ UNCHANGED <<log, ack>>

Next ==
  \/ \E p \in Plan : Commit(p) \/ Ack(p)
  \/ Complete
  \/ Reopen

Spec == Init /\ [][Next]_<<log, ack, complete>>
=============================================================================
