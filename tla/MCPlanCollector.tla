--------------------------- MODULE MCPlanCollector ---------------------------
(* Small instances of the collectors for TLC. *)
EXTENDS DatasetValidators, CollectorInvariants, TLC

MCSplitOrder == <<"train", "validation">>

\* Two training plans that share a prompt, and a validation plan.
MCPromptOf == 0 :> "a" @@ 1 :> "a" @@ 2 :> "b"
MCSplitOf  == 0 :> "train" @@ 1 :> "train" @@ 2 :> "validation"
=============================================================================
