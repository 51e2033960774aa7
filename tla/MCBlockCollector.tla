--------------------------- MODULE MCBlockCollector ---------------------------
(* Two configurations of the block collector for TLC. *)
EXTENDS BlockCollector, TLC

MCPromptOf == 0 :> "a" @@ 1 :> "b"
=============================================================================
