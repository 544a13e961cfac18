------------------------ MODULE MCDatasetCollection ------------------------
(* Two indices, two master seeds, and two ways to ask for splits: the      *)
(* defaults, and equal halves, where rounding meets a tie.                 *)
EXTENDS DatasetCollection

MCWeights == {<<70, 15, 15>>, <<1, 1, 0>>}
=============================================================================
