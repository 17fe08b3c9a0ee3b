---------------------------- MODULE MCSeriesPlay ----------------------------
(* Instances of SeriesPlay for TLC: a best-of-three. *)
EXTENDS SeriesPlay, TLC

Games == 1..3
GameResults == {BotA, BotB, Draw}
WorkerSymmetry == Permutations(Workers)

=============================================================================
