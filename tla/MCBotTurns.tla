----------------------------- MODULE MCBotTurns -----------------------------
(* Instances of BotTurns for TLC. *)
EXTENDS BotTurns, TLC

\* Bots are only ever compared for equality.
PlayerSymmetry == Permutations(Players)

=============================================================================
