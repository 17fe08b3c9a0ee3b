----------------------------- MODULE MCGameTurn -----------------------------
(* Boards on which TLC plays whole matches. *)
EXTENDS GameTurn

Core(p, r, c) == [owner |-> p, pos |-> <<r, c>>]
Node(r, c, f) == [pos |-> <<r, c>>, full |-> f]

\* Two cores against one on a 3 x 5 torus, with a wall and two energy nodes.
SkirmishCores == <<Core(0, 0, 0), Core(1, 1, 1), Core(0, 2, 2)>>
SkirmishNodes == <<Node(0, 1, TRUE), Node(2, 4, FALSE)>>
SkirmishWalls == {<<1, 3>>}

=============================================================================
