------------------------------ MODULE GameTurn ------------------------------
(***************************************************************************)
(* The match engine: GameState and the loop of MatchRunner.Run.  One turn  *)
(* is one step: the players' orders are collected, matched with units by   *)
(* position, and ExecuteTurn runs its eight phases in order.  Each phase   *)
(* is a function from game states to game states, as in the code, where it *)
(* is a method that mutates gs.                                            *)
(*                                                                         *)
(* A unit's ID in the code is its index in gs.Bots; here indices start at  *)
(* 1.  gs.Bots keeps the dead.  Map generation (trigonometry and random    *)
(* numbers) is replaced by a given board.                                  *)
(***************************************************************************)
EXTENDS Integers, FiniteSets, Sequences, SequencesExt

CONSTANTS
  NumPlayers,         \* len(gs.Players)
  Rows, Cols,         \* Config.Rows, Config.Cols
  MaxTurns,           \* Config.MaxTurns
  AttackRadius2,      \* Config.AttackRadius2
  SpawnCost,          \* Config.SpawnCost
  EnergyInterval,     \* Config.EnergyInterval
  KillScore,          \* Config.KillScore
  ZoneEnabled, ZoneStartTurn, ZoneShrinkInterval, ZoneShrinkStep, ZoneMinRadius,
  DominanceLimit,     \* 100 in checkWinConditions
  StalemateLimit,     \* 50 in checkWinConditions
  Walls,              \* wall positions of the map
  CoreMap,            \* the map's cores: a sequence of [owner, pos]
  NodeMap,            \* the map's energy nodes: a sequence of [pos, full]
  Silent              \* players whose bot never answers (units hold position)

Players   == 0 .. NumPlayers - 1
Positions == (0 .. Rows - 1) \X (0 .. Cols - 1)
Dirs      == {"N", "E", "S", "W"}

ASSUME GameConstants ==
  /\ NumPlayers \in Nat /\ NumPlayers >= 2
  /\ Rows \in Nat \ {0} /\ Cols \in Nat \ {0} /\ MaxTurns \in Nat \ {0}
  /\ AttackRadius2 \in Nat /\ KillScore \in Nat
  /\ SpawnCost \in Nat \ {0} /\ EnergyInterval \in Nat \ {0}
  /\ ZoneEnabled \in BOOLEAN /\ ZoneStartTurn \in Nat
  /\ ZoneShrinkInterval \in Nat \ {0}
  /\ ZoneShrinkStep \in Nat /\ ZoneMinRadius \in Nat
  /\ DominanceLimit \in Nat \ {0} /\ StalemateLimit \in Nat \ {0}
  /\ Walls \subseteq Positions
  /\ CoreMap \in Seq([owner : Players, pos : Positions \ Walls])
  /\ \A p \in Players : \E c \in DOMAIN CoreMap : CoreMap[c].owner = p
  /\ NodeMap \in Seq([pos : Positions, full : BOOLEAN])
  /\ Silent \subseteq Players

VARIABLES
  gs,      \* the GameState
  result   \* MatchResult, or NoResult (nil) while the match goes on

vars == <<gs, result>>

NoResult == [winner |-> -1, reason |-> "none"]

-----------------------------------------------------------------------------
(* The toroidal grid *)

Wrap(r, c) == <<r % Rows, c % Cols>>

Move(pos, dir) ==
  CASE dir = "N" -> Wrap(pos[1] - 1, pos[2])
    [] dir = "E" -> Wrap(pos[1], pos[2] + 1)
    [] dir = "S" -> Wrap(pos[1] + 1, pos[2])
    [] dir = "W" -> Wrap(pos[1], pos[2] - 1)

Shorter(d, n) ==
  CASE d > n \div 2    -> d - n
    [] d < -(n \div 2) -> d + n
    [] OTHER           -> d

Distance2(a, b) ==
  LET dr == Shorter(a[1] - b[1], Rows)
      dc == Shorter(a[2] - b[2], Cols)
  IN dr * dr + dc * dc

ZoneCenter == <<Rows \div 2, Cols \div 2>>

-----------------------------------------------------------------------------
(* Units *)

Units(g)  == DOMAIN g.bots
Living(g) == {b \in Units(g) : g.bots[b].alive}
LivingOf(g, p) == {b \in Living(g) : g.bots[b].owner = p}
LivingAt(g, pos) == {b \in Living(g) : g.bots[b].pos = pos}
LivingPlayers(g) == {g.bots[b].owner : b \in Living(g)}
Owners(g, bs) == {g.bots[b].owner : b \in bs}

\* Mutant: Player.BotCount is left alone.
KillUncounted(g, ds) ==
  [g EXCEPT
     !.bots = [b \in Units(g) |-> IF b \in ds THEN [@[b] EXCEPT !.alive = FALSE] ELSE @[b]],
     !.dead = @ \union ds]

\* KillBot, and the same statements inlined in the combat and zone phases.
Kill(g, ds) ==
  [g EXCEPT
     !.bots = [b \in Units(g) |-> IF b \in ds THEN [@[b] EXCEPT !.alive = FALSE] ELSE @[b]],
     !.count = [p \in Players |-> @[p] - Cardinality({b \in ds : g.bots[b].owner = p})],
     !.dead = @ \union ds]

\* The unit SpawnBot puts on the board.
SpawnBot(owner, pos) == [owner |-> owner, pos |-> pos, alive |-> TRUE]

-----------------------------------------------------------------------------
(* The phases of a turn *)

\* Where the living units end up if nothing kills them on the way.
Intended(g, moves) ==
  [b \in Living(g) |->
     LET here == g.bots[b].pos  there == Move(here, moves[b])
     IN IF b \in DOMAIN moves /\ there \notin Walls THEN there ELSE here]

\* Units of one player that meet on a tile nobody else goes to all die.
ExecuteMoves(g, moves) ==
  LET dest == Intended(g, moves)
      met(b) == {c \in Living(g) : dest[c] = dest[b]}
      ds == {b \in Living(g) : met(b) # {b} /\ Owners(g, met(b)) = {g.bots[b].owner}}
      moved == [b \in Units(g) |->
                  IF b \in Living(g) \ ds THEN [g.bots[b] EXCEPT !.pos = dest[b]]
                                          ELSE g.bots[b]]
  IN Kill([g EXCEPT !.bots = moved], ds)

EnemiesInRange(g) ==
  [b \in Living(g) |->
     {e \in Living(g) :
        /\ g.bots[e].owner # g.bots[b].owner
        /\ Distance2(g.bots[b].pos, g.bots[e].pos) <= AttackRadius2}]

\* A unit dies if it has strictly more enemies around it than each of them has.
FocusFired(enemies) ==
  {b \in DOMAIN enemies :
     /\ enemies[b] # {}
     /\ \A e \in enemies[b] : Cardinality(enemies[e]) < Cardinality(enemies[b])}

\* Every enemy in range of a death is credited with it.
ExecuteCombat(g) ==
  LET enemies == EnemiesInRange(g)
      ds == FocusFired(enemies)
      credit(p) == Cardinality(
        {de \in ds \X Units(g) : de[2] \in enemies[de[1]] /\ g.bots[de[2]].owner = p})
  IN [Kill(g, ds) EXCEPT
        !.kills = [p \in Players |-> @[p] + credit(p)],
        !.score = [p \in Players |-> @[p] + KillScore * credit(p)]]

ShrunkRadius(g) ==
  IF /\ g.turn > ZoneStartTurn
     /\ (g.turn - ZoneStartTurn) % ZoneShrinkInterval = 0
  THEN Max({g.radius - ZoneShrinkStep, ZoneMinRadius})
  ELSE g.radius

Outside(g) ==
  {b \in Living(g) : Distance2(g.bots[b].pos, ZoneCenter) > g.radius * g.radius}

ExecuteZone(g) ==
  LET shrunk == [g EXCEPT !.radius = ShrunkRadius(g)] IN
  IF ZoneEnabled /\ g.zone THEN Kill(shrunk, Outside(shrunk)) ELSE g

\* An enemy on an active core with no unit of its owner there razes it; of
\* several enemies the one with the lowest ID is credited.
Razed(g) ==
  {c \in DOMAIN g.cores :
     LET on == LivingAt(g, g.cores[c].pos) IN
     g.cores[c].active /\ on # {} /\ g.cores[c].owner \notin Owners(g, on)}

Capturer(g, c) == g.bots[Min(LivingAt(g, g.cores[c].pos))].owner

\* Mutant: the owner keeps the point of a razed core.
ExecuteCapturesFree(g) ==
  LET rs == Razed(g) IN
  [g EXCEPT
     !.cores = [c \in DOMAIN @ |-> IF c \in rs THEN [@[c] EXCEPT !.active = FALSE] ELSE @[c]],
     !.score = [p \in Players |-> @[p] + 2 * Cardinality({c \in rs : Capturer(g, c) = p})]]

ExecuteCaptures(g) ==
  LET rs == Razed(g)
  IN [g EXCEPT
        !.cores = [c \in DOMAIN @ |-> IF c \in rs THEN [@[c] EXCEPT !.active = FALSE] ELSE @[c]],
        !.score = [p \in Players |-> @[p] + 2 * Cardinality({c \in rs : Capturer(g, c) = p})
                                          - Cardinality({c \in rs : g.cores[c].owner = p})]]

\* A full node next to units of one player is collected, next to units of
\* several players it is lost.
ExecuteCollection(g) ==
  LET near(n) == Owners(g, {b \in Living(g) : Distance2(g.bots[b].pos, g.nodes[n].pos) <= 2})
      emptied == {n \in DOMAIN g.nodes : g.nodes[n].full /\ near(n) # {}}
  IN [g EXCEPT
        !.nodes = [n \in DOMAIN @ |->
                     IF n \in emptied THEN [@[n] EXCEPT !.full = FALSE, !.tick = 0] ELSE @[n]],
        !.energy = [p \in Players |-> @[p] + Cardinality({n \in emptied : near(n) = {p}})]]

\* The cores on which player p may spawn a unit.
Eligible(g, p) ==
  {c \in DOMAIN g.cores : /\ g.cores[c].active /\ g.cores[c].owner = p
                          /\ LivingAt(g, g.cores[c].pos) = {}}

\* The first n of the cores cs: idle-longest first, then lowest core ID.
ByPriority(g, cs, n) ==
  LET before(c, d) == \/ g.cores[c].last < g.cores[d].last
                      \/ g.cores[c].last = g.cores[d].last /\ c < d
  IN CHOOSE s \in [1 .. n -> cs] :
       \A k \in 1 .. n : LET left == cs \ {s[j] : j \in 1 .. k - 1} IN
                         s[k] \in left /\ \A d \in left \ {s[k]} : before(s[k], d)

\* One player's spawns (SpawnBot on each core), while the energy lasts.
SpawnsOf(g, p) ==
  LET cs == Eligible(g, p)
      n == Min({Cardinality(cs), g.energy[p] \div SpawnCost})
      chosen == ByPriority(g, cs, n)
  IN [g EXCEPT
        !.bots = @ \o [k \in 1 .. n |-> SpawnBot(p, g.cores[chosen[k]].pos)],
        !.count[p] = @ + n,
        !.energy[p] = @ - n * SpawnCost,
        !.cores = [c \in DOMAIN @ |-> IF \E k \in 1 .. n : chosen[k] = c
                                      THEN [@[c] EXCEPT !.last = g.turn] ELSE @[c]]]

\* The players spawn in the order of gs.Players.
ExecuteSpawns(g) ==
  LET after[i \in 0 .. NumPlayers] == IF i = 0 THEN g ELSE SpawnsOf(after[i - 1], i - 1)
  IN after[NumPlayers]

ExecuteEnergyTick(g) ==
  LET tick(n) ==
        IF n.full THEN n
        ELSE IF n.tick + 1 >= EnergyInterval THEN [n EXCEPT !.full = TRUE, !.tick = 0]
        ELSE [n EXCEPT !.tick = @ + 1]
  IN [g EXCEPT !.nodes = [n \in DOMAIN @ |-> tick(@[n])]]

-----------------------------------------------------------------------------
(* The end of a match *)

\* Whether i beats the best so far: score, then energy, then units.
Beats(g, i, best) ==
  \/ g.score[i] > g.score[best]
  \/ g.score[i] = g.score[best] /\ g.energy[i] > g.energy[best]
  \/ /\ g.score[i] = g.score[best] /\ g.energy[i] = g.energy[best]
     /\ Cardinality(LivingOf(g, i)) > Cardinality(LivingOf(g, best))

\* Mutant: energy is compared before score.
FindWinnerByEnergy(g) ==
  LET better(i, best) == \/ g.energy[i] > g.energy[best]
                         \/ g.energy[i] = g.energy[best] /\ g.score[i] > g.score[best]
      best[i \in Players] == IF i = 0 THEN 0
                             ELSE IF better(i, best[i - 1]) THEN i ELSE best[i - 1]
  IN best[NumPlayers - 1]

\* The best of the players up to the last; the first of equals.
FindWinnerByScore(g) ==
  LET best[i \in Players] == IF i = 0 THEN 0
                             ELSE IF Beats(g, i, best[i - 1]) THEN i ELSE best[i - 1]
  IN best[NumPlayers - 1]

End(g, winner, reason) == [g |-> g, result |-> [winner |-> winner, reason |-> reason]]

\* +2 for every core the last survivor did not raze.
Elimination(g, winner) ==
  LET left == {c \in DOMAIN g.cores : g.cores[c].active /\ g.cores[c].owner # winner}
  IN End([g EXCEPT !.score[winner] = @ + 2 * Cardinality(left)], winner, "elimination")

\* 80% of all living units.
Dominates(g, p) == 5 * Cardinality(LivingOf(g, p)) >= 4 * Cardinality(Living(g))

CountDominance(g) ==
  [g EXCEPT !.dominance = [p \in Players |-> IF Dominates(g, p) THEN @[p] + 1 ELSE 0]]

\* Progress: the energy held or the number of units changed, or a unit died.
CountStalemate(g) ==
  LET held == SumFunction(g.energy)  units == Cardinality(Living(g)) IN
  IF held # g.lastEnergy \/ units # g.lastBots \/ g.dead # {}
  THEN [g EXCEPT !.calm = 0, !.lastEnergy = held, !.lastBots = units]
  ELSE [g EXCEPT !.calm = @ + 1]

CheckWinConditions(g) ==
  LET d == CountDominance(g)
      dominant == {p \in Players : d.dominance[p] >= DominanceLimit}
      s == CountStalemate(d)
  IN CASE Cardinality(LivingPlayers(g)) = 1 -> Elimination(g, CHOOSE p \in LivingPlayers(g) : TRUE)
       [] LivingPlayers(g) = {}             -> End(g, -1, "draw")
       [] Cardinality(LivingPlayers(g)) > 1 /\ dominant # {} -> End(d, Min(dominant), "dominance")
       [] OTHER -> IF s.calm >= StalemateLimit THEN End(s, FindWinnerByScore(s), "stalemate")
                   ELSE IF s.turn >= MaxTurns  THEN End(s, FindWinnerByScore(s), "turns")
                   ELSE [g |-> s, result |-> NoResult]

\* The states a phase leads to from a set of states.
After(Phase(_), states) == {Phase(g) : g \in states}

\* What the turns that begin with one of these moves lead to.
ExecuteTurn(g, submissions) ==
  After(CheckWinConditions,
    After(ExecuteEnergyTick,
      After(ExecuteSpawns,
        After(ExecuteCollection,
          After(ExecuteCaptures,
            After(ExecuteZone,
              After(ExecuteCombat,
                {ExecuteMoves([g EXCEPT !.turn = @ + 1], m) : m \in submissions})))))))

-----------------------------------------------------------------------------
(* The loop of Run *)

\* The storm starts before the orders of its first turn are collected.
InitialZoneRadius == Max({(Min({Rows \div 2, Cols \div 2}) * 90) \div 100, 7})

ActivateZone(g) ==
  IF ~ g.zone /\ g.turn + 1 >= ZoneStartTurn
  THEN [g EXCEPT !.zone = TRUE, !.radius = InitialZoneRadius] ELSE g

\* The orders players may have accepted (validateMoves): at most one for each
\* tile on which the player has a living unit.  An omitted order, or "stay", is
\* no order, and a player whose request fails gives none.
OwnTiles(g, p) == {g.bots[b].pos : b \in LivingOf(g, p)}

Orders(g) ==
  LET slots == UNION {{p} \X OwnTiles(g, p) : p \in Players \ Silent}
      given(f) == [p \in Players |->
                     LET tiles == {t \in OwnTiles(g, p) : <<p, t>> \in slots /\ f[<<p, t>>] # "stay"}
                     IN [t \in tiles |-> f[<<p, t>>]]]
  IN {given(f) : f \in [slots -> Dirs \union {"stay"}]}

\* The submission loop.  A player must have a unit on the tile it gives an order
\* for (findBotAtPosition), but SubmitMove hands the order to the first living
\* unit on that tile.  Players come in the order of Go's map iteration: of two
\* orders for one unit, the one of the later player stands.
SubmitMoves(g, a, order) ==
  LET bidders(pos) == {i \in 1 .. NumPlayers :
                         pos \in DOMAIN a[order[i]] \intersect OwnTiles(g, order[i])}
      ordered == {b \in Living(g) : /\ b = Min(LivingAt(g, g.bots[b].pos))
                                    /\ bidders(g.bots[b].pos) # {}}
  IN [b \in ordered |-> LET pos == g.bots[b].pos IN a[order[Max(bidders(pos))]][pos]]

\* What the players are asked about: the state after ClearTurnState.
Request(g) == [ActivateZone(g) EXCEPT !.dead = {}]

Submissions(g) == {SubmitMoves(g, a, order) : a \in Orders(g), order \in SetToSeqs(Players)}

RunTurn ==
  /\ result = NoResult /\ gs.turn < MaxTurns
  /\ \E end \in ExecuteTurn(Request(gs), Submissions(Request(gs))) :
       gs' = end.g /\ result' = end.result

Init ==
  /\ gs = [turn |-> 0,
           bots |-> [c \in DOMAIN CoreMap |-> SpawnBot(CoreMap[c].owner, CoreMap[c].pos)],
           cores |-> [c \in DOMAIN CoreMap |->
                       [owner |-> CoreMap[c].owner, pos |-> CoreMap[c].pos, active |-> TRUE, last |-> 0]],
           nodes |-> [n \in DOMAIN NodeMap |->
                       [pos |-> NodeMap[n].pos, full |-> NodeMap[n].full, tick |-> 0]],
           energy |-> [p \in Players |-> 0],
           score |-> [p \in Players |-> Cardinality({c \in DOMAIN CoreMap : CoreMap[c].owner = p})],
           count |-> [p \in Players |-> Cardinality({c \in DOMAIN CoreMap : CoreMap[c].owner = p})],
           kills |-> [p \in Players |-> 0],
           dead |-> {},
           zone |-> FALSE, radius |-> Min({Rows, Cols}) \div 2,
           dominance |-> [p \in Players |-> 0],
           calm |-> 0, lastEnergy |-> 0, lastBots |-> 0]
  /\ result = NoResult

Next == RunTurn
Spec == Init /\ [][Next]_vars

-----------------------------------------------------------------------------
(* Properties *)

\* Every field of the game state keeps its type; no player's energy goes below
\* zero, and a match that left the loop has a result (Run dereferences it).
TypeOK ==
  /\ gs.turn \in 0 .. MaxTurns
  /\ gs.bots \in Seq([owner : Players, pos : Positions \ Walls, alive : BOOLEAN])
  /\ \A c \in DOMAIN gs.cores : gs.cores[c].last \in 0 .. gs.turn
  /\ \A n \in DOMAIN gs.nodes : gs.nodes[n].tick \in 0 .. EnergyInterval - 1
  /\ gs.energy \in [Players -> Nat]
  /\ gs.score \in [Players -> Int]
  /\ gs.count \in [Players -> Nat]
  /\ gs.dead \subseteq Units(gs)
  /\ gs.turn = MaxTurns => result # NoResult

\* Player.BotCount, kept by hand in SpawnBot, KillBot, the combat phase and the
\* zone phase, is the number of the player's living units after every turn.
UnitCounts == \A p \in Players : gs.count[p] = Cardinality(LivingOf(gs, p))

\* Scores are accounted for: all players together have a point for each core of
\* the map, one more for each razed core (+2 -1), KillScore for each credited
\* kill, and the elimination bonus for cores left standing.
ScoreLedger ==
  LET active == {c \in DOMAIN gs.cores : gs.cores[c].active}
      spared == {c \in active : gs.cores[c].owner # result.winner}
  IN SumFunction(gs.score) =
       Len(gs.cores) + (Len(gs.cores) - Cardinality(active))
       + KillScore * SumFunction(gs.kills)
       + IF result.reason = "elimination" THEN 2 * Cardinality(spared) ELSE 0

\* The storm: once active it is never narrower than its minimum, and a unit
\* still alive outside it has just been spawned by a core out there (spawning
\* comes after the zone phase).
StormClears ==
  ZoneEnabled /\ gs.zone =>
    /\ gs.radius >= ZoneMinRadius \/ gs.radius = InitialZoneRadius
    /\ \A b \in Outside(gs) :
         \E c \in DOMAIN gs.cores :
           /\ gs.cores[c].pos = gs.bots[b].pos /\ gs.cores[c].owner = gs.bots[b].owner
           /\ gs.cores[c].last = gs.turn

\* Dominance counts for one player at a time, so the order in which
\* checkWinConditions visits the players does not decide a match.
OneDominates ==
  \A p, q \in Players : p # q => gs.dominance[p] = 0 \/ gs.dominance[q] = 0

\* A result says what happened on the board: the survivor survives alone, a draw
\* leaves nobody, a dominant winner holds 80% of the units, and no player beats
\* the winner of a stalemate or of the turn limit, by the order findWinnerByScore
\* uses: score, then energy held, then units.  The comment of that function
\* (turn.go:554), types.go:280 and plan.md:431 say energy collected; the code
\* compares Player.Energy, what is left of it after spawning.
ResultJustified ==
  CASE result.reason = "elimination" -> LivingPlayers(gs) = {result.winner}
    [] result.reason = "draw"        -> Living(gs) = {}
    [] result.reason = "dominance"   -> Dominates(gs, result.winner)
    [] result.reason \in {"stalemate", "turns"} ->
         \A p \in Players : ~ Beats(gs, p, result.winner)
    [] OTHER -> Cardinality(LivingPlayers(gs)) > 1

\* The board after every turn of ExecuteTurn: what its eight phases keep by hand
\* agrees with the units on it, and the storm has cleared what lies outside.
BoardIsSound == TypeOK /\ UnitCounts /\ StormClears

\* How a match ends follows from the board alone (checkWinConditions).
OutcomeJustified == ResultJustified /\ OneDominates

\* An order moves a unit of the player who gave it.
OrdersMoveOwnUnits ==
  result = NoResult => \A a \in Orders(gs) : \A order \in SetToSeqs(Players) :
    LET moves == SubmitMoves(gs, a, order) IN
    \A b \in DOMAIN moves :
      LET p == gs.bots[b].owner  pos == gs.bots[b].pos IN
      pos \in DOMAIN a[p] /\ a[p][pos] = moves[b]

=============================================================================
