------------------------------ MODULE MapForge ------------------------------
(***************************************************************************)
(* Where boards come from: the offline generator (cmd/acb-mapgen), the     *)
(* loader that puts its files into the maps table (cmd/acb-maps-loader),   *)
(* the map evolver that seeds and breeds more (cmd/acb-map-evolver), and   *)
(* the match runner that turns a stored map into a starting board          *)
(* (engine/match.go).                                                      *)
(*                                                                         *)
(* Two players: the symmetry is the half turn about the centre tile, where *)
(* the code's cosines and sines round to exact integers.  The board is a   *)
(* square torus; random choices are existential quantifiers.  The radii    *)
(* and thresholds the code fixes for boards of 40 x 40 and more are        *)
(* constants here, so that a board of 4 x 4 exercises every branch.        *)
(***************************************************************************)
EXTENDS Integers, FiniteSets, Sequences, SequencesExt, FiniteSetsExt

CONSTANTS
    Side,          \* rows and columns of the torus
    CoreOffset,    \* rows between a core and the centre
    NodeSpots,     \* offsets from the centre an energy node may be drawn at
    NodesPerSector,  \* energy nodes drawn in a sector (10; 7 on a skirmish map)
    CoreClear,     \* wall-free margin around a core (3 in the code)
    NodeClear,     \* wall-free margin around an energy node (1)
    CenterClear,   \* wall-free margin around the centre of a seed map (2)
    Corridor,      \* half width of a carved corridor (1)
    Iterations,    \* rounds of the cellular automaton (4)
    TargetWalls,   \* walls kept by a generator: tiles * wall density
    MinWalls,      \* fewest and most walls of a valid map (5% and 30% of the tiles)
    MaxWalls,
    MinOpen,       \* fewest open tiles per player (900)
    MinReach,      \* fewest energy nodes each core reaches (3)
    MinSeedCount,  \* maps the evolver seeds before it breeds
    MaxShift,      \* tiles an energy node moves at most (3)
    MaxFlips,      \* bound: orbits one mutation flips
    MaxPool        \* bound: maps in the pool

ASSUME MapForgeAssumption ==
    /\ {Side, CoreOffset, Iterations, MinSeedCount, MaxPool} \subseteq Nat \ {0}
    /\ {CoreClear, NodeClear, CenterClear, Corridor, TargetWalls, MinWalls, MaxWalls, MinOpen, MinReach,
        MaxShift, MaxFlips} \subseteq Nat
    /\ NodeSpots \subseteq (-Side..Side) \X (0..Side)
    /\ 2 * CoreOffset < Side
    /\ NodesPerSector \in Nat /\ MinReach <= NodesPerSector

VARIABLES
    pool,      \* the maps table, with the map_json of each row
    parents,   \* the parents the evolver read at the start of its cycle
    evolver    \* "idle", "breeding", or "down" after a panic

forgeVars == <<pool, parents, evolver>>

Players == {0, 1}
Center  == Side \div 2
Tiles   == (0..Side-1) \X (0..Side-1)
Wrap(r, c)  == <<r % Side, c % Side>>
Block(t, k) == {Wrap(t[1] + d[1], t[2] + d[2]) : d \in (-k..k) \X (-k..k)}
Around(S, k) == UNION {Block(t, k) : t \in S}

\* The half turn.  Sector 0 is the half plane whose angle lies in [0, pi).
Image(t)     == Wrap(2 * Center - t[1], 2 * Center - t[2])
Orbit(t)     == {t, Image(t)}
Orbits(S)    == S \cup {Image(t) : t \in S}
InSector0(t) == t[2] > Center \/ (t[2] = Center /\ t[1] >= Center)

-----------------------------------------------------------------------------
(***************************************************************************)
(* Generation.                                                             *)
(***************************************************************************)
StartCores == [p \in Players |-> Wrap(Center + (1 - 2 * p) * CoreOffset, Center)]

\* The energy nodes of one sector and their images.  A hundred attempts find each node
\* a place of its own, never on a core.
NodeSets ==
    LET spots == {Wrap(Center + d[1], Center + d[2]) : d \in NodeSpots} \ {StartCores[p] : p \in Players}
    IN  {Orbits(drawn) : drawn \in kSubset(NodesPerSector, spots)}

Ring == [t \in Tiles |-> Block(t, 1) \ {t}]
LiveNeighbours(g, t) == Cardinality(Ring[t] \cap g)

\* One round of the automaton: a wall survives with four neighbours, grows with five.
AutomatonRound(g, protected) ==
    {t \in Tiles \ protected : LiveNeighbours(g, t) >= IF t \in g THEN 4 ELSE 5}

\* The grids the rounds may leave of any random noise.
Automaton(protected) ==
    LET grids[i \in 0..Iterations] ==
            IF i = 0 THEN SUBSET (Tiles \ protected)
            ELSE {AutomatonRound(g, protected) : g \in grids[i - 1]}
    IN  grids[Iterations]

\* acb-mapgen copies into a fresh grid: a tile outside sector 0 takes the source of its turn.
SymmetrizeFresh(g, protected) ==
    {t \in Tiles \ protected : IF InSector0(t) THEN t \in g ELSE Image(t) \in g}

\* The evolver turns the grid in place, row by row: of two tiles outside sector 0 that
\* are each other's image the later one is read before it is written.
Later(s, t) == IF s[1] > t[1] \/ (s[1] = t[1] /\ s[2] >= t[2]) THEN s ELSE t
SymmetrizeInPlace(g, protected) ==
    {t \in Tiles \ protected :
        IF InSector0(t) THEN t \in g
        ELSE IF InSector0(Image(t)) \/ Image(t) \in protected THEN Image(t) \in g
        ELSE Later(t, Image(t)) \in g}

\* The tiles cleared on the way from a core to the centre; two cores share the centre's column.
CarveCorridor(core) ==
    LET rows == IF core[1] <= Center THEN core[1]..Center ELSE Center..core[1]
    IN  UNION {{Wrap(r, core[2] + w) : w \in -Corridor..Corridor} : r \in rows}

\* Too many walls: a shuffled list is cut to the target, tile by tile.
CutTo(walls) == IF Cardinality(walls) > TargetWalls THEN kSubset(TargetWalls, walls) ELSE {walls}

\* A map row; whole says whether its map_json keeps rows, columns and players.
MapRow(walls, cores, nodes, whole) == [walls |-> walls, cores |-> cores, nodes |-> nodes, whole |-> whole]
CoreTiles(m) == {m.cores[p] : p \in DOMAIN m.cores}

Beside == [t \in Tiles |-> {Wrap(t[1] + 1, t[2]), Wrap(t[1] - 1, t[2]), Wrap(t[1], t[2] + 1), Wrap(t[1], t[2] - 1)}]

\* Breadth-first search from a tile, which is visited even when it is a wall.
Reach(walls, start) ==
    LET visit[seen \in SUBSET Tiles] ==
            LET next == seen \cup ((UNION {Beside[t] : t \in seen}) \ walls)
            IN  IF next = seen THEN seen ELSE visit[next]
    IN  visit[{start}]

\* Every open tile is reached from the first core, which is not itself a wall.
CheckConnectivityCore(m) == m.cores[0] \notin m.walls
CheckConnectivity(m) ==
    /\ m.cores[0] \notin m.walls
    /\ Reach(m.walls, m.cores[0]) = Tiles \ m.walls

CountReachableEnergyNodes(m, start) == Cardinality(Reach(m.walls, start) \cap m.nodes)

\* The grids and nodes a generator may draw, before the walls are made symmetric.
Drafts ==
    UNION {LET protected == Around({StartCores[p] : p \in Players}, CoreClear) \cup Around(nodes, NodeClear)
           IN  {[grid |-> g, protected |-> protected, nodes |-> nodes] : g \in Automaton(protected)} :
           nodes \in NodeSets}

\* EnsureConnectivity: drafts are drawn until one is connected.
MapgenMaps ==
    {m \in UNION {{MapRow(w, StartCores, d.nodes, TRUE) :
                     w \in CutTo(SymmetrizeFresh(d.grid, d.protected))} : d \in Drafts} :
        CheckConnectivity(m)}

-----------------------------------------------------------------------------
(***************************************************************************)
(* The evolver.                                                            *)
(***************************************************************************)
\* Wall density, connectivity, open area and reachable energy.
Validate(m, walls) ==
    /\ walls \in MinWalls..MaxWalls
    /\ CheckConnectivity(m)
    /\ (Side * Side - Cardinality(m.walls)) \div 2 >= MinOpen
    /\ \A p \in DOMAIN m.cores : CountReachableEnergyNodes(m, m.cores[p]) >= MinReach

CanReach(m, a, b) == b \in Reach(m.walls, a)

SmokeTest(m) ==
    /\ Cardinality(m.nodes) >= Cardinality(Players) * MinReach
    /\ \A p, q \in DOMAIN m.cores : p < q => CanReach(m, m.cores[p], m.cores[q])

\* A seed map: its corridors and its centre are carved, and validate reads the
\* density that was asked for, not the one the walls have.
SeedMaps ==
    {m \in UNION {{MapRow(w, StartCores, d.nodes, TRUE) :
                     w \in CutTo((SymmetrizeInPlace(d.grid, d.protected)
                                 \ UNION {CarveCorridor(StartCores[p]) : p \in Players})
                                 \ Block(<<Center, Center>>, CenterClear))} :
                   d \in Drafts} :
        Validate(m, TargetWalls)}

\* Walls both parents have in sector 0, and any choice of those only one has, are
\* turned; nodes are the first parent's and any choice of the second's.
Crossovers(p1, p2) ==
    LET sector == {t \in Tiles : InSector0(t)}
        common == (p1.walls \cap p2.walls) \cap sector
        either == ((p1.walls \cup p2.walls) \ (p1.walls \cap p2.walls)) \cap sector
    IN  {MapRow(Orbits(common \cup w), p1.cores, p1.nodes \cup n, TRUE) :
            w \in SUBSET either, n \in SUBSET (p2.nodes \ p1.nodes)}

Protected(m) == Around(CoreTiles(m), CoreClear) \cup m.nodes

\* Flips whole orbits of unprotected sector-0 tiles.
FlipWalls(m, flips) == (m.walls \ Orbits(flips \cap m.walls)) \cup Orbits(flips \ m.walls)

\* One sector-0 node moves in any direction, rounded to a tile, with its image; the
\* image is removed at its unwrapped place.
ShiftedNodes(m, walls) ==
    {m.nodes} \cup
    UNION {{(m.nodes \ {t, <<2 * Center - t[1], 2 * Center - t[2]>>}) \cup (Orbit(new) \ walls) :
              new \in Block(t, MaxShift)} : t \in {s \in m.nodes : InSector0(s)}}

\* The unprotected sector-0 walls and their images, never onto a protected tile.
SmoothWalls(walls, protected) == Orbits({t \in walls \ protected : InSector0(t)}) \ protected

Mutations(m) ==
    UNION {LET flipped == FlipWalls(m, flips)
           IN  {[m EXCEPT !.walls = SmoothWalls(flipped, Protected(m)), !.nodes = n] :
                  n \in ShiftedNodes(m, flipped)} :
           flips \in UNION {kSubset(k, {t \in Tiles \ Protected(m) : InSector0(t)}) : k \in 0..MaxFlips}}

-----------------------------------------------------------------------------
(***************************************************************************)
(* The match runner.                                                       *)
(***************************************************************************)
\* Mutant: a map with a player missing is loaded all the same.
LoadPreGeneratedMapAny(m) ==
    LET cores == {<<p, m.cores[p]>> : p \in DOMAIN m.cores}
    IN  [walls |-> m.walls, cores |-> cores, units |-> cores, loaded |-> TRUE]

\* A core whose owner or place is out of range is skipped; walls, cores and units
\* placed before a player turns out to have no core stay on the board.
LoadPreGeneratedMap(m) ==
    LET owners == DOMAIN m.cores \cap Players
        cores  == {<<p, m.cores[p]>> : p \in owners}
    IN  [walls |-> m.walls \ {m.cores[p] : p \in owners}, cores |-> cores, units |-> cores,
         loaded |-> owners = Players]

\* Walls go where there is no core and no energy, one image at a time.
PlaceWalls(b, energy, walls) ==
    LET taken == {c[2] : c \in b.cores} \cup energy
    IN  [b EXCEPT !.walls = @ \cup UNION {Orbit(t) \ taken : t \in walls \ taken}]

\* A fallback board: cores and units are added to whatever the map left.
GenerateOnto(b, energy, walls) ==
    LET cores == {<<p, StartCores[p]>> : p \in Players}
        cored == [b EXCEPT !.cores = @ \cup cores, !.units = @ \cup cores,
                           !.walls = @ \ {c[2] : c \in cores}]
    IN  PlaceWalls(cored, energy, walls)

PlaceEnergyNodes == {Orbit(Wrap(Center + d[1], Center + d[2])) : d \in NodeSpots}

\* The boards a match on a map may start on.  A map written for other players than
\* the match has misses the cores of some.
StartBoards(m) ==
    UNION {LET cut    == [m EXCEPT !.cores = [p \in (DOMAIN m.cores) \ missing |-> m.cores[p]]]
               loaded == LoadPreGeneratedMap(cut)
           IN  IF loaded.loaded THEN {loaded}
               ELSE {GenerateOnto(loaded, energy, walls) :
                       energy \in PlaceEnergyNodes, walls \in {{}} \cup {{t} : t \in Tiles}} :
           missing \in SUBSET Players}

-----------------------------------------------------------------------------
(***************************************************************************)
(* Actions.                                                                *)
(***************************************************************************)
MapForgeInit ==
    /\ pool = {}
    /\ parents = {}
    /\ evolver = "idle"

SaveMap(m) == pool' = pool \cup {m}

\* Every parent weighs at least a tenth, so any may be drawn; two different ones are.
ParentPairs(ps) == {pair \in ps \X ps : pair[1] # pair[2]}

\* The loader stores walls, cores and energy nodes, and no dimensions.
LoadMapFile ==
    /\ Cardinality(pool) < MaxPool
    /\ \E m \in MapgenMaps : SaveMap([m EXCEPT !.whole = FALSE])
    /\ UNCHANGED <<parents, evolver>>

SeedIfEmpty ==
    /\ evolver = "idle"
    /\ Cardinality(pool) < MinSeedCount
    /\ \E m \in SeedMaps : SaveMap(m)
    /\ UNCHANGED <<parents, evolver>>

\* Fewer than two parents: the cycle is skipped.
SelectParents ==
    /\ evolver = "idle"
    /\ Cardinality(pool) >= MinSeedCount
    /\ Cardinality(pool) >= 2
    /\ parents' = pool
    /\ evolver' = "breeding"
    /\ UNCHANGED pool

\* A first parent without dimensions: the margin of a core is taken modulo zero.
BreedPanics ==
    /\ evolver = "breeding"
    /\ \E pair \in ParentPairs(parents) : ~pair[1].whole
    /\ evolver' = "down"
    /\ parents' = {}
    /\ UNCHANGED pool

\* A child that fails validation or the smoke test is dropped.
Breed ==
    /\ evolver = "breeding"
    /\ Cardinality(pool) < MaxPool
    /\ \E pair \in ParentPairs(parents) :
        /\ pair[1].whole
        /\ \E c \in Crossovers(pair[1], pair[2]) : \E m \in Mutations(c) :
            /\ Validate(m, Cardinality(m.walls))
            /\ SmokeTest(m)
            /\ SaveMap(m)
    /\ UNCHANGED <<parents, evolver>>

EndEvolution ==
    /\ evolver \in {"breeding", "down"}
    /\ evolver' = "idle"
    /\ parents' = {}
    /\ UNCHANGED pool

MapForgeNext ==
    \/ LoadMapFile \/ SeedIfEmpty \/ SelectParents \/ BreedPanics \/ Breed \/ EndEvolution

MapForgeSpec == MapForgeInit /\ [][MapForgeNext]_forgeVars

-----------------------------------------------------------------------------
(***************************************************************************)
(* Properties.                                                             *)
(***************************************************************************)
\* Every map the pool ever holds can be played: no wall stands on a core or on an
\* energy node, the open tiles are one region, and each core reaches the energy it
\* is promised, whatever crossover, mutation and smoothing did to the parents.
PlayableMaps ==
    \A m \in pool :
        /\ m.walls \cap (CoreTiles(m) \cup m.nodes) = {}
        /\ \E t \in Tiles \ m.walls : Reach(m.walls, t) = Tiles \ m.walls
        /\ \A p \in Players : Cardinality(Reach(m.walls, m.cores[p]) \cap m.nodes) >= MinReach

\* A board the match runner sets up is ready to play on: every player has a
\* core, a unit stands on every core and nowhere else, and no wall is under one,
\* also after a map that failed to load left part of itself behind (match.go:448).
ReadyBoards ==
    \A m \in pool : \A b \in StartBoards(m) :
        /\ \A p \in Players : \E c \in b.cores : c[1] = p
        /\ b.units = b.cores
        /\ \A c \in b.cores : c[2] \notin b.walls

\* What the generators and the evolver store can be played, and what the runner
\* makes of it is a board to play on (acb-mapgen, acb-map-evolver, match.go).
MapsAreSound == PlayableMaps /\ ReadyBoards

=============================================================================
